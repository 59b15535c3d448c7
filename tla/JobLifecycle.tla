---------------------------- MODULE JobLifecycle ----------------------------
(***************************************************************************)
(* What the job queue of MyTube Extract promises to its users, without     *)
(* workers, claims, timeouts or crashes: a single server that runs one job *)
(* at a time, oldest first, may put the running job back when it gives up  *)
(* on it, and settles every job once.  A WorkerQueue of one worker         *)
(* implements it.                                                          *)
(***************************************************************************)
EXTENDS Integers

CONSTANTS
  Jobs,        \* job ids; their order as numbers is the order of the ids
  Removable    \* the jobs whose row may be deleted (subtitle jobs)

VARIABLES
  phase,       \* phase[j] : what a user of the service can know of job j
  createdAt,   \* createdAt[j] : arrival stamp of j
  lastStamp    \* the newest arrival stamp handed out

vars == <<phase, createdAt, lastStamp>>

Init ==
  /\ phase = [j \in Jobs |-> "absent"]
  /\ createdAt = [j \in Jobs |-> 0]
  /\ lastStamp = 0

\* First come, first served; equal stamps are ordered by id.
Before(i, j) ==
  \/ createdAt[i] < createdAt[j]
  \/ createdAt[i] = createdAt[j] /\ i < j

Submit(j) ==
  /\ phase[j] = "absent"
  /\ phase' = [phase EXCEPT ![j] = "waiting"]
  /\ \E s \in {lastStamp, lastStamp + 1} :
       /\ createdAt' = [createdAt EXCEPT ![j] = s]
       /\ lastStamp' = s

\* The server is free and j is first in line.
Start(j) ==
  /\ phase[j] = "waiting"
  /\ \A i \in Jobs : phase[i] # "running"
  /\ \A i \in Jobs : phase[i] = "waiting" => ~ Before(i, j)
  /\ phase' = [phase EXCEPT ![j] = "running"]
  /\ UNCHANGED <<createdAt, lastStamp>>

\* The server gives up on the running job: it keeps its place in the line.
Requeue(j) ==
  /\ phase[j] = "running"
  /\ phase' = [phase EXCEPT ![j] = "waiting"]
  /\ UNCHANGED <<createdAt, lastStamp>>

Settle(j) ==
  /\ phase[j] = "running"
  /\ \E outcome \in {"completed", "failed"} :
       phase' = [phase EXCEPT ![j] = outcome]
  /\ UNCHANGED <<createdAt, lastStamp>>

Remove(j) ==
  /\ phase[j] \notin {"absent", "removed"}
  /\ phase' = [phase EXCEPT ![j] = "removed"]
  /\ UNCHANGED <<createdAt, lastStamp>>

Next ==
  \/ \E j \in Jobs : Submit(j) \/ Start(j) \/ Requeue(j) \/ Settle(j)
  \/ \E j \in Removable : Remove(j)

Spec == Init /\ [][Next]_vars
=============================================================================

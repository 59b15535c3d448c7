------------------------------ MODULE Heartbeat ------------------------------
(***************************************************************************)
(* The sign of life of the worker: its timer upserts lastSeenAt, whatever  *)
(* the main loop is busy with (apps/worker/src/main.ts, startHeartbeat),   *)
(* and GET /health calls the worker available while lastSeenAt is no older *)
(* than the stale limit (apps/api/src/health/health.service.ts).           *)
(*                                                                         *)
(* Time is kept as ages, in ticks.  An upsert carries the time at which it *)
(* was made.  Upserts are not awaited: they may overtake each other, fail, *)
(* or reach the database after the process that made them has died.        *)
(***************************************************************************)
EXTENDS Integers, FiniteSets

CONSTANTS
  Interval,   \* LOOP_INTERVAL_MS, the period of the timer
  Stale,      \* WORKER_HEARTBEAT_STALE_MS
  Delay,      \* no upsert is under way for longer than this
  MaxLost     \* bound on upserts that fail in a row

\* Late and lost upserts leave some room before the limit.  The defaults
\* (5 s and 15 s) have it for one lost upsert and a delay of 2.5 s.
ASSUME HeartbeatAssumption ==
  /\ Interval \in Nat \ {0}
  /\ Delay \in Nat
  /\ MaxLost \in Nat
  /\ Stale \in Nat
  /\ 2 * Delay + Interval * (MaxLost + 1) <= Stale

NoRow == -1

VARIABLES
  up,       \* the worker process runs
  gone,     \* ticks since it last ran
  timer,    \* ticks until its timer fires
  flying,   \* ages of the upserts under way
  lost,     \* upserts that failed since the last one that did not
  seen,     \* age of lastSeenAt, or NoRow
  warm      \* an upsert has succeeded since the process started

beatVars == <<up, gone, timer, flying, lost, seen, warm>>

BeatInit ==
  /\ up = FALSE /\ gone = Stale + 1 /\ timer = 0
  /\ flying = {} /\ lost = 0
  /\ seen = NoRow
  /\ warm = FALSE

\* startHeartbeat: one upsert at once, and the timer.
StartWorker ==
  /\ ~up /\ up' = TRUE
  /\ gone' = 0 /\ timer' = Interval
  /\ flying' = flying \cup {0}
  /\ warm' = FALSE
  /\ UNCHANGED <<lost, seen>>

\* shutdown, a rejection of main, a crash.
StopWorker ==
  /\ up /\ up' = FALSE
  /\ UNCHANGED <<gone, timer, flying, lost, seen, warm>>

BeatMutantSlowTimer ==
  /\ up /\ timer = 0
  /\ timer' = 2 * Interval
  /\ flying' = flying \cup {0}
  /\ UNCHANGED <<up, gone, lost, seen, warm>>

\* The timer fires; nothing waits for the upsert.
Beat ==
  /\ up /\ timer = 0
  /\ timer' = Interval
  /\ flying' = flying \cup {0}
  /\ UNCHANGED <<up, gone, lost, seen, warm>>

LandMutantStampedByDatabase(age) ==
  /\ flying' = flying \ {age}
  /\ seen' = 0
  /\ lost' = 0
  /\ warm' = up
  /\ UNCHANGED <<up, gone, timer>>

\* The upsert of this age writes its own time, even over a later one.
Land(age) ==
  /\ flying' = flying \ {age}
  /\ seen' = age
  /\ lost' = 0
  /\ warm' = up
  /\ UNCHANGED <<up, gone, timer>>

\* It fails: writeHeartbeat logs the error.
Lose(age) ==
  /\ lost < MaxLost
  /\ flying' = flying \ {age}
  /\ lost' = lost + 1
  /\ UNCHANGED <<up, gone, timer, seen, warm>>

\* Ages beyond Stale all mean the same.
Older(age) == IF age > Stale THEN age ELSE age + 1

Tick ==
  /\ up => timer > 0
  /\ \A age \in flying : age < Delay
  /\ timer' = IF up THEN timer - 1 ELSE timer
  /\ gone' = IF up THEN gone ELSE Older(gone)
  /\ flying' = {age + 1 : age \in flying}
  /\ seen' = IF seen = NoRow THEN NoRow ELSE Older(seen)
  /\ UNCHANGED <<up, lost, warm>>

BeatStep == Beat \/ Tick \/ \E age \in flying : Land(age) \/ Lose(age)

BeatNext == StartWorker \/ StopWorker \/ BeatStep

BeatSpec == BeatInit /\ [][BeatNext]_beatVars

\* health.
Available == seen # NoRow /\ seen <= Stale

-----------------------------------------------------------------------------
(* Properties.                                                             *)

BeatTypeOK ==
  /\ up \in BOOLEAN /\ warm \in BOOLEAN
  /\ gone \in 0..(Stale + 1)
  /\ timer \in 0..Interval
  /\ flying \subseteq 0..Delay
  /\ lost \in 0..MaxLost
  /\ seen \in {NoRow} \cup 0..(Stale + 1)

\* A worker that is called available has run within the stale limit, however
\* late the upserts of a dead one arrive.
AvailableMeansAlive == Available => gone <= Stale

\* A worker that runs is called available from its first upsert on, although
\* upserts overtake each other and some fail.
AliveIsAvailable == up /\ warm => Available
=============================================================================

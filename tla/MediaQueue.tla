----------------------------- MODULE MediaQueue -----------------------------
(***************************************************************************)
(* The in-memory download queue of the API server                          *)
(* (apps/api/src/media/media-download-job.service.ts) on top of the        *)
(* download lifecycle it shares with the direct audio and video endpoints  *)
(* (media-download.service.ts), the sweep of finished jobs                 *)
(* (media-download-job-cleanup.scheduler.ts) and the delivery of a file    *)
(* (http-media-delivery.ts).                                               *)
(*                                                                         *)
(* JavaScript runs a handler to its end and then all pending microtasks:   *)
(* requests, process exits and timers (the actions guarded by Quiet) wait  *)
(* until Drain and the settled downloads have run.                         *)
(***************************************************************************)
EXTENDS Integers, Sequences, FiniteSets

CONSTANTS
  Jobs,            \* jobs of the queue
  Direct,          \* requests of the direct endpoints
  Limit,           \* MEDIA_DOWNLOAD_CONCURRENCY, 0 when it is not set
  QueueLimit,      \* MEDIA_DOWNLOAD_QUEUE_LIMIT
  MaxDirFailures   \* bound on failures to make a work directory

ASSUME MediaAssumption ==
  /\ IsFiniteSet(Jobs) /\ IsFiniteSet(Direct)
  /\ Jobs \cap Direct = {}
  /\ Limit \in Nat
  /\ QueueLimit \in Nat \ {0}
  /\ MaxDirFailures \in Nat

Downloads == Jobs \cup Direct

VARIABLES
  status,           \* status[j]: "none" before create, "removed" after the sweep
  queue,            \* ids waiting, first in first out
  runningCount,
  drainScheduled,
  activeDownloads,  \* the counter of MediaDownloadService
  run,              \* run[x]: none, refused, downloading or rejecting
  file,             \* downloads whose work directory is on disk
  artifact,         \* jobs whose record holds an artifact
  consumed,         \* jobs whose file endpoint took the artifact over
  delivering,       \* downloads whose file is being sent
  old,              \* jobs whose updatedAt is a TTL ago
  dirFailures

queueVars == <<queue, runningCount, drainScheduled>>
downloadVars == <<activeDownloads, run, file, dirFailures>>
deliveryVars == <<artifact, consumed, delivering>>
vars == <<status, queueVars, downloadVars, deliveryVars, old>>

Init ==
  /\ status = [j \in Jobs |-> "none"]
  /\ queue = <<>> /\ runningCount = 0 /\ drainScheduled = FALSE
  /\ activeDownloads = 0
  /\ run = [x \in Downloads |-> "none"]
  /\ file = {} /\ dirFailures = 0
  /\ artifact = {} /\ consumed = {} /\ delivering = {}
  /\ old = {}

\* DEFAULT_CONCURRENCY_LIMIT applies to the queue only.
Slots == IF Limit = 0 THEN 1 ELSE Limit

\* "refused": download() threw at its start; "rejecting": the promise of the
\* downloader is rejected.
Settling == {x \in Downloads : run[x] \in {"refused", "rejecting"}}

Quiet == ~drainScheduled /\ Settling = {}

Known(j) == status[j] \notin {"none", "removed"}

-----------------------------------------------------------------------------
(* MediaDownloadService.download.                                          *)

\* Synchronous part: the limit, the counter, the work directory.
Begin(x) ==
  \/ /\ Limit > 0 /\ activeDownloads >= Limit
     /\ run' = [run EXCEPT ![x] = "refused"]
     /\ UNCHANGED <<activeDownloads, file, dirFailures>>
  \/ /\ Limit = 0 \/ activeDownloads < Limit
     /\ activeDownloads' = activeDownloads + 1
     /\ \/ /\ run' = [run EXCEPT ![x] = "downloading"]
           /\ file' = file \cup {x}
           /\ UNCHANGED dirFailures
        \/ /\ dirFailures < MaxDirFailures      \* mkdtempSync throws
           /\ run' = [run EXCEPT ![x] = "refused"]
           /\ dirFailures' = dirFailures + 1
           /\ UNCHANGED file

EndMutantRefusedCounted(x) ==
  /\ run' = [run EXCEPT ![x] = "none"]
  /\ activeDownloads' = activeDownloads - 1
  /\ file' = file \ {x}
  /\ UNCHANGED dirFailures

\* catch and finally of a download that began.
End(x) ==
  /\ run' = [run EXCEPT ![x] = "none"]
  /\ IF run[x] = "refused"
     THEN UNCHANGED <<activeDownloads, file>>
     ELSE activeDownloads' = activeDownloads - 1 /\ file' = file \ {x}
  /\ UNCHANGED dirFailures

\* yt-dlp fails, or the timeout aborts it.
Fail(x) ==
  /\ Quiet
  /\ run[x] = "downloading"
  /\ run' = [run EXCEPT ![x] = "rejecting"]
  /\ UNCHANGED <<status, queueVars, activeDownloads, file, dirFailures,
                 deliveryVars, old>>

-----------------------------------------------------------------------------
(* MediaDownloadJobService.                                                *)

Mark(j, s) ==
  /\ status' = [status EXCEPT ![j] = s]
  /\ old' = old \ {j}

Create(j) ==
  /\ Quiet
  /\ status[j] = "none"
  /\ Len(queue) < QueueLimit
  /\ Mark(j, "queued")
  /\ queue' = Append(queue, j)
  /\ drainScheduled' = TRUE
  /\ UNCHANGED <<runningCount, downloadVars, deliveryVars>>

\* One turn of the loop of drain; the microtask ends when the condition of
\* the loop is false.
Drain ==
  /\ drainScheduled
  /\ IF runningCount < Slots /\ queue # <<>>
     THEN LET j == Head(queue)
          IN  /\ queue' = Tail(queue)
              /\ IF status[j] = "queued"
                 THEN /\ runningCount' = runningCount + 1
                      /\ Mark(j, "running")
                      /\ Begin(j)
                 ELSE UNCHANGED <<runningCount, status, old, downloadVars>>
              /\ UNCHANGED drainScheduled
     ELSE /\ drainScheduled' = FALSE
          /\ UNCHANGED <<status, old, queue, runningCount, downloadVars>>
  /\ UNCHANGED deliveryVars

\* finally of run.
FreeSlotMutantNoDrain ==
  runningCount' = runningCount - 1 /\ UNCHANGED <<queue, drainScheduled>>

FreeSlot ==
  /\ runningCount' = runningCount - 1
  /\ drainScheduled' = TRUE
  /\ UNCHANGED queue

\* yt-dlp exits with 0 and a file: an abort settles its promise at once, so
\* a job that is canceled never gets here.
RunReady(j) ==
  /\ Quiet
  /\ run[j] = "downloading"
  /\ run' = [run EXCEPT ![j] = "none"]
  /\ activeDownloads' = activeDownloads - 1
  /\ artifact' = artifact \cup {j}
  /\ Mark(j, "ready")
  /\ FreeSlot
  /\ UNCHANGED <<file, dirFailures, consumed, delivering>>

RunRejectedMutantCancelForgotten(j) ==
  /\ j \in Settling
  /\ End(j)
  /\ FreeSlot
  /\ Mark(j, "failed")
  /\ UNCHANGED deliveryVars

RunRejected(j) ==
  /\ j \in Settling
  /\ End(j)
  /\ FreeSlot
  /\ IF status[j] = "canceled" THEN UNCHANGED <<status, old>>
                               ELSE Mark(j, "failed")
  /\ UNCHANGED deliveryVars

\* indexOf and splice; the id of a queued job is there once.
RemoveQueuedJob(j) ==
  \E i \in DOMAIN queue :
    /\ queue[i] = j
    /\ queue' = SubSeq(queue, 1, i - 1) \o SubSeq(queue, i + 1, Len(queue))

CancelMutantFileOfDelivery(j) ==
  /\ Quiet
  /\ status[j] = "ready"
  /\ Mark(j, "canceled")
  /\ file' = file \ {j} /\ artifact' = artifact \ {j}
  /\ UNCHANGED <<queueVars, activeDownloads, run, dirFailures, consumed,
                 delivering>>

\* cancel, one disjunct per status.  Abort kills yt-dlp and rejects.
Cancel(j) ==
  /\ Quiet
  /\ Known(j) /\ status[j] \notin {"failed", "expired"}
  /\ Mark(j, "canceled")
  /\ \/ /\ status[j] = "queued"
        /\ RemoveQueuedJob(j)
        /\ UNCHANGED <<run, file, artifact>>
     \/ /\ status[j] = "running"
        /\ run' = [run EXCEPT ![j] = "rejecting"]
        /\ UNCHANGED <<queue, file, artifact>>
     \/ /\ status[j] = "ready" /\ j \notin consumed
        /\ file' = file \ {j} /\ artifact' = artifact \ {j}
        /\ UNCHANGED <<queue, run>>
     \/ /\ status[j] = "canceled" \/ (status[j] = "ready" /\ j \in consumed)
        /\ UNCHANGED <<queue, run, file, artifact>>
  /\ UNCHANGED <<runningCount, drainScheduled, activeDownloads, dirFailures,
                 consumed, delivering>>

ConsumeReadyArtifact(j) ==
  /\ Quiet
  /\ status[j] = "ready" /\ j \notin consumed /\ j \in artifact
  /\ consumed' = consumed \cup {j}
  /\ delivering' = delivering \cup {j}
  /\ UNCHANGED <<status, queueVars, downloadVars, artifact, old>>

\* sendFile calls back: the file is cleaned up and the job marked expired.
Delivered(j) ==
  /\ Quiet
  /\ j \in delivering
  /\ delivering' = delivering \ {j}
  /\ file' = file \ {j}
  /\ artifact' = artifact \ {j}
  /\ IF Known(j) THEN Mark(j, "expired") ELSE UNCHANGED <<status, old>>
  /\ UNCHANGED <<queueVars, activeDownloads, run, dirFailures, consumed>>

Age(j) ==
  /\ Quiet
  /\ Known(j) /\ j \notin old
  /\ old' = old \cup {j}
  /\ UNCHANGED <<status, queueVars, downloadVars, deliveryVars>>

SweepMutantFilesKept ==
  LET expired == {j \in old : status[j] \notin {"queued", "running"}}
  IN  /\ Quiet
      /\ expired # {}
      /\ artifact' = artifact \ expired
      /\ status' = [j \in Jobs |-> IF j \in expired THEN "removed" ELSE status[j]]
      /\ old' = old \ expired
      /\ UNCHANGED <<queueVars, downloadVars, consumed, delivering>>

\* cleanupExpiredJobs.
Sweep ==
  LET expired == {j \in old : status[j] \notin {"queued", "running"}}
  IN  /\ Quiet
      /\ expired # {}
      /\ file' = file \ (expired \cap artifact)
      /\ artifact' = artifact \ expired
      /\ status' = [j \in Jobs |-> IF j \in expired THEN "removed" ELSE status[j]]
      /\ old' = old \ expired
      /\ UNCHANGED <<queueVars, activeDownloads, run, dirFailures, consumed,
                     delivering>>

-----------------------------------------------------------------------------
(* The direct endpoints: download, then sendMediaArtifact.                 *)

DirectRequest(d) ==
  /\ Quiet
  /\ run[d] = "none" /\ d \notin delivering
  /\ Begin(d)
  /\ UNCHANGED <<status, queueVars, deliveryVars, old>>

DirectReady(d) ==
  /\ Quiet
  /\ run[d] = "downloading"
  /\ run' = [run EXCEPT ![d] = "none"]
  /\ activeDownloads' = activeDownloads - 1
  /\ delivering' = delivering \cup {d}
  /\ UNCHANGED <<status, queueVars, file, dirFailures, artifact, consumed, old>>

DirectRejected(d) ==
  /\ d \in Settling
  /\ End(d)
  /\ UNCHANGED <<status, queueVars, deliveryVars, old>>

DirectDelivered(d) ==
  /\ Quiet
  /\ d \in delivering
  /\ delivering' = delivering \ {d}
  /\ file' = file \ {d}
  /\ UNCHANGED <<status, queueVars, activeDownloads, run, dirFailures,
                 artifact, consumed, old>>

-----------------------------------------------------------------------------
Microtask ==
  \/ Drain
  \/ \E j \in Jobs : RunRejected(j)
  \/ \E d \in Direct : DirectRejected(d)

Next ==
  \/ Microtask
  \/ \E x \in Downloads : Fail(x)
  \/ \E j \in Jobs :
       \/ Create(j) \/ Cancel(j) \/ RunReady(j)
       \/ ConsumeReadyArtifact(j) \/ Delivered(j) \/ Age(j)
  \/ \E d \in Direct : DirectRequest(d) \/ DirectReady(d) \/ DirectDelivered(d)
  \/ Sweep

Spec == Init /\ [][Next]_vars

\* Microtasks run, and yt-dlp ends or is aborted by the timeout.  Requests
\* keep coming between them, which is why an end is only enabled again and
\* again.
Fairness ==
  /\ WF_vars(Microtask)
  /\ \A j \in Jobs : SF_vars(RunReady(j) \/ Fail(j))

FairSpec == Spec /\ Fairness

-----------------------------------------------------------------------------
(* Properties.                                                             *)

\* MEDIA_DOWNLOAD_CONCURRENCY bounds the downloads in progress, those of the
\* queue and of the direct endpoints taken together.
ConcurrencyLimitHolds ==
  Limit > 0 =>
    Cardinality({x \in Downloads : run[x] \in {"downloading", "rejecting"}}) <= Limit

\* activeDownloads, "the number of downloads being made", counts just those.
ActiveCountsDownloads ==
  activeDownloads =
    Cardinality({x \in Downloads : run[x] \in {"downloading", "rejecting"}})

\* A work directory on disk has someone who will remove it: its download,
\* its delivery, or a job record the sweep comes to.
NoFileLeaks ==
  \A x \in file :
    \/ run[x] \in {"downloading", "rejecting"}
    \/ x \in delivering
    \/ x \in artifact /\ Known(x)

\* A file that is being sent is taken away by the sweep at most: no cancel,
\* second request or other delivery does it.
OnlySweepCutsDelivery ==
  [][\A x \in delivering \cap file :
       x \in delivering' => x \in file' \/ (x \in old /\ status'[x] = "removed")]_vars

\* A canceled job is never reported ready or failed later, whatever its
\* download does; only its delivery or the sweep end it.
CanceledStaysCanceled ==
  [][\A j \in Jobs : status[j] = "canceled"
       => status'[j] \in {"canceled", "expired", "removed"}]_vars

\* Every job leaves the queue, and its download ends.
EveryJobRuns ==
  \A j \in Jobs :
    status[j] \in {"queued", "running"} ~> status[j] \notin {"queued", "running"}

=============================================================================

-------------------------- MODULE ExtractionRunner --------------------------
(***************************************************************************)
(* One extraction by yt-dlp: the single-attempt runner                     *)
(* (packages/media-downloader/src/youtube-dl-runner.ts) under its two      *)
(* callers.  The worker tries twice in one work directory                  *)
(* (apps/worker/src/download-job.ts) and never aborts; the API             *)
(* (apps/api/src/media/media-download.service.ts) tries once, and a        *)
(* timeout or a canceled job aborts it.                                    *)
(*                                                                         *)
(* The events of the child process, the answer of stat and the abort       *)
(* signal come in any order the process allows.                            *)
(***************************************************************************)
EXTENDS Integers

CONSTANT EXTRACTION_ATTEMPTS   \* attempts of the worker

ASSUME RunnerAssumption == EXTRACTION_ATTEMPTS \in Nat \ {0}

VARIABLES
  caller,    \* "worker" or "api"
  attempt,   \* attempts begun
  pc,        \* where the caller is
  promise,   \* promise of the runner: "pending", "resolved" or the reason
             \* it was rejected for
  child,     \* what the child process does
  closed,    \* its close event has been handled
  stat,      \* a stat of the output is under way
  workDir,   \* the work directory exists
  output     \* "absent", "partial" while a child writes it, "leftover" of an
             \* earlier attempt, or "complete"

childVars == <<child, closed, stat>>
dirVars == <<workDir, output>>
vars == <<caller, attempt, pc, promise, childVars, dirVars>>

Rejections == {"aborted", "spawn-failed", "youtube-auth-required", "killed",
               "exit-code", "output-missing"}

Running == {"spawned", "killing"}

Init ==
  /\ caller \in {"worker", "api"}
  /\ attempt = 0
  /\ pc = "try"
  /\ promise = "pending"
  /\ child = "none" /\ closed = FALSE /\ stat = FALSE
  /\ workDir = TRUE /\ output = "absent"

Attempts == IF caller = "worker" THEN EXTRACTION_ATTEMPTS ELSE 1

-----------------------------------------------------------------------------
(* runYoutubeDl.                                                           *)

\* Only the first settle counts.
Settle(result) == promise' = IF promise = "pending" THEN result ELSE promise

\* execute throws, or starts a child; or the signal is aborted already.
Run ==
  /\ pc = "try"
  /\ pc' = "await"
  /\ attempt' = attempt + 1
  /\ closed' = FALSE /\ stat' = FALSE
  /\ \/ promise' = "spawn-failed" /\ UNCHANGED child
     \/ caller = "api" /\ promise' = "aborted" /\ UNCHANGED child
     \/ promise' = "pending" /\ child' = "spawned"
  /\ output' = IF output = "partial" THEN "leftover" ELSE output
  /\ UNCHANGED <<caller, workDir>>

\* The error event: the process could not be started, or not be killed.
\* The child, if there is one, goes on.
OnError ==
  /\ child \in Running
  /\ Settle("spawn-failed")
  /\ child' \in {child, "failed"}
  /\ UNCHANGED <<caller, attempt, pc, closed, stat, dirVars>>

\* The abort listener; it is removed when the promise is settled.
OnAbort ==
  /\ caller = "api" /\ pc = "await" /\ promise = "pending"
  /\ child' = IF child = "spawned" THEN "killing" ELSE child
  /\ Settle("aborted")
  /\ UNCHANGED <<caller, attempt, pc, closed, stat, dirVars>>

\* settleAfterClose, up to its await.
OnClose(reason) ==
  /\ child \in {"exited", "failed"} /\ ~closed
  /\ closed' = TRUE
  /\ IF promise # "pending" \/ child = "failed"
     THEN Settle(reason) /\ UNCHANGED stat
     ELSE stat' = TRUE /\ UNCHANGED promise
  /\ UNCHANGED <<caller, attempt, pc, child, dirVars>>

OnStatMutantSilent ==
  /\ stat
  /\ stat' = FALSE
  /\ promise' = IF output # "absent" THEN "resolved" ELSE promise
  /\ UNCHANGED <<caller, attempt, pc, child, closed, dirVars>>

OnStat ==
  /\ stat
  /\ stat' = FALSE
  /\ Settle(IF output = "absent" THEN "output-missing" ELSE "resolved")
  /\ UNCHANGED <<caller, attempt, pc, child, closed, dirVars>>

-----------------------------------------------------------------------------
(* yt-dlp.                                                                 *)

Write ==
  /\ child \in Running /\ workDir
  /\ output = "absent"
  /\ output' = "partial"
  /\ UNCHANGED <<caller, attempt, pc, promise, childVars, workDir>>

\* Exit code 0: the file is complete, was never written, or a file that was
\* there before was taken for the finished download.
ExitOk ==
  /\ child = "spawned"
  /\ child' = "exited"
  /\ output' \in CASE output = "partial" -> {"complete"}
                   [] output = "absent" /\ workDir -> {"absent", "complete"}
                   [] OTHER -> {output}
  /\ UNCHANGED <<caller, attempt, pc, promise, closed, stat, workDir>>

\* Another exit code, or a signal.
ExitBad ==
  /\ child \in Running
  /\ child' = "failed"
  /\ UNCHANGED <<caller, attempt, pc, promise, closed, stat, dirVars>>

-----------------------------------------------------------------------------
(* The callers.                                                            *)

RetryableMutantSpawnToo(reason) ==
  reason \notin {"killed", "aborted", "youtube-auth-required"}

Retryable(reason) ==
  reason \notin {"killed", "aborted", "spawn-failed", "youtube-auth-required"}

Succeed ==
  /\ pc = "await" /\ promise = "resolved"
  /\ pc' = "done"
  /\ UNCHANGED <<caller, attempt, promise, childVars, dirVars>>

RetryMutantOutputKept ==
  /\ pc = "await" /\ promise \in Rejections
  /\ attempt < Attempts /\ Retryable(promise)
  /\ pc' = "try"
  /\ UNCHANGED <<caller, attempt, promise, childVars, dirVars>>

\* The final file is removed, the partial data stay.
Retry ==
  /\ pc = "await" /\ promise \in Rejections
  /\ attempt < Attempts /\ Retryable(promise)
  /\ output' = "absent"
  /\ pc' = "try"
  /\ UNCHANGED <<caller, attempt, promise, childVars, workDir>>

GiveUp ==
  /\ pc = "await" /\ promise \in Rejections
  /\ attempt = Attempts \/ ~Retryable(promise)
  /\ workDir' = FALSE /\ output' = "absent"
  /\ pc' = "failed"
  /\ UNCHANGED <<caller, attempt, promise, childVars>>

-----------------------------------------------------------------------------
Events ==
  \/ OnError \/ OnStat
  \/ \E reason \in {"exit-code", "killed", "youtube-auth-required"} : OnClose(reason)

Exit == ExitOk \/ ExitBad

CallerNext == Run \/ Succeed \/ Retry \/ GiveUp

Next == CallerNext \/ Events \/ OnAbort \/ Write \/ Exit

Spec == Init /\ [][Next]_vars

-----------------------------------------------------------------------------
(* Properties.                                                             *)

\* Two children never write to one work directory: when an attempt begins,
\* the child of the one before has ended.
OneChildPerDir == pc = "try" => child \notin Running

\* A finished extraction leaves a file that yt-dlp completed, not the rest
\* of an attempt that failed.
SuccessHasWholeFile == pc = "done" => workDir /\ output = "complete"

=============================================================================

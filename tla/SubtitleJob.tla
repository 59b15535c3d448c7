------------------------------ MODULE SubtitleJob ------------------------------
(***************************************************************************)
(* A subtitle job from the upload of its source to the deletion of its     *)
(* row: SubtitleUpload, the worker that makes the SRT                      *)
(* (apps/worker/src/main.ts, processSubtitleJob) and the subtitle half of  *)
(* the hourly cleanup (apps/api/src/downloads/asset-cleanup.service.ts).   *)
(* They share the row and two objects of the bucket, the source and the    *)
(* result, and no transaction spans two of their steps.                    *)
(*                                                                         *)
(* One job and one worker; the order of the queue and a second worker are  *)
(* in WorkerQueue.  `row` of SubtitleUpload says that the row was          *)
(* inserted, `status` what has become of it.  Every call to the database   *)
(* or to R2 may fail after it took effect.                                 *)
(***************************************************************************)
EXTENDS SubtitleUpload

CONSTANT MaxFaults   \* bound on crashes, failed updates and failed cleanup steps

ASSUME FaultAssumption == MaxFaults \in Nat

VARIABLES
  status,      \* status column; "absent" before the insert, "removed" at the end
  rowExpired,  \* expiresAt is in the past
  resultKey,   \* resultObjectKey is set
  result,      \* the SRT is in R2
  stage,       \* where the worker is
  dirs,        \* work directories the worker process has made and not removed
  pass,        \* where the cleanup pass is with this row
  passKey,     \* resultObjectKey was set when the pass read the row
  faults

rowVars == <<status, rowExpired, resultKey>>
workerVars == <<stage, dirs>>
passVars == <<pass, passKey>>
jobVars == <<rowVars, result, workerVars, passVars, faults>>
allVars == <<vars, jobVars>>

InProgress == {"extracting_audio", "transcribing"}

JobInit ==
  /\ Init
  /\ status = "absent" /\ rowExpired = FALSE /\ resultKey = FALSE
  /\ result = FALSE
  /\ stage = "idle" /\ dirs = 0
  /\ pass = "idle" /\ passKey = FALSE
  /\ faults = 0

-----------------------------------------------------------------------------
(* The upload, whose insert is the birth of the row.                       *)

Upload(step) ==
  /\ step
  /\ status' = IF row' /\ ~row THEN "queued" ELSE status
  /\ UNCHANGED <<rowExpired, resultKey, result, workerVars, passVars, faults>>

ExpireRow ==
  /\ status \notin {"absent", "removed"} /\ ~rowExpired
  /\ rowExpired' = TRUE
  /\ UNCHANGED <<vars, status, resultKey, result, workerVars, passVars, faults>>

-----------------------------------------------------------------------------
(* The row and the worker's updates of it.                                 *)

Fault == faults < MaxFaults /\ faults' = faults + 1

\* update({where: {id}}) of these columns.
Write(newStatus, newKey) ==
  /\ status # "removed"
  /\ status' = newStatus
  /\ resultKey' = newKey
  /\ UNCHANGED rowExpired

UpdateOk(newStatus, newKey) == Write(newStatus, newKey) /\ UNCHANGED faults

\* It rejects: the row is gone, or the database fails, before or after it
\* has committed.
UpdateRejects(newStatus, newKey) ==
  \/ status = "removed" /\ UNCHANGED <<rowVars, faults>>
  \/ Fault /\ (UNCHANGED rowVars \/ Write(newStatus, newKey))

Goes(from, to) == stage = from /\ stage' = to

-----------------------------------------------------------------------------
(* processSubtitleJob, one action per await.                               *)

\* The claim, and then mkdtemp.  One that throws ends the process, for it is
\* outside every try.
Claim ==
  /\ status = "queued"
  /\ status' = "extracting_audio"
  /\ \/ Goes("idle", "download") /\ dirs' = dirs + 1 /\ UNCHANGED faults
     \/ Goes("idle", "down") /\ UNCHANGED dirs /\ Fault
  /\ UNCHANGED <<vars, rowExpired, resultKey, result, passVars>>

\* downloadObject.
Download ==
  /\ \/ Goes("download", "extract") /\ object = Parts
     \/ Goes("download", "blame_source")
  /\ UNCHANGED <<vars, rowVars, result, dirs, passVars, faults>>

BlameSourceMutantReturns ==
  /\ \/ Goes("blame_source", "idle") /\ UpdateOk("failed", resultKey)
     \/ Goes("blame_source", "down") /\ UpdateRejects("failed", resultKey)
  /\ UNCHANGED <<vars, result, dirs, passVars>>

\* markSubtitleFailed(SOURCE_DOWNLOAD_FAILED), in a catch that no try
\* surrounds: a rejection ends the process before rm.
BlameSource ==
  /\ \/ Goes("blame_source", "remove_dir") /\ UpdateOk("failed", resultKey)
     \/ Goes("blame_source", "down") /\ UpdateRejects("failed", resultKey)
  /\ UNCHANGED <<vars, result, dirs, passVars>>

\* extractSubtitleAudio and assertSubtitleAudioSize.
ExtractAudio ==
  /\ Goes("extract", "mark") \/ Goes("extract", "fail")
  /\ UNCHANGED <<vars, rowVars, result, dirs, passVars, faults>>

MarkTranscribing ==
  /\ \/ Goes("mark", "transcribe") /\ UpdateOk("transcribing", resultKey)
     \/ Goes("mark", "fail") /\ UpdateRejects("transcribing", resultKey)
  /\ UNCHANGED <<vars, result, dirs, passVars>>

\* transcribeAudioToSrt: no model, no CLI, an exit code, no or an empty SRT.
Transcribe ==
  /\ Goes("transcribe", "upload") \/ Goes("transcribe", "fail")
  /\ UNCHANGED <<vars, rowVars, result, dirs, passVars, faults>>

UploadResultMutantAfterRow ==
  /\ Goes("upload", "complete") \/ Goes("upload", "blame_upload")
  /\ UNCHANGED <<vars, rowVars, result, dirs, passVars, faults>>

\* uploadBuffer; one that throws may have stored the object.
UploadResult ==
  /\ \/ Goes("upload", "complete") /\ result' = TRUE /\ UNCHANGED faults
     \/ Goes("upload", "blame_upload") /\ UNCHANGED <<result, faults>>
     \/ Goes("upload", "blame_upload") /\ result' = TRUE /\ Fault
  /\ UNCHANGED <<vars, rowVars, dirs, passVars>>

\* markSubtitleFailed(UPLOAD_FAILED) inside the try: a rejection goes to the
\* outer catch.
BlameUpload ==
  /\ \/ Goes("blame_upload", "remove_dir") /\ UpdateOk("failed", resultKey)
     \/ Goes("blame_upload", "fail") /\ UpdateRejects("failed", resultKey)
  /\ UNCHANGED <<vars, result, dirs, passVars>>

\* The last update of the try.
Complete ==
  /\ \/ Goes("complete", "remove_dir") /\ UpdateOk("completed", TRUE)
     \/ Goes("complete", "fail") /\ UpdateRejects("completed", TRUE)
  /\ UNCHANGED <<vars, result, dirs, passVars>>

\* The outer catch.  Its own rejection ends the process, after finally.
Fail ==
  /\ \/ Goes("fail", "remove_dir") /\ UpdateOk("failed", resultKey)
     \/ Goes("fail", "remove_dir_exit") /\ UpdateRejects("failed", resultKey)
  /\ UNCHANGED <<vars, result, dirs, passVars>>

\* rm of the work directory.  One that throws ends the process, too.
RemoveDir ==
  /\ \/ Goes("remove_dir", "idle") /\ dirs' = dirs - 1 /\ UNCHANGED faults
     \/ Goes("remove_dir_exit", "down") /\ dirs' = dirs - 1 /\ UNCHANGED faults
     \/ stage \in {"remove_dir", "remove_dir_exit"} /\ stage' = "down"
        /\ UNCHANGED dirs /\ Fault
  /\ UNCHANGED <<vars, rowVars, result, passVars>>

\* SIGTERM, the OOM killer, the machine: at any await.
WorkerCrash ==
  /\ stage # "down" /\ stage' = "down"
  /\ Fault
  /\ UNCHANGED <<vars, rowVars, result, dirs, passVars>>

\* docker restarts the process; what the last one left on the disk is nobody's.
StartWorker ==
  /\ Goes("down", "idle")
  /\ dirs' = 0
  /\ UNCHANGED <<vars, rowVars, result, passVars, faults>>

RestoreMutantAnyStatus ==
  /\ stage = "idle" /\ status \in InProgress \cup {"completed", "failed"}
  /\ status' = "queued"
  /\ UNCHANGED <<vars, rowExpired, resultKey, result, workerVars, passVars,
                 faults>>

RestoreMutantExtractingOnly ==
  /\ stage = "idle" /\ status = "extracting_audio"
  /\ status' = "queued"
  /\ UNCHANGED <<vars, rowExpired, resultKey, result, workerVars, passVars,
                 faults>>

\* restoreStuckJobs, after the timeout.
Restore ==
  /\ stage = "idle" /\ status \in InProgress
  /\ status' = "queued"
  /\ UNCHANGED <<vars, rowExpired, resultKey, result, workerVars, passVars,
                 faults>>

Work ==
  \/ StartWorker \/ Restore \/ Claim
  \/ Download \/ BlameSource \/ ExtractAudio \/ MarkTranscribing \/ Transcribe
  \/ UploadResult \/ BlameUpload \/ Complete \/ Fail \/ RemoveDir

-----------------------------------------------------------------------------
(* cleanupExpiredAssets, its subtitle half.                                *)

PassTo(from, to) == pass = from /\ pass' = to

StartPassMutantAnyRow ==
  /\ status \notin {"absent", "removed"}
  /\ PassTo("idle", "source")
  /\ passKey' = resultKey
  /\ UNCHANGED <<vars, rowVars, result, workerVars, faults>>

StartPassMutantCompletedOnly ==
  /\ rowExpired /\ status = "completed"
  /\ PassTo("idle", "source")
  /\ passKey' = resultKey
  /\ UNCHANGED <<vars, rowVars, result, workerVars, faults>>

\* findMany with expiresAt <= now, whatever the status.  The pass goes on
\* with the columns it has read.
StartPass ==
  /\ rowExpired /\ status # "removed"
  /\ PassTo("idle", "source")
  /\ passKey' = resultKey
  /\ UNCHANGED <<vars, rowVars, result, workerVars, faults>>

DeleteSource ==
  /\ PassTo("source", IF passKey THEN "result" ELSE "row")
  /\ object' = {}
  /\ UNCHANGED <<clientVars, session, stored, apiVars, expired, rowVars,
                 result, workerVars, passKey, faults>>

DeleteResult ==
  /\ PassTo("result", "row")
  /\ result' = FALSE
  /\ UNCHANGED <<vars, rowVars, workerVars, passKey, faults>>

DeleteRow ==
  /\ PassTo("row", "idle")
  /\ status' = "removed"
  /\ UNCHANGED <<vars, rowExpired, resultKey, result, workerVars, passKey,
                 faults>>

\* R2 or the database rejects, or the API crashes: the row is left to the
\* next pass.  (A step that took effect and rejects is the step, and then
\* this.)
PassFails ==
  /\ pass # "idle" /\ pass' = "idle"
  /\ Fault
  /\ UNCHANGED <<vars, rowVars, result, workerVars, passKey>>

Cleanup == StartPass \/ DeleteSource \/ DeleteResult \/ DeleteRow

-----------------------------------------------------------------------------
JobNext ==
  \/ Upload(Next) \/ ExpireRow
  \/ Work \/ WorkerCrash
  \/ Cleanup \/ PassFails

JobSpec == JobInit /\ [][JobNext]_allVars

\* The fairness of the upload; the worker's loop runs and docker restarts the
\* process, its programs end, and passes come every hour.
JobFairness ==
  /\ WF_allVars(Upload(ClientNext))
  /\ WF_allVars(Upload(HandlerNext))
  /\ WF_allVars(Work)
  /\ WF_allVars(Cleanup)

FairJobSpec == JobSpec /\ JobFairness

-----------------------------------------------------------------------------
(* Properties.                                                             *)

\* toResponse.
DisplayStatus ==
  IF status = "completed" /\ (~resultKey \/ rowExpired) THEN "expired" ELSE status

\* getFile answers with a stream, by the same columns.
FileIsOffered == status = "completed" /\ resultKey /\ ~rowExpired

\* Before it expires a job has its source in R2, whole: no compensation
\* deleted it and no part is missing.  The exception is an insert that
\* reported an error after it was committed: its handler takes the source
\* back, or has tried to, although the job exists.
JobHasItsSource ==
  status \notin {"absent", "removed"} /\ ~rowExpired =>
    object = Parts \/ handler \in {"undo", "rejected", "leaked"}

\* A source without a row, which no cleanup will find, is in the hands of a
\* handler or was left by a failure of R2 or a crash of the API.  The cleanup
\* leaves none behind.
NoOrphanSource ==
  object # {} /\ status \in {"absent", "removed"} =>
    handler \in {"check", "insert", "undo", "leaked", "unknown"}

\* A job that is shown as completed has its SRT: the row says so after the
\* upload only, and no pass or later attempt takes it away before it expires.
OfferedFileExists == DisplayStatus = "completed" => FileIsOffered /\ result

\* A job is left with its work directory in place only by a process that dies
\* in that very step: of a crash, of a failing rm, or of the one update that no
\* try surrounds.  A failure that is caught leaves none, not even if the catch
\* fails, too, and the process ends for it.
WorkDirsAreRemoved ==
  [][stage \notin {"idle", "down"} /\ stage' \in {"idle", "down"} /\ dirs' # 0 =>
       stage' = "down" /\ (faults' > faults \/ stage = "blame_source")]_allVars

\* A completed job becomes a failed one only if its own last update reported
\* an error after it was committed.
CompletedIsFinal ==
  [][status = "completed" =>
       status' \in {"completed", "removed"} \/ stage = "fail"]_allVars

\* The row as a job of JobLifecycle: it is started when it waits, put back in
\* line only while it runs, and settled once, whatever fails or dies and
\* wherever the cleanup takes it away.  A last update that reports an error after
\* it was committed has not settled the job, although a reader of the row
\* already sees it completed: the catch decides.
Phase ==
  CASE status = "queued" -> "waiting"
    [] status \in InProgress \/ (status = "completed" /\ stage = "fail") -> "running"
    [] OTHER -> status

Lifecycle == INSTANCE JobLifecycle WITH
  Jobs <- {1}, Removable <- {1},
  phase <- [j \in {1} |-> Phase], createdAt <- [j \in {1} |-> 0], lastStamp <- 0

ImplementsLifecycle == Lifecycle!Spec

\* Every job that is queued is completed, failed or removed, whatever crashes
\* or fails on the way (finitely often), also when the cleanup takes the row
\* from the worker.
EveryJobSettles ==
  status = "queued" ~> status \in {"completed", "failed", "removed"}

\* An expired job disappears, with its source and every result that the pass
\* has seen, although each pass may fail.  (A result that the worker adds to
\* a row the pass has already read stays in the bucket.)
ExpiredIsRemoved ==
  rowExpired ~> status = "removed" /\ object = {} /\ (passKey => ~result)
=============================================================================

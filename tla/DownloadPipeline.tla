-------------------------- MODULE DownloadPipeline --------------------------
(***************************************************************************)
(* A download from request to file: the API handler that creates the job   *)
(* (apps/api/src/downloads/downloads.service.ts), the worker that extracts *)
(* and uploads it (apps/worker/src/main.ts, processJob), the hourly        *)
(* cleanup (asset-cleanup.service.ts), and the two stores they share: the  *)
(* asset table and the R2 bucket.                                          *)
(*                                                                         *)
(* No transaction spans two of their steps, every await is a place where   *)
(* the others run, and a call may report an error after it took effect.    *)
(* Object keys are a function of (videoId, type, quality), so every        *)
(* extraction of the same key writes the same object; asset rows are       *)
(* unique per key too, but a row that is deleted and made again has a new  *)
(* id, and a delete or a reference by the old id fails.                    *)
(*                                                                         *)
(* One worker; which queued job it takes is left open here (WorkerQueue    *)
(* has the order).  A row is fresh until Expire makes it expired.          *)
(***************************************************************************)
EXTENDS Integers, FiniteSets

CONSTANTS
  Requests,     \* POST /downloads requests; the job a request creates has its name
  Keys,         \* (videoId, type, quality)
  KeyOf,        \* KeyOf[r] : the key request r asks for
  MaxLosses,    \* bound on objects lost outside the system
  MaxFaults     \* bound on crashes and on calls that take effect and report an error

ASSUME PipelineAssumption ==
  /\ IsFiniteSet(Keys)
  /\ KeyOf \in [Requests -> Keys]
  /\ MaxLosses \in Nat
  /\ MaxFaults \in Nat

NoRow == 0          \* assetId IS NULL, or no row was found
NoJob == "none"     \* the worker is idle

VARIABLES
  row,        \* row[k]    : id of the asset row of key k, or NoRow
  fresh,      \* ids of the rows with expiresAt in the future
  lastRow,    \* last row id handed out
  object,     \* object[k] : "absent", "stored", or "lost" outside the system
  status,     \* status[r] : status column of the job, "absent" before the insert
  assetId,    \* assetId[r]: the job's reference to an asset row
  api,        \* api[r]    : where the handler of request r is
  found,      \* found[r]  : the row that handler found
  worker,     \* where the worker is
  job,        \* the job it holds
  reuse,      \* the row it found for that job
  pass,       \* where the cleanup pass is
  expired,    \* the pass's snapshot: <<key, id>> of the rows left to clean
  losses, faults

stores == <<row, fresh, lastRow, object>>
jobs == <<status, assetId>>
handlers == <<api, found>>
workerVars == <<worker, job, reuse>>
cleanup == <<pass, expired>>
bounds == <<losses, faults>>
vars == <<stores, jobs, handlers, workerVars, cleanup, bounds>>

\* Earlier requests may have left rows, fresh or expired, with their objects,
\* and objects without a row.
Init ==
  /\ lastRow \in 0..Cardinality(Keys)
  /\ row \in [Keys -> 0..lastRow]
  /\ \A id \in 1..lastRow : Cardinality({k \in Keys : row[k] = id}) = 1
  /\ fresh \in SUBSET (1..lastRow)
  /\ object \in [Keys -> {"absent", "stored"}]
  /\ \A k \in Keys : row[k] # NoRow => object[k] = "stored"
  /\ status = [r \in Requests |-> "absent"]
  /\ assetId = [r \in Requests |-> NoRow]
  /\ api = [r \in Requests |-> "idle"]
  /\ found = [r \in Requests |-> NoRow]
  /\ worker = "idle" /\ job = NoJob /\ reuse = NoRow
  /\ pass = "idle" /\ expired = {}
  /\ losses = 0 /\ faults = 0

-----------------------------------------------------------------------------
(* The stores.                                                             *)

\* findFirst with expiresAt > now.
FreshRow(k) == IF row[k] \in fresh THEN row[k] ELSE NoRow

HasRow(k, id) == id # NoRow /\ row[k] = id

\* delete({where: {id}}): jobs that refer to the row lose the reference.
DeleteRow(k, id) ==
  /\ HasRow(k, id)
  /\ row' = [row EXCEPT ![k] = NoRow]
  /\ fresh' = fresh \ {id}
  /\ assetId' = [r \in Requests |-> IF assetId[r] = id THEN NoRow
                                                       ELSE assetId[r]]
  /\ UNCHANGED <<lastRow, object, status>>

Expire(k) ==
  /\ row[k] \in fresh
  /\ fresh' = fresh \ {row[k]}
  /\ UNCHANGED <<row, lastRow, object, jobs, handlers, workerVars, cleanup,
                 bounds>>

\* The object disappears by other hands (bucket rule, operator).
LoseObject(k) ==
  /\ object[k] = "stored"
  /\ losses < MaxLosses
  /\ object' = [object EXCEPT ![k] = "lost"]
  /\ losses' = losses + 1
  /\ UNCHANGED <<row, fresh, lastRow, jobs, handlers, workerVars, cleanup,
                 faults>>

Fault == faults < MaxFaults /\ faults' = faults + 1 /\ UNCHANGED losses

-----------------------------------------------------------------------------
(* DownloadsService.create, one action per await.                          *)

Move(r, from, to) ==
  /\ api[r] = from
  /\ api' = [api EXCEPT ![r] = to]

FindAsset(r) ==
  LET id == FreshRow(KeyOf[r])
  IN  /\ Move(r, "idle", IF id = NoRow THEN "insert" ELSE "head")
      /\ found' = [found EXCEPT ![r] = id]
      /\ UNCHANGED <<stores, jobs, workerVars, cleanup, bounds>>

\* objectExists: the candidate is reused only if its object is there.  What
\* R2 does not have, the public CDN may still answer for.
Head(r) ==
  /\ \/ Move(r, "head", "insert")
     \/ Move(r, "head", "delete") /\ object[KeyOf[r]] # "stored"
  /\ UNCHANGED <<stores, jobs, found, workerVars, cleanup, bounds>>

\* A call that commits and reports an error ends in the 500 of Error.
MoveOrError(r, from, to) ==
  \/ Move(r, from, to) /\ UNCHANGED bounds
  \/ Move(r, from, "error") /\ Fault

DeleteDangling(r) ==
  /\ MoveOrError(r, "delete", "insert")
  /\ DeleteRow(KeyOf[r], found[r])
  /\ found' = [found EXCEPT ![r] = NoRow]
  /\ UNCHANGED <<workerVars, cleanup>>

\* The foreign key of a completed job must still point to a row.
Insert(r) ==
  /\ MoveOrError(r, "insert", "answered")
  /\ found[r] = NoRow \/ HasRow(KeyOf[r], found[r])
  /\ status' = [status EXCEPT ![r] = IF found[r] = NoRow THEN "queued"
                                                         ELSE "completed"]
  /\ assetId' = [assetId EXCEPT ![r] = found[r]]
  /\ UNCHANGED <<stores, found, workerVars, cleanup>>

\* 500: the row to delete or to refer to is gone, or a store failed.
Error(r) ==
  /\ api[r] \in {"idle", "head", "delete", "insert"}
  /\ api' = [api EXCEPT ![r] = "error"]
  /\ UNCHANGED <<stores, jobs, found, workerVars, cleanup, bounds>>

Create(r) ==
  FindAsset(r) \/ Head(r) \/ DeleteDangling(r) \/ Insert(r) \/ Error(r)

-----------------------------------------------------------------------------
(* The worker: processJob, one action per await that matters.              *)

Goto(from, to) == worker = from /\ worker' = to

\* A call that takes effect and reports an error is followed by the catch.
GotoOrFail(from, to) ==
  \/ Goto(from, to) /\ UNCHANGED bounds
  \/ Goto(from, "fail") /\ Fault

Leave ==
  /\ worker' = "idle"
  /\ job' = NoJob
  /\ reuse' = NoRow

Claim(r) ==
  /\ worker = "idle"
  /\ status[r] = "queued"
  /\ status' = [status EXCEPT ![r] = "processing"]
  /\ worker' = "find" /\ job' = r
  /\ UNCHANGED <<stores, assetId, handlers, reuse, cleanup, bounds>>

FindReusableMutantNever ==
  /\ Goto("find", "extract")
  /\ UNCHANGED <<stores, jobs, handlers, job, reuse, cleanup, bounds>>

FindReusable ==
  LET id == FreshRow(KeyOf[job])
  IN  /\ Goto("find", IF id = NoRow THEN "extract" ELSE "head")
      /\ reuse' = id
      /\ UNCHANGED <<stores, jobs, handlers, job, cleanup, bounds>>

HeadReusable ==
  /\ Goto("head", IF object[KeyOf[job]] = "stored" THEN "complete" ELSE "delete")
  /\ UNCHANGED <<stores, jobs, handlers, job, reuse, cleanup, bounds>>

DeleteReusable ==
  /\ GotoOrFail("delete", "extract")
  /\ DeleteRow(KeyOf[job], reuse)
  /\ reuse' = NoRow
  /\ UNCHANGED <<handlers, job, cleanup>>

UploadMutantErrorIgnored ==
  /\ Goto("extract", "upsert")
  /\ UNCHANGED <<stores, jobs, handlers, job, reuse, cleanup, bounds>>

\* Preflight, title and yt-dlp end well; the file is then uploaded.
Upload ==
  /\ GotoOrFail("extract", "upsert")
  /\ object' = [object EXCEPT ![KeyOf[job]] = "stored"]
  /\ UNCHANGED <<row, fresh, lastRow, jobs, handlers, job, reuse, cleanup>>

\* upsert on the unique key: an existing row keeps its id and gets a new
\* expiresAt.
Upsert ==
  LET k == KeyOf[job]
      id == IF row[k] = NoRow THEN lastRow + 1 ELSE row[k]
  IN  /\ GotoOrFail("upsert", "complete")
      /\ row' = [row EXCEPT ![k] = id]
      /\ lastRow' = IF row[k] = NoRow THEN id ELSE lastRow
      /\ fresh' = fresh \cup {id}
      /\ reuse' = id
      /\ UNCHANGED <<object, jobs, handlers, job, cleanup>>

\* The update that ends the job; if it reports an error, the job is completed
\* and its worker in the catch.
MarkCompleted ==
  /\ worker = "complete"
  /\ HasRow(KeyOf[job], reuse)
  /\ status' = [status EXCEPT ![job] = "completed"]
  /\ assetId' = [assetId EXCEPT ![job] = reuse]
  /\ \/ Leave /\ UNCHANGED bounds
     \/ worker' = "fail" /\ UNCHANGED <<job, reuse>> /\ Fault
  /\ UNCHANGED <<stores, handlers, cleanup>>

MarkFailedMutantStatusKept ==
  /\ worker # "idle"
  /\ Leave
  /\ UNCHANGED <<stores, jobs, handlers, cleanup, bounds>>

\* Any step throws: a program or a store fails, or the row to delete or to
\* refer to is gone.  The columns of a completed job but its status stay.  An
\* update that rejects ends the process, as WorkerCrash does.
MarkFailed ==
  /\ worker # "idle"
  /\ status' = [status EXCEPT ![job] = "failed"]
  /\ Leave
  /\ UNCHANGED <<stores, assetId, handlers, cleanup, bounds>>

WorkerCrash ==
  /\ worker # "idle"
  /\ Fault
  /\ Leave
  /\ UNCHANGED <<stores, jobs, handlers, cleanup>>

\* restoreStuckJobs, after the timeout.
Restore(r) ==
  /\ worker = "idle"
  /\ status[r] = "processing"
  /\ status' = [status EXCEPT ![r] = "queued"]
  /\ UNCHANGED <<stores, assetId, handlers, workerVars, cleanup, bounds>>

Work ==
  \/ \E r \in Requests : Claim(r) \/ Restore(r)
  \/ FindReusable \/ HeadReusable \/ DeleteReusable
  \/ Upload \/ Upsert \/ MarkCompleted \/ MarkFailed

-----------------------------------------------------------------------------
(* AssetCleanupService.cleanupExpiredAssets.                               *)

StartPassMutantAnyRow ==
  LET rows == {k \in Keys : row[k] # NoRow}
  IN  /\ pass = "idle"
      /\ rows # {}
      /\ pass' = "object"
      /\ expired' = {<<k, row[k]>> : k \in rows}
      /\ UNCHANGED <<stores, jobs, handlers, workerVars, bounds>>

\* findMany: the pass works on this snapshot to its end.
StartPass ==
  LET stale == {k \in Keys : row[k] # NoRow /\ row[k] \notin fresh}
  IN  /\ pass = "idle"
      /\ stale # {}
      /\ pass' = "object"
      /\ expired' = {<<k, row[k]>> : k \in stale}
      /\ UNCHANGED <<stores, jobs, handlers, workerVars, bounds>>

\* On to the next row of the snapshot.
NextRow(e) ==
  /\ expired' = expired \ {e}
  /\ pass' = IF expired = {e} THEN "idle" ELSE "object"

DeleteObject(e) ==
  /\ pass = "object"
  /\ object' = [object EXCEPT ![e[1]] = "absent"]
  /\ pass' = "row"
  /\ expired' = expired
  /\ UNCHANGED <<row, fresh, lastRow, jobs, handlers, workerVars, bounds>>

DeleteExpiredRow(e) ==
  /\ pass = "row"
  /\ DeleteRow(e[1], e[2])
  /\ NextRow(e)
  /\ UNCHANGED <<handlers, workerVars, bounds>>

\* R2 or the database rejects: logged, and the pass goes on.
SkipRow(e) ==
  /\ pass \in {"object", "row"}
  /\ NextRow(e)
  /\ UNCHANGED <<stores, jobs, handlers, workerVars, bounds>>

PassCrash ==
  /\ pass # "idle"
  /\ Fault
  /\ pass' = "idle" /\ expired' = {}
  /\ UNCHANGED <<stores, jobs, handlers, workerVars>>

\* findMany has an order; which one does not matter.
Cleanup ==
  \/ StartPass
  \/ LET e == CHOOSE x \in expired : TRUE
     IN  /\ expired # {}
         /\ DeleteObject(e) \/ DeleteExpiredRow(e) \/ SkipRow(e)

-----------------------------------------------------------------------------
Next ==
  \/ \E r \in Requests : Create(r)
  \/ Work \/ WorkerCrash
  \/ Cleanup \/ PassCrash
  \/ \E k \in Keys : Expire(k) \/ LoseObject(k)

Spec == Init /\ [][Next]_vars

\* A handler that has started, the worker loop and a pass that has started
\* run on; nothing makes an asset expire or a user send a request.  Passes
\* are an hour apart and the worker polls every few seconds, so it gets its
\* turn between two of them.
Fairness ==
  /\ \A r \in Requests : WF_vars(api[r] # "idle" /\ Create(r))
  /\ WF_vars(Work)
  /\ SF_vars(\E r \in Requests : Claim(r))
  /\ WF_vars(pass # "idle" /\ Cleanup)

-----------------------------------------------------------------------------
(* Properties.                                                             *)

\* toResponse: what GET /downloads/:jobId shows.
DisplayStatus(r) ==
  IF status[r] = "completed" /\ (assetId[r] = NoRow \/ assetId[r] \notin fresh)
  THEN "expired" ELSE status[r]

\* A response with a downloadUrl leads to a file: behind a job shown as
\* completed the object is in the bucket, unless it was lost from outside.
ShownFileExists ==
  \A r \in Requests :
    DisplayStatus(r) = "completed" => object[KeyOf[r]] # "absent"

\* The worker never spends an extraction on a file it could reuse: while it
\* works on one, its key has no fresh row whose object it could serve.
ExtractsOnlyWhatIsMissing ==
  worker \in {"extract", "upsert"} => row[KeyOf[job]] \notin fresh

\* Every request that was taken is answered, and the job it creates ends, also
\* one whose insert was committed and answered with an error.
EveryRequestEnds ==
  \A r \in Requests :
    api[r] # "idle" ~>
      \/ api[r] = "error" /\ status[r] = "absent"
      \/ api[r] \in {"answered", "error"}
         /\ DisplayStatus(r) \in {"completed", "failed", "expired"}

=============================================================================

----------------------- MODULE DownloadPipelineProofs -----------------------
(***************************************************************************)
(* What the pipeline keeps, for any requests and keys.                     *)
(*                                                                         *)
(* Between the worker's look for a row and the end of its extraction,      *)
(* handlers and passes delete rows, but only the worker makes one fresh:   *)
(* so it never extracts what it could reuse.  And as long as no pass has   *)
(* run beside an extraction, what a pass has read is still expired when it *)
(* acts on it: so a job shown as completed has its file.                   *)
(***************************************************************************)
EXTENDS MCDownloadPipeline, FiniteSetTheorems, TLAPS

Places == {"idle", "find", "head", "delete", "extract", "upsert", "complete",
           "fail"}

\* Row ids are positive, so that no fresh id is taken for "no row".
RowsOK ==
  /\ lastRow \in Nat
  /\ row \in [Keys -> Nat]
  /\ fresh \subseteq Nat \ {NoRow}

WorkerOK ==
  /\ worker \in Places
  /\ worker # "idle" => job \in Requests

IInv == RowsOK /\ WorkerOK /\ ExtractsOnlyWhatIsMissing

-----------------------------------------------------------------------------
LEMMA InvInit == Init => IInv
<1> SUFFICES ASSUME Init PROVE IInv
  OBVIOUS
<1>1. lastRow \in Nat /\ 0..lastRow \subseteq Nat
  BY DEF Init
<1>2. RowsOK
  BY <1>1 DEF Init, RowsOK, NoRow
<1>3. WorkerOK /\ ExtractsOnlyWhatIsMissing
  BY DEF Init, WorkerOK, Places, ExtractsOnlyWhatIsMissing
<1>4. QED
  BY <1>2, <1>3 DEF IInv

\* A row that is deleted leaves its key without a fresh row.
LEMMA DeleteKeeps ==
  ASSUME RowsOK, NEW k \in Keys, NEW id, DeleteRow(k, id), NEW kk \in Keys
  PROVE  /\ RowsOK'
         /\ row[kk] \notin fresh => row'[kk] \notin fresh'
         /\ k = kk => row'[kk] \notin fresh'
<1>1. RowsOK'
  BY DEF DeleteRow, RowsOK, NoRow
<1>2. row' = [row EXCEPT ![k] = NoRow] /\ fresh' \subseteq fresh /\ NoRow \notin fresh
  BY DEF DeleteRow, RowsOK
<1>3. QED
  BY <1>1, <1>2 DEF RowsOK

\* Whoever else deletes a row makes no extraction superfluous.
LEMMA OthersDelete ==
  ASSUME IInv, NEW k \in Keys, NEW id, DeleteRow(k, id), UNCHANGED workerVars
  PROVE  IInv'
<1> USE PipelineAssumption DEF IInv
<1>1. UNCHANGED <<worker, job>>
  BY DEF workerVars
<1>2. RowsOK' /\ WorkerOK'
  BY <1>1, DeleteKeeps DEF WorkerOK
<1>3. ExtractsOnlyWhatIsMissing'
  <2> SUFFICES ASSUME worker \in {"extract", "upsert"}
               PROVE  row'[KeyOf[job]] \notin fresh'
    BY <1>1 DEF ExtractsOnlyWhatIsMissing
  <2>1. KeyOf[job] \in Keys
    BY DEF WorkerOK
  <2>2. QED
    BY <2>1, DeleteKeeps DEF ExtractsOnlyWhatIsMissing
<1>4. QED
  BY <1>2, <1>3

LEMMA InvStep == IInv /\ [Next]_vars => IInv'
<1> SUFFICES ASSUME IInv, [Next]_vars PROVE IInv'
  OBVIOUS
<1> USE PipelineAssumption
    DEF stores, jobs, handlers, workerVars, cleanup, bounds
<1>1. ASSUME UNCHANGED <<row, fresh, lastRow, worker, job>> PROVE IInv'
  BY <1>1 DEF IInv, RowsOK, WorkerOK, ExtractsOnlyWhatIsMissing
<1>2. ASSUME NEW r \in Requests, Create(r) PROVE IInv'
  <2>1. CASE DeleteDangling(r)
    BY <2>1, OthersDelete DEF DeleteDangling
  <2>2. CASE FindAsset(r) \/ Head(r) \/ Insert(r) \/ Error(r)
    BY <1>1, <2>2 DEF FindAsset, Head, Insert, Error
  <2>3. QED
    BY <1>2, <2>1, <2>2 DEF Create
<1>3. ASSUME NEW r \in Requests, Claim(r) \/ Restore(r) PROVE IInv'
  BY <1>3 DEF Claim, Restore, IInv, RowsOK, WorkerOK, Places,
              ExtractsOnlyWhatIsMissing
<1>4. CASE FindReusable
  <2>1. job \in Requests /\ UNCHANGED <<row, fresh, lastRow, job>>
    BY <1>4 DEF FindReusable, Goto, IInv, WorkerOK
  <2>2. worker' = "extract" => row[KeyOf[job]] \notin fresh
    BY <1>4 DEF FindReusable, FreshRow, Goto, IInv, RowsOK
  <2>3. worker' \in {"extract", "head"}
    BY <1>4 DEF FindReusable, Goto
  <2>4. QED
    BY <2>1, <2>2, <2>3 DEF IInv, RowsOK, WorkerOK, Places,
                            ExtractsOnlyWhatIsMissing
<1>5. CASE HeadReusable
  BY <1>5 DEF HeadReusable, Goto, IInv, RowsOK, WorkerOK, Places,
              ExtractsOnlyWhatIsMissing
<1>6. CASE DeleteReusable
  <2>1. /\ job \in Requests /\ job' = job /\ worker' \in {"extract", "fail"}
        /\ DeleteRow(KeyOf[job], reuse)
    BY <1>6 DEF DeleteReusable, GotoOrFail, Goto, IInv, WorkerOK
  <2>2. KeyOf[job] \in Keys
    BY <2>1
  <2>3. RowsOK' /\ row'[KeyOf[job]] \notin fresh'
    BY <2>1, <2>2, DeleteKeeps DEF IInv
  <2>4. QED
    BY <2>1, <2>3 DEF IInv, WorkerOK, Places, ExtractsOnlyWhatIsMissing
<1>7. CASE Upload
  BY <1>7 DEF Upload, GotoOrFail, Goto, IInv, RowsOK, WorkerOK, Places,
              ExtractsOnlyWhatIsMissing
<1>8. CASE Upsert
  <2> DEFINE k == KeyOf[job]
             id == IF row[k] = NoRow THEN lastRow + 1 ELSE row[k]
  <2>1. job \in Requests /\ job' = job /\ worker' \in {"complete", "fail"}
    BY <1>8 DEF Upsert, GotoOrFail, Goto, IInv, WorkerOK
  <2>2. k \in Keys
    BY <2>1
  <2>3. id \in Nat \ {NoRow}
    BY <2>2 DEF IInv, RowsOK, NoRow
  <2>4. /\ row' = [row EXCEPT ![k] = id] /\ fresh' = fresh \cup {id}
        /\ lastRow' \in {id, lastRow}
    BY <1>8 DEF Upsert
  <2>5. RowsOK'
    BY <2>3, <2>4 DEF IInv, RowsOK
  <2>6. QED
    BY <2>1, <2>5 DEF IInv, WorkerOK, Places, ExtractsOnlyWhatIsMissing
<1>9. CASE MarkCompleted \/ MarkFailed \/ WorkerCrash
  BY <1>9 DEF MarkCompleted, MarkFailed, WorkerCrash, Leave, IInv, RowsOK,
              WorkerOK, Places, ExtractsOnlyWhatIsMissing
<1>10. CASE Cleanup
  <2>1. CASE StartPass
    BY <1>1, <2>1 DEF StartPass
  <2>2. ASSUME NEW e, DeleteObject(e) \/ SkipRow(e) PROVE IInv'
    BY <1>1, <2>2 DEF DeleteObject, SkipRow
  <2>3. ASSUME NEW e, DeleteExpiredRow(e) PROVE IInv'
    <3>1. UNCHANGED workerVars /\ DeleteRow(e[1], e[2])
      BY <2>3 DEF DeleteExpiredRow
    <3>2. CASE e[1] \in Keys
      BY <3>1, <3>2, OthersDelete
    <3>3. CASE e[1] \notin Keys
      <4>1. row' = row /\ fresh' \subseteq fresh /\ UNCHANGED <<lastRow, worker, job>>
        BY <3>1, <3>3 DEF DeleteRow, IInv, RowsOK
      <4>2. QED
        BY <4>1 DEF IInv, RowsOK, WorkerOK, ExtractsOnlyWhatIsMissing
    <3>4. QED
      BY <3>2, <3>3
  <2>4. QED
    BY <1>10, <2>1, <2>2, <2>3 DEF Cleanup
<1>11. CASE PassCrash
  BY <1>1, <1>11 DEF PassCrash
<1>12. ASSUME NEW k \in Keys, Expire(k) \/ LoseObject(k) PROVE IInv'
  BY <1>12 DEF Expire, LoseObject, IInv, RowsOK, WorkerOK,
               ExtractsOnlyWhatIsMissing
<1>13. CASE UNCHANGED vars
  BY <1>1, <1>13 DEF vars
<1>14. QED
  BY <1>2, <1>3, <1>4, <1>5, <1>6, <1>7, <1>8, <1>9, <1>10, <1>11, <1>12, <1>13
     DEF Next, Work

\* While the worker extracts or uploads, the key of its job has no fresh row
\* that processJob could have reused, whatever handlers and passes do.
THEOREM NoWastedExtraction == Spec => []ExtractsOnlyWhatIsMissing
<1>1. IInv => ExtractsOnlyWhatIsMissing
  BY DEF IInv
<1>2. QED
  BY <1>1, InvInit, InvStep, PTL DEF Spec

-----------------------------------------------------------------------------
(* The jobs.                                                               *)

Statuses == {"absent", "queued", "processing", "completed", "failed"}

HandlerPlaces == {"idle", "head", "delete", "insert", "answered", "error"}

\* A job is born by the last step of its handler, is being processed as long
\* as a worker holds it (but for one whose completed update reported an error),
\* and refers to a row only when it has been completed.
JobsOK ==
  /\ status \in [Requests -> Statuses]
  /\ assetId \in [Requests -> Nat]
  /\ api \in [Requests -> HandlerPlaces]
  /\ \A r \in Requests : api[r] \notin {"answered", "error"} => status[r] = "absent"
  /\ \A r \in Requests :
       assetId[r] # NoRow => status[r] \in {"completed", "failed"}
  /\ worker # "idle" =>
       \/ status[job] = "processing"
       \/ status[job] = "completed" /\ worker = "fail"

LEMMA JobsInit == Init => JobsOK
  BY DEF Init, JobsOK, Statuses, HandlerPlaces, NoRow

SettledKeeps ==
  \A r \in Requests : status[r] \in {"completed", "failed"} =>
    \/ status'[r] = status[r]
    \/ /\ status[r] = "completed" /\ status'[r] = "failed"
       /\ worker = "fail" /\ job = r

\* Nobody but the handler of a request and the worker that holds its job
\* moves its status.
LEMMA JobsStep == IInv /\ JobsOK /\ [Next]_vars => JobsOK' /\ SettledKeeps
<1> SUFFICES ASSUME IInv, JobsOK, [Next]_vars PROVE JobsOK' /\ SettledKeeps
  OBVIOUS
<1> DEFINE Good == JobsOK' /\ SettledKeeps
<1> USE DEF stores, jobs, handlers, workerVars, cleanup, bounds, SettledKeeps
<1>1. ASSUME UNCHANGED <<status, api>>,
             assetId' = assetId \/ \E id : assetId' =
               [r \in Requests |-> IF assetId[r] = id THEN NoRow ELSE assetId[r]],
             \/ worker' = "idle"
             \/ /\ worker # "idle" /\ job' = job
                /\ worker = "fail" => worker' = "fail"
      PROVE  Good
  BY <1>1 DEF JobsOK, NoRow
<1>2. ASSUME UNCHANGED <<status, assetId, worker, job>>, NEW r \in Requests,
             NEW to \in HandlerPlaces \ {"answered"},
             api[r] \notin {"answered", "error"},
             api' = [api EXCEPT ![r] = to]
      PROVE  Good
  BY <1>2 DEF JobsOK
<1>3. ASSUME NEW r \in Requests, Create(r) PROVE Good
  <2>1. CASE FindAsset(r) \/ Head(r) \/ Error(r)
    BY <1>2, <2>1 DEF FindAsset, Head, Error, Move, HandlerPlaces
  <2>2. CASE DeleteDangling(r)
    BY <2>2 DEF DeleteDangling, DeleteRow, MoveOrError, Move, JobsOK,
                HandlerPlaces, NoRow
  <2>3. CASE Insert(r)
    <3>1. /\ api[r] = "insert" /\ status[r] = "absent" /\ assetId[r] = NoRow
          /\ found[r] = NoRow \/ HasRow(KeyOf[r], found[r])
      BY <2>3 DEF Insert, MoveOrError, Move, JobsOK
    <3>2. found[r] \in Nat
      BY <3>1, PipelineAssumption DEF IInv, RowsOK, HasRow, NoRow
    <3>3. worker # "idle" => job # r
      BY <3>1 DEF JobsOK
    <3>4. QED
      BY <2>3, <3>1, <3>2, <3>3 DEF Insert, MoveOrError, Move,
                                    JobsOK, Statuses, HandlerPlaces
  <2>4. QED
    BY <1>3, <2>1, <2>2, <2>3 DEF Create
<1>4. ASSUME NEW r \in Requests, Claim(r) \/ Restore(r) PROVE Good
  BY <1>4 DEF Claim, Restore, JobsOK, Statuses
<1>5. CASE FindReusable \/ HeadReusable \/ Upload \/ Upsert
  BY <1>1, <1>5 DEF FindReusable, HeadReusable, Upload, Upsert, GotoOrFail, Goto
<1>6. CASE DeleteReusable
  BY <1>1, <1>6 DEF DeleteReusable, DeleteRow, GotoOrFail, Goto
<1>7. CASE MarkCompleted \/ MarkFailed
  <2>1. /\ worker # "idle" /\ job \in Requests
        /\ \/ status[job] = "processing"
           \/ status[job] = "completed" /\ worker = "fail"
    BY <1>7 DEF MarkCompleted, MarkFailed, IInv, WorkerOK, JobsOK
  <2>2. api[job] \in {"answered", "error"}
    BY <2>1 DEF JobsOK
  <2>3. CASE MarkFailed
    BY <2>1, <2>2, <2>3 DEF MarkFailed, Leave, JobsOK, Statuses
  <2>4. CASE MarkCompleted
    <3>1. reuse \in Nat /\ status[job] = "processing"
      BY <2>1, <2>4, PipelineAssumption DEF MarkCompleted, HasRow, IInv, RowsOK
    <3>2. QED
      BY <2>1, <2>2, <2>4, <3>1 DEF MarkCompleted, Leave, JobsOK, Statuses
  <2>5. QED
    BY <1>7, <2>3, <2>4
<1>8. CASE WorkerCrash
  BY <1>1, <1>8 DEF WorkerCrash, Leave
<1>9. CASE StartPass \/ PassCrash \/ UNCHANGED vars
  BY <1>9 DEF StartPass, PassCrash, vars, JobsOK
<1>10. ASSUME NEW e, DeleteObject(e) \/ SkipRow(e) PROVE Good
  BY <1>10 DEF DeleteObject, SkipRow, JobsOK
<1>11. ASSUME NEW e, DeleteExpiredRow(e) PROVE Good
  BY <1>11 DEF DeleteExpiredRow, DeleteRow, JobsOK, NoRow
<1>12. ASSUME NEW k \in Keys, Expire(k) \/ LoseObject(k) PROVE Good
  BY <1>12 DEF Expire, LoseObject, JobsOK
<1>13. QED
  BY <1>3, <1>4, <1>5, <1>6, <1>7, <1>8, <1>9, <1>10, <1>11, <1>12
     DEF Next, Work, Cleanup

EndedJobsStay == [][SettledKeeps]_vars

\* A job that was answered from an older download, or that a worker has
\* ended, is never taken up again: no crash, restore, later request or cleanup
\* moves its status (what GET shows may still turn to "expired").  The one
\* step that does is that of the catch which follows when the completed update
\* of the job itself reported an error after it was committed.
THEOREM JobsEndOnce == Spec => EndedJobsStay
<1>1. Init => IInv /\ JobsOK
  BY InvInit, JobsInit
<1>2. IInv /\ JobsOK /\ [Next]_vars => IInv' /\ JobsOK' /\ [SettledKeeps]_vars
  BY InvStep, JobsStep
<1>3. QED
  BY <1>1, <1>2, PTL DEF Spec, EndedJobsStay

-----------------------------------------------------------------------------
(* Rows and references.                                                    *)

\* A row belongs to one key, and a job refers to the row of its own key, or
\* to none: the foreign key forgets rows that are deleted.
RefsOK ==
  /\ \A k, kk \in Keys : row[k] = row[kk] => row[k] = NoRow \/ k = kk
  /\ \A k \in Keys : row[k] <= lastRow
  /\ assetId \in [Requests -> Nat]
  /\ \A r \in Requests : assetId[r] # NoRow => row[KeyOf[r]] = assetId[r]

\* The pass holds rows of keys, and none when it is over.
SnapshotOK ==
  /\ expired \subseteq Keys \X Nat
  /\ pass = "idle" => expired = {}

LEMMA RefsInit == Init => RefsOK
<1> SUFFICES ASSUME Init PROVE RefsOK
  OBVIOUS
<1> USE PipelineAssumption DEF Init
<1>1. ASSUME NEW k \in Keys, NEW kk \in Keys, row[k] = row[kk], row[k] # NoRow
      PROVE  k = kk
  <2> DEFINE same == {q \in Keys : row[q] = row[k]}
  <2>1. row[k] \in 1..lastRow
    BY <1>1, InvInit DEF NoRow, IInv, RowsOK
  <2>2. Cardinality(same) = 1 /\ IsFiniteSet(same)
    BY <2>1, FS_Subset
  <2>3. PICK q : same = {q}
    BY <2>2, FS_Singleton
  <2>4. QED
    BY <1>1, <2>3
<1>2. \A k \in Keys : row[k] <= lastRow
  BY InvInit DEF IInv, RowsOK
<1>3. QED
  BY <1>1, <1>2 DEF RefsOK, NoRow

LEMMA RefsAfterDelete ==
  ASSUME IInv, RefsOK, NEW k \in Keys, NEW id, DeleteRow(k, id) PROVE RefsOK'
  BY PipelineAssumption DEF IInv, RowsOK, RefsOK, DeleteRow, HasRow, NoRow

LEMMA RefsStep == IInv /\ RefsOK /\ SnapshotOK /\ [Next]_vars => RefsOK'
<1> SUFFICES ASSUME IInv, RefsOK, SnapshotOK, [Next]_vars PROVE RefsOK'
  OBVIOUS
<1> USE PipelineAssumption DEF stores, jobs, handlers, workerVars, cleanup, bounds
<1>1. ASSUME UNCHANGED <<row, lastRow, assetId>> PROVE RefsOK'
  BY <1>1 DEF RefsOK
<1>2. ASSUME NEW r \in Requests, Create(r) PROVE RefsOK'
  <2>1. CASE DeleteDangling(r)
    BY <2>1, RefsAfterDelete DEF DeleteDangling
  <2>2. CASE Insert(r)
    BY <2>2 DEF Insert, HasRow, RefsOK, IInv, RowsOK, NoRow
  <2>3. CASE FindAsset(r) \/ Head(r) \/ Error(r)
    BY <1>1, <2>3 DEF FindAsset, Head, Error
  <2>4. QED
    BY <1>2, <2>1, <2>2, <2>3 DEF Create
<1>3. CASE DeleteReusable
  BY <1>3, RefsAfterDelete DEF DeleteReusable, GotoOrFail, Goto, IInv, WorkerOK
<1>4. CASE Upsert
  <2> DEFINE k == KeyOf[job]
             id == IF row[k] = NoRow THEN lastRow + 1 ELSE row[k]
  <2>1. k \in Keys
    BY <1>4 DEF Upsert, GotoOrFail, Goto, IInv, WorkerOK
  <2>2. row' = [row EXCEPT ![k] = id] /\ assetId' = assetId
        /\ lastRow' = IF row[k] = NoRow THEN id ELSE lastRow
    BY <1>4 DEF Upsert
  <2>3. CASE row[k] # NoRow
    <3>1. row' = row /\ lastRow' = lastRow
      BY <2>1, <2>2, <2>3 DEF IInv, RowsOK
    <3>2. QED
      BY <1>1, <2>2, <3>1
  <2>4. CASE row[k] = NoRow
    <3>1. row' = [row EXCEPT ![k] = lastRow + 1] /\ lastRow' = lastRow + 1
      BY <2>2, <2>4
    <3>2. \A q \in Keys : row[q] \in Nat /\ row[q] < lastRow + 1
      BY DEF IInv, RowsOK, RefsOK
    <3>3. \A r \in Requests : assetId[r] # NoRow => KeyOf[r] # k
      BY <2>4 DEF RefsOK
    <3>4. \A p, q \in Keys : row'[p] = row'[q] => row'[p] = NoRow \/ p = q
      BY <2>1, <3>1, <3>2 DEF RefsOK, IInv, RowsOK
    <3>5. \A q \in Keys : row'[q] <= lastRow'
      BY <2>1, <3>1, <3>2 DEF IInv, RowsOK
    <3>6. \A r \in Requests : assetId[r] # NoRow => row'[KeyOf[r]] = assetId[r]
      BY <3>1, <3>3 DEF RefsOK, IInv, RowsOK
    <3>7. QED
      BY <2>2, <3>4, <3>5, <3>6 DEF RefsOK
  <2>5. QED
    BY <2>3, <2>4
<1>5. CASE MarkCompleted
  <2>1. job \in Requests
    BY <1>5 DEF MarkCompleted, IInv, WorkerOK
  <2>2. QED
    BY <1>5, <2>1 DEF MarkCompleted, HasRow, RefsOK, IInv, RowsOK
<1>6. CASE \/ FindReusable \/ HeadReusable \/ Upload \/ MarkFailed \/ WorkerCrash
           \/ PassCrash \/ StartPass \/ UNCHANGED vars
  BY <1>1, <1>6 DEF FindReusable, HeadReusable, Upload, MarkFailed, WorkerCrash,
                    PassCrash, StartPass, vars
<1>7. ASSUME NEW r \in Requests, Claim(r) \/ Restore(r) PROVE RefsOK'
  BY <1>1, <1>7 DEF Claim, Restore
<1>8. ASSUME NEW k \in Keys, Expire(k) \/ LoseObject(k) PROVE RefsOK'
  BY <1>1, <1>8 DEF Expire, LoseObject
<1>9. ASSUME NEW e \in expired,
             DeleteObject(e) \/ DeleteExpiredRow(e) \/ SkipRow(e)
      PROVE  RefsOK'
  <2>1. e[1] \in Keys
    BY DEF SnapshotOK
  <2>2. CASE DeleteExpiredRow(e)
    BY <2>1, <2>2, RefsAfterDelete DEF DeleteExpiredRow
  <2>3. CASE DeleteObject(e) \/ SkipRow(e)
    BY <1>1, <2>3 DEF DeleteObject, SkipRow
  <2>4. QED
    BY <1>9, <2>2, <2>3
<1>10. QED
  BY <1>2, <1>3, <1>4, <1>5, <1>6, <1>7, <1>8, <1>9 DEF Next, Work, Cleanup


LEMMA SnapshotStep == IInv /\ SnapshotOK /\ [Next]_vars => SnapshotOK'
<1> SUFFICES ASSUME IInv, SnapshotOK, [Next]_vars PROVE SnapshotOK'
  OBVIOUS
<1> USE DEF stores, jobs, handlers, workerVars, cleanup, bounds, SnapshotOK
<1>1. CASE StartPass
  BY <1>1 DEF StartPass, IInv, RowsOK
<1>2. CASE PassCrash
  BY <1>2 DEF PassCrash
<1>3. ASSUME NEW e \in expired,
             DeleteObject(e) \/ DeleteExpiredRow(e) \/ SkipRow(e)
      PROVE  SnapshotOK'
  BY <1>3 DEF DeleteObject, DeleteExpiredRow, SkipRow, NextRow
<1>4. CASE Work \/ WorkerCrash \/ UNCHANGED vars
  BY <1>4 DEF Work, Claim, Restore, FindReusable, HeadReusable, DeleteReusable,
              Upload, Upsert, MarkCompleted, MarkFailed, WorkerCrash, vars
<1>5. ASSUME NEW r \in Requests, Create(r) PROVE SnapshotOK'
  BY <1>5 DEF Create, FindAsset, Head, DeleteDangling, Insert, Error
<1>6. ASSUME NEW k \in Keys, Expire(k) \/ LoseObject(k) PROVE SnapshotOK'
  BY <1>6 DEF Expire, LoseObject
<1>7. QED
  BY <1>1, <1>2, <1>3, <1>4, <1>5, <1>6 DEF Next, Cleanup

\* Jobs that refer to a file have been completed and refer to the one of their
\* own key: two that share a row asked for the same download, and none refers
\* to a row that is gone.
ServesOwnDownload ==
  \A r \in Requests :
    assetId[r] # NoRow =>
      /\ status[r] \in {"completed", "failed"}
      /\ row[KeyOf[r]] = assetId[r]
      /\ \A q \in Requests : assetId[q] = assetId[r] => KeyOf[q] = KeyOf[r]

\* However rows are deleted, made again and reused between the steps of a
\* handler or of the worker, no job is ever given the file of another key.
THEOREM OwnDownloadIsServed == Spec => []ServesOwnDownload
<1>1. Init => IInv /\ RefsOK /\ SnapshotOK /\ JobsOK
  BY InvInit, RefsInit, JobsInit DEF Init, SnapshotOK
<1>2. IInv /\ RefsOK /\ SnapshotOK /\ JobsOK /\ [Next]_vars
        => IInv' /\ RefsOK' /\ SnapshotOK' /\ JobsOK'
  BY InvStep, RefsStep, SnapshotStep, JobsStep
<1>3. RefsOK /\ JobsOK => ServesOwnDownload
  BY PipelineAssumption DEF RefsOK, JobsOK, ServesOwnDownload
<1>4. QED
  BY <1>1, <1>2, <1>3, PTL DEF Spec

-----------------------------------------------------------------------------
(* Passes and extractions that take turns.                                 *)

Turns == pass = "idle" \/ worker = "idle"

\* What a pass and the worker have read still holds when they act on it.
Apart ==
  /\ Turns
  /\ \A e \in expired : row[e[1]] \notin fresh
  /\ \A k \in Keys : row[k] \in fresh => object[k] # "absent"
  /\ worker = "upsert" => object[KeyOf[job]] # "absent"
  /\ worker = "delete" => object[KeyOf[job]] # "stored"
  /\ object \in [Keys -> {"absent", "stored", "lost"}]

LEMMA ApartAfterDelete ==
  ASSUME IInv, SnapshotOK, Apart, NEW k \in Keys, NEW id, DeleteRow(k, id),
         UNCHANGED workerVars, expired' \subseteq expired, Turns'
  PROVE  Apart'
<1>1. /\ row' = [row EXCEPT ![k] = NoRow] /\ fresh' \subseteq fresh
      /\ UNCHANGED <<object, worker, job>>
  BY DEF DeleteRow, workerVars
<1>2. NoRow \notin fresh
  BY DEF IInv, RowsOK
<1>3. \A e \in expired : e[1] \in Keys
  BY DEF SnapshotOK
<1>4. \A q \in Keys : row'[q] \in fresh' => row[q] \in fresh
  BY <1>1, <1>2 DEF IInv, RowsOK
<1>5. QED
  BY <1>1, <1>3, <1>4 DEF Apart

LEMMA ApartStep ==
  IInv /\ RefsOK /\ SnapshotOK /\ Apart /\ [Next]_vars /\ Turns' => Apart'
<1> SUFFICES ASSUME IInv, RefsOK, SnapshotOK, Apart, [Next]_vars, Turns'
             PROVE  Apart'
  OBVIOUS
<1> USE PipelineAssumption DEF stores, jobs, handlers, workerVars, cleanup, bounds
<1>1. ASSUME UNCHANGED <<row, fresh, object, worker, job>>, expired' \subseteq expired
      PROVE  Apart'
  BY <1>1 DEF Apart
<1>2. ASSUME NEW r \in Requests, Create(r) PROVE Apart'
  <2>1. CASE DeleteDangling(r)
    BY <2>1, ApartAfterDelete DEF DeleteDangling
  <2>2. CASE FindAsset(r) \/ Head(r) \/ Insert(r) \/ Error(r)
    BY <1>1, <2>2 DEF FindAsset, Head, Insert, Error
  <2>3. QED
    BY <1>2, <2>1, <2>2 DEF Create
<1>3. ASSUME NEW r \in Requests, Claim(r) \/ Restore(r) PROVE Apart'
  BY <1>3 DEF Claim, Restore, Apart
<1>4. CASE FindReusable \/ MarkCompleted \/ MarkFailed \/ WorkerCrash
  BY <1>4 DEF FindReusable, MarkCompleted, MarkFailed, WorkerCrash, Leave, Goto,
              Apart
<1>5. CASE HeadReusable
  BY <1>5 DEF HeadReusable, Goto, Apart
<1>6. CASE DeleteReusable
  <2>1. /\ job \in Requests /\ job' = job /\ worker' \in {"extract", "fail"}
        /\ DeleteRow(KeyOf[job], reuse) /\ expired' = expired
    BY <1>6 DEF DeleteReusable, GotoOrFail, Goto, IInv, WorkerOK
  <2>2. /\ row' = [row EXCEPT ![KeyOf[job]] = NoRow] /\ fresh' \subseteq fresh
        /\ object' = object /\ NoRow \notin fresh
    BY <2>1 DEF DeleteRow, IInv, RowsOK
  <2>3. \A q \in Keys : row'[q] \in fresh' => row[q] \in fresh
    BY <2>1, <2>2 DEF IInv, RowsOK
  <2>4. \A e \in expired : e[1] \in Keys
    BY DEF SnapshotOK
  <2>5. QED
    BY <2>1, <2>2, <2>3, <2>4 DEF Apart
<1>7. CASE Upload
  BY <1>7 DEF Upload, GotoOrFail, Goto, Apart, IInv, WorkerOK
<1>8. CASE Upsert
  <2> DEFINE k == KeyOf[job]
             id == IF row[k] = NoRow THEN lastRow + 1 ELSE row[k]
  <2>1. /\ worker = "upsert" /\ k \in Keys /\ worker' \in {"complete", "fail"}
        /\ object' = object /\ expired' = expired
        /\ row' = [row EXCEPT ![k] = id] /\ fresh' = fresh \cup {id}
    BY <1>8 DEF Upsert, GotoOrFail, Goto, IInv, WorkerOK
  <2>2. expired = {}
    BY <2>1 DEF Apart, Turns, SnapshotOK
  <2>3. \A q \in Keys : q # k => row[q] # id
    <3>1. CASE row[k] = NoRow
      <4>1. \A q \in Keys : row[q] \in Nat /\ row[q] <= lastRow
        BY DEF IInv, RowsOK, RefsOK
      <4>2. lastRow \in Nat /\ id = lastRow + 1
        BY <3>1 DEF IInv, RowsOK
      <4>3. QED
        BY <4>1, <4>2
    <3>2. CASE row[k] # NoRow
      BY <2>1, <3>2 DEF RefsOK
    <3>3. QED
      BY <3>1, <3>2
  <2>4. \A q \in Keys : row'[q] \in fresh' => q = k \/ row[q] \in fresh
    BY <2>1, <2>3 DEF IInv, RowsOK
  <2>5. \A q \in Keys : row'[q] \in fresh' => object'[q] # "absent"
    BY <2>1, <2>4 DEF Apart
  <2>6. QED
    BY <2>1, <2>2, <2>5 DEF Apart
<1>9. CASE StartPass
  <2>1. \A e \in expired' : row[e[1]] \notin fresh
    BY <1>9 DEF StartPass
  <2>2. QED
    BY <1>9, <2>1 DEF StartPass, Apart
<1>10. ASSUME NEW e \in expired, DeleteObject(e) PROVE Apart'
  <2>1. e[1] \in Keys /\ row[e[1]] \notin fresh /\ worker = "idle"
    BY <1>10 DEF SnapshotOK, Apart, Turns, DeleteObject
  <2>2. QED
    BY <1>10, <2>1 DEF DeleteObject, Apart
<1>11. ASSUME NEW e \in expired, DeleteExpiredRow(e) PROVE Apart'
  <2>1. e[1] \in Keys /\ expired' \subseteq expired
    BY <1>11 DEF SnapshotOK, DeleteExpiredRow, NextRow
  <2>2. QED
    BY <1>11, <2>1, ApartAfterDelete DEF DeleteExpiredRow
<1>12. ASSUME NEW e \in expired, SkipRow(e) PROVE Apart'
  BY <1>1, <1>12 DEF SkipRow, NextRow
<1>13. CASE PassCrash \/ UNCHANGED vars
  BY <1>1, <1>13 DEF PassCrash, vars
<1>14. ASSUME NEW k \in Keys, Expire(k) \/ LoseObject(k) PROVE Apart'
  <2>1. CASE Expire(k)
    <3>1. /\ fresh' \subseteq fresh
          /\ UNCHANGED <<row, object, worker, job, cleanup, expired>>
      BY <2>1 DEF Expire, workerVars, cleanup
    <3>2. Turns'
      BY <3>1 DEF Apart, Turns, cleanup
    <3>3. QED
      BY <3>1, <3>2 DEF Apart
  <2>2. CASE LoseObject(k)
    <3>1. /\ object' = [object EXCEPT ![k] = "lost"]
          /\ UNCHANGED <<row, fresh, worker, job, cleanup, expired>>
      BY <2>2 DEF LoseObject, workerVars, cleanup
    <3>2. Turns'
      BY <3>1 DEF Apart, Turns, cleanup
    <3>3. \A q \in Keys : object'[q] = IF q = k THEN "lost" ELSE object[q]
      BY <3>1 DEF Apart
    <3>4. worker \in {"upsert", "delete"} => KeyOf[job] \in Keys
      BY DEF IInv, WorkerOK
    <3>5. /\ worker' = "upsert" => object'[KeyOf[job']] # "absent"
          /\ worker' = "delete" => object'[KeyOf[job']] # "stored"
      BY <3>1, <3>3, <3>4 DEF Apart
    <3>6. object' \in [Keys -> {"absent", "stored", "lost"}]
      BY <3>1 DEF Apart
    <3>7. QED
      BY <3>1, <3>2, <3>3, <3>5, <3>6 DEF Apart
  <2>3. QED
    BY <1>14, <2>1, <2>2
<1>15. QED
  BY <1>2, <1>3, <1>4, <1>5, <1>6, <1>7, <1>8, <1>9, <1>10, <1>11, <1>12, <1>13,
     <1>14 DEF Next, Work, Cleanup

-----------------------------------------------------------------------------
(* The invariant with its history.                                         *)

HInv == IInv /\ JobsOK /\ RefsOK /\ SnapshotOK /\ (~overlapped => Apart)

LEMMA HInvInit == MCInit => HInv
<1> SUFFICES ASSUME MCInit PROVE HInv
  OBVIOUS
<1>1. IInv /\ RefsOK /\ JobsOK
  BY InvInit, RefsInit, JobsInit DEF MCInit
<1>2. Apart /\ SnapshotOK
  <2>1. NoRow \notin fresh
    BY <1>1 DEF IInv, RowsOK
  <2>2. QED
    BY <2>1 DEF MCInit, Init, Apart, Turns, SnapshotOK
<1>3. QED
  BY <1>1, <1>2 DEF HInv

LEMMA HInvStep == HInv /\ [MCNext]_<<vars, overlapped>> => HInv'
<1> SUFFICES ASSUME HInv, [MCNext]_<<vars, overlapped>> PROVE HInv'
  OBVIOUS
<1>1. [Next]_vars
  BY DEF MCNext
<1>2. IInv' /\ JobsOK' /\ RefsOK' /\ SnapshotOK'
  BY <1>1, InvStep, JobsStep, RefsStep, SnapshotStep DEF HInv
<1>3. ASSUME ~overlapped' PROVE Apart'
  <2>1. ~overlapped
    BY <1>3 DEF MCNext
  <2>2. Apart
    BY <2>1 DEF HInv
  <2>3. CASE MCNext
    <3>1. Turns'
      BY <1>3, <2>3 DEF MCNext, Turns
    <3>2. QED
      BY <1>1, <2>2, <3>1, ApartStep DEF HInv
  <2>4. CASE UNCHANGED vars
    <3>1. Turns'
      BY <2>2, <2>4 DEF vars, workerVars, cleanup, Apart, Turns
    <3>2. QED
      BY <1>1, <2>2, <3>1, ApartStep DEF HInv
  <2>5. QED
    BY <2>3, <2>4
<1>4. QED
  BY <1>2, <1>3 DEF HInv

\* A job that is shown as completed has its file, as long as no pass has run
\* beside an extraction, whatever handlers, crashes and expiries do.
THEOREM CompletedHasItsFile == MCSpec => []ShownFileExistsApart
<1>1. HInv => ShownFileExistsApart
  <2> SUFFICES ASSUME HInv, ~overlapped, NEW r \in Requests,
                      DisplayStatus(r) = "completed"
               PROVE  object[KeyOf[r]] # "absent"
    BY DEF ShownFileExistsApart, ShownFileExists
  <2>1. assetId[r] # NoRow /\ assetId[r] \in fresh
    BY DEF DisplayStatus
  <2>2. row[KeyOf[r]] \in fresh /\ KeyOf[r] \in Keys
    BY <2>1, PipelineAssumption DEF HInv, RefsOK
  <2>3. QED
    BY <2>2 DEF HInv, Apart
<1>2. QED
  BY <1>1, HInvInit, HInvStep, PTL DEF MCSpec

\* A fresh asset is taken away by a handler that found its object missing and
\* by nobody else, as long as no pass has run beside an extraction.
THEOREM FreshAssetIsKept == MCSpec => FreshAssetKept
<1> DEFINE Kept(k) == \/ object'[k] \in {"stored", "lost"} /\ row'[k] = row[k]
                      \/ \E r \in Requests :
                           /\ api[r] = "delete" /\ api'[r] # "delete"
                           /\ found[r] = row[k] /\ object'[k] = object[k]
<1>1. ASSUME HInv, [MCNext]_<<vars, overlapped>>, ~overlapped', NEW k \in Keys,
             row[k] \in fresh, object[k] = "stored"
      PROVE  Kept(k)
  <2> USE PipelineAssumption
      DEF stores, jobs, handlers, workerVars, cleanup, bounds
  <2>1. [Next]_vars /\ Apart /\ IInv /\ JobsOK /\ SnapshotOK
    BY <1>1 DEF MCNext, HInv
  <2>2. object \in [Keys -> {"absent", "stored", "lost"}] /\ row \in [Keys -> Nat]
    BY <2>1 DEF Apart, IInv, RowsOK
  <2>3. ASSUME UNCHANGED <<row, object>> PROVE Kept(k)
    BY <1>1, <2>3
  <2>4. ASSUME NEW r \in Requests, Create(r) PROVE Kept(k)
    <3>1. CASE DeleteDangling(r) /\ KeyOf[r] = k
      <4>1. /\ api[r] = "delete" /\ api'[r] # "delete"
            /\ found[r] = row[k] /\ object' = object
        BY <2>1, <3>1 DEF DeleteDangling, MoveOrError, Move, DeleteRow, HasRow,
                          JobsOK, HandlerPlaces
      <4>2. QED
        BY <4>1
    <3>2. CASE DeleteDangling(r) /\ KeyOf[r] # k
      BY <1>1, <2>2, <3>2 DEF DeleteDangling, DeleteRow
    <3>3. CASE FindAsset(r) \/ Head(r) \/ Insert(r) \/ Error(r)
      BY <2>3, <3>3 DEF FindAsset, Head, Insert, Error
    <3>4. QED
      BY <2>4, <3>1, <3>2, <3>3 DEF Create
  <2>5. CASE DeleteReusable
    <3>1. worker = "delete" /\ DeleteRow(KeyOf[job], reuse)
      BY <2>5 DEF DeleteReusable, GotoOrFail, Goto
    <3>2. KeyOf[job] # k
      BY <1>1, <2>1, <3>1 DEF Apart
    <3>3. QED
      BY <1>1, <2>2, <3>1, <3>2 DEF DeleteRow
  <2>6. CASE Upload
    BY <1>1, <2>2, <2>6 DEF Upload
  <2>7. CASE Upsert
    <3>1. row[k] # NoRow
      BY <1>1, <2>1 DEF IInv, RowsOK
    <3>2. row'[k] = row[k] /\ object' = object
      BY <2>2, <2>7, <3>1 DEF Upsert
    <3>3. QED
      BY <1>1, <3>2
  <2>8. ASSUME NEW e \in expired, DeleteObject(e) \/ DeleteExpiredRow(e) PROVE Kept(k)
    <3>1. e[1] \in Keys /\ e[1] # k
      BY <1>1, <2>1, <2>8 DEF SnapshotOK, Apart
    <3>2. QED
      BY <1>1, <2>2, <2>8, <3>1 DEF DeleteObject, DeleteExpiredRow, DeleteRow
  <2>9. ASSUME NEW q \in Keys, LoseObject(q) PROVE Kept(k)
    BY <1>1, <2>2, <2>9 DEF LoseObject
  <2>10. ASSUME NEW q \in Keys, Expire(q) PROVE Kept(k)
    BY <2>3, <2>10 DEF Expire
  <2>11. ASSUME NEW r \in Requests, Claim(r) \/ Restore(r) PROVE Kept(k)
    BY <2>3, <2>11 DEF Claim, Restore
  <2>12. CASE \/ FindReusable \/ HeadReusable \/ MarkCompleted \/ MarkFailed
              \/ WorkerCrash \/ PassCrash \/ StartPass \/ UNCHANGED vars
    BY <2>3, <2>12 DEF FindReusable, HeadReusable, MarkCompleted, MarkFailed,
                       WorkerCrash, PassCrash, StartPass, vars
  <2>13. ASSUME NEW e \in expired, SkipRow(e) PROVE Kept(k)
    BY <2>3, <2>13 DEF SkipRow
  <2>14. QED
    BY <2>1, <2>4, <2>5, <2>6, <2>7, <2>8, <2>9, <2>10, <2>11, <2>12, <2>13
       DEF Next, Work, Cleanup
<1>2. HInv /\ [MCNext]_<<vars, overlapped>> =>
        \A k \in Keys :
          ~overlapped' /\ row[k] \in fresh /\ object[k] = "stored" => Kept(k)
  BY <1>1
<1>3. QED
  BY <1>2, HInvInit, HInvStep, PTL DEF MCSpec, FreshAssetKept

=============================================================================

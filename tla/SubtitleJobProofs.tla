-------------------------- MODULE SubtitleJobProofs --------------------------
(***************************************************************************)
(* The source, the result and the work directory of a subtitle job, for    *)
(* any number of parts and of faults.                                      *)
(*                                                                         *)
(* Three facts carry the argument.  The lanes hold every part between      *)
(* them (LanesOK); nobody but the pass, which waits for the expiry, and    *)
(* the compensation of the handler that inserted the row touch the source  *)
(* once there is a row (SourceOK); and a completed row is met by no stage  *)
(* of the worker that writes another status, but for its catch (WorkOK).   *)
(* What each stage knows of the status besides (StageOK) makes every step  *)
(* one of JobLifecycle; and no abort is sent for a session that complete   *)
(* was sent for (AbortOK).                                                 *)
(***************************************************************************)
EXTENDS SubtitleJob, FiniteSetTheorems, TLAPS

\* Handlers that have not come to the insert.
Early == {"none", "put", "verify", "assemble", "check", "insert"}

Handlers == Early \cup {"undo", "created", "rejected", "leaked", "unknown"}

LanesOK ==
  /\ handler \in Handlers
  /\ next \in Nat \ {0} /\ next <= PartCount + 1
  /\ putting \subseteq Parts /\ uploaded \subseteq Parts
  /\ client \in {"idle", "creating"} =>
       putting = {} /\ uploaded = {} /\ handler = "none"
  /\ client = "idle" => session = "none"
  /\ client = "uploading" =>
       /\ handler = "none" /\ uploaded \cup putting = 1..(next - 1)
       /\ putting = {} => next = PartCount + 1
  /\ CompleteHasAllParts

SourceOK ==
  /\ row \in BOOLEAN /\ rowExpired \in BOOLEAN
  /\ row <=> status # "absent"
  /\ rowExpired \/ stage \notin {"idle", "down"} => row
  /\ pass # "idle" => rowExpired
  /\ handler \in Early => ~row
  /\ handler = "created" => row
  /\ handler \in {"none", "put", "verify", "assemble", "rejected"} => object = {}
  /\ handler = "insert" => object = Parts
  /\ row /\ ~rowExpired /\ handler \notin {"rejected", "leaked"} => object = Parts
  /\ pass \in {"result", "row"} \/ status = "removed" => object = {}

WorkOK ==
  /\ status = "completed" =>
       stage \in {"remove_dir", "remove_dir_exit", "idle", "down", "fail"}
  /\ (status = "completed" \/ stage = "complete") /\ ~rowExpired => result
  /\ stage # "down" => dirs = IF stage = "idle" THEN 0 ELSE 1
  /\ faults \in Nat

IInv == LanesOK /\ SourceOK /\ WorkOK

-----------------------------------------------------------------------------
(* The lanes.                                                              *)

LEMMA PartsFacts == PartCount \in Nat \ {0} /\ Parts # {}
  BY UploadAssumption DEF Parts

\* What the handlers do beside the lanes.
LEMMA HandlersKeepLanes ==
  ASSUME LanesOK, UNCHANGED clientVars, handler # "none", handler' \in Handlers,
         handler' # "none", session' = session \/ session # "none"
  PROVE  LanesOK'
<1>1. client \notin {"idle", "creating", "uploading"}
  BY DEF LanesOK
<1>2. QED
  BY <1>1 DEF LanesOK, clientVars, CompleteHasAllParts

\* The lane that is free takes the next part, if there is one.
LEMMA TakesNext ==
  ASSUME LanesOK, NEW p \in Parts, PutOk(p)
  PROVE  LanesOK'
<1> USE PartsFacts
<1>1. /\ p \in putting /\ session = "open"
      /\ uploaded' = uploaded \cup {p}
      /\ UNCHANGED <<client, session, handler>>
      /\ client \notin {"idle", "creating"} /\ handler = "none"
  BY DEF PutOk, LanesOK, apiVars, CompleteHasAllParts
<1>2. CASE next \in Parts
  <2>1. {next} \cap Parts = {next} /\ Cardinality({next}) = 1
    BY <1>2, FS_Singleton
  <2>2. Cardinality({next} \cap Parts) = 1
    BY <2>1, Zenon
  <2>3. putting' = (putting \ {p}) \cup {next} /\ next' = next + 1
    BY <2>1, <2>2 DEF PutOk
  <2>4. client = "uploading" => uploaded' \cup putting' = 1..next
    <3>1. client = "uploading" =>
            uploaded' \cup putting' = (uploaded \cup putting) \cup {next}
      BY <1>1, <2>3
    <3>2. (1..(next - 1)) \cup {next} = 1..next
      BY DEF LanesOK
    <3>3. QED
      BY <3>1, <3>2 DEF LanesOK
  <2>5. next' \in Nat \ {0} /\ next' <= PartCount + 1 /\ next' - 1 = next
    BY <1>2, <2>3 DEF LanesOK, Parts
  <2>6. QED
    BY <1>1, <1>2, <2>3, <2>4, <2>5 DEF LanesOK, CompleteHasAllParts
<1>3. CASE next \notin Parts
  <2>1. {next} \cap Parts = {} /\ Cardinality({}) = 0
    BY <1>3, FS_EmptySet
  <2>2. Cardinality({next} \cap Parts) = 0
    BY <2>1, Zenon
  <2>3. next = PartCount + 1
    BY <1>3 DEF LanesOK, Parts
  <2>4. putting' = putting \ {p} /\ next' = next
    BY <2>1, <2>2, <2>3 DEF PutOk
  <2>5. client = "uploading" => uploaded' \cup putting' = uploaded \cup putting
    BY <1>1, <2>4
  <2>6. QED
    BY <1>1, <2>3, <2>4, <2>5 DEF LanesOK, CompleteHasAllParts
<1>4. QED
  BY <1>2, <1>3

LEMMA LanesStep == LanesOK /\ Next => LanesOK'
<1> SUFFICES ASSUME LanesOK, Next PROVE LanesOK'
  OBVIOUS
<1> USE PartsFacts DEF clientVars, r2Vars, apiVars
<1>1. CASE Submit \/ Post \/ CreateUpload \/ CreateFails
  BY <1>1 DEF Submit, Post, CreateUpload, CreateFails, LanesOK, Handlers, Early,
              CompleteHasAllParts
<1>2. CASE StartLanes
  <2>1. Concurrency \in Nat \ {0} /\ Concurrency <= PartCount
    BY DEF Concurrency
  <2>2. /\ putting' = 1..Concurrency /\ next' = Concurrency + 1
        /\ uploaded' = {} /\ client' = "uploading" /\ handler' = "none"
        /\ session' = session
    BY <1>2 DEF StartLanes, LanesOK
  <2>3. putting' \subseteq Parts /\ putting' # {} /\ next' - 1 = Concurrency
    BY <2>1, <2>2 DEF Parts
  <2>4. next' \in Nat \ {0} /\ next' <= PartCount + 1
    BY <2>1, <2>2
  <2>5. uploaded' \cup putting' = 1..(next' - 1)
    BY <2>2, <2>3
  <2>6. QED
    BY <2>2, <2>3, <2>4, <2>5 DEF LanesOK, Handlers, Early, CompleteHasAllParts
<1>3. ASSUME NEW p \in Parts, PutOk(p) PROVE LanesOK'
  BY <1>3, TakesNext
<1>4. ASSUME NEW p \in Parts, PutFails(p) PROVE LanesOK'
  BY <1>4 DEF PutFails, LanesOK, CompleteHasAllParts
<1>5. CASE SendComplete
  <2>1. 1..(next - 1) = Parts
    BY <1>5 DEF SendComplete, LanesOK, Parts
  <2>2. uploaded = Parts /\ putting = {}
    BY <1>5, <2>1 DEF SendComplete, LanesOK
  <2>3. QED
    BY <1>5, <2>2 DEF SendComplete, LanesOK, Handlers, Early, CompleteHasAllParts
<1>6. CASE CompleteAnswered \/ CompleteFails \/ Cancel
  BY <1>6 DEF CompleteAnswered, CompleteFails, Cancel, LanesOK,
              CompleteHasAllParts
<1>7. CASE Expire \/ AbortUpload \/ AbortLost
  BY <1>7 DEF Expire, AbortUpload, AbortLost, LanesOK, CompleteHasAllParts
<1>8. CASE HandlerNext \/ ApiCrash
  BY <1>8, HandlersKeepLanes
     DEF HandlerNext, Put, Verify, Assemble, AssembleFails, Check, Insert, Undo,
         ApiCrash, Goto, Handlers, Early
<1>9. QED
  BY <1>1, <1>2, <1>3, <1>4, <1>5, <1>6, <1>7, <1>8 DEF Next, ClientNext

-----------------------------------------------------------------------------
(* The source.                                                             *)

\* The steps of the upload that see or change the source.
LEMMA SourceUploadStep ==
  ASSUME LanesOK, SourceOK, Upload(Next) PROVE SourceOK'
<1> USE PartsFacts
    DEF clientVars, r2Vars, apiVars, passVars, workerVars, Early
<1>1. /\ Next /\ UNCHANGED <<rowExpired, pass, stage>>
      /\ status' = IF row' /\ ~row THEN "queued" ELSE status
  BY DEF Upload
<1>2. ASSUME UNCHANGED <<object, row>>,
             \/ handler' = handler
             \/ handler \in Early /\ handler' \in {"verify", "unknown"}
                /\ (handler' = "verify" => object = {})
             \/ handler = "undo" /\ handler' = "unknown"
      PROVE  SourceOK'
  BY <1>1, <1>2 DEF SourceOK
<1>3. CASE Submit \/ CreateUpload \/ ClientNext \/ Cancel \/ Expire
           \/ AbortUpload \/ AbortLost
  <2>1. UNCHANGED <<object, row>>
        /\ (handler' = handler \/ (handler' = "verify" /\ SendComplete))
    BY <1>3 DEF Submit, CreateUpload, ClientNext, StartLanes, CreateFails, PutOk,
                PutFails, SendComplete, CompleteAnswered, CompleteFails, Cancel,
                Expire, AbortUpload, AbortLost
  <2>2. SendComplete => handler = "none" /\ object = {}
    BY DEF SendComplete, LanesOK, SourceOK
  <2>3. QED
    BY <1>2, <2>1, <2>2
<1>4. CASE Post
  <2>1. handler = "none" /\ handler' = "put" /\ UNCHANGED <<object, row>>
    BY <1>4 DEF Post, LanesOK
  <2>2. QED
    BY <1>1, <2>1 DEF SourceOK
<1>5. CASE Put
  BY <1>1, <1>5 DEF Put, Goto, SourceOK
<1>6. CASE Verify
  BY <1>1, <1>6 DEF Verify, Goto, SourceOK
<1>7. CASE Assemble
  BY <1>1, <1>7 DEF Assemble, Goto, SourceOK
<1>8. CASE AssembleFails
  BY <1>1, <1>8 DEF AssembleFails, Goto, SourceOK
<1>9. CASE Check
  BY <1>1, <1>9 DEF Check, Goto, SourceOK
<1>10. CASE Insert
  BY <1>1, <1>10 DEF Insert, Goto, SourceOK
<1>11. CASE Undo
  BY <1>1, <1>11 DEF Undo, Goto, SourceOK
<1>12. CASE ApiCrash
  BY <1>1, <1>12 DEF ApiCrash, SourceOK
<1>13. QED
  BY <1>1, <1>3, <1>4, <1>5, <1>6, <1>7, <1>8, <1>9, <1>10, <1>11, <1>12
     DEF Next, HandlerNext

\* What the worker and the failures of the pass leave alone.
Aside == UNCHANGED <<vars, rowExpired>>

LEMMA WorkerAside ==
  ASSUME SourceOK, Work \/ WorkerCrash \/ PassFails
  PROVE  /\ Aside
         /\ pass' = pass \/ pass' = "idle"
         /\ status' = status \/ (status # "removed" /\ status' # "removed")
         /\ status' = status \/ (status # "absent" /\ status' # "absent")
         /\ stage' \in {"idle", "down"} \/ status # "absent"
<1>0. stage \notin {"idle", "down"} => status # "absent"
  BY DEF SourceOK
<1> USE <1>0 DEF Aside, Goes, rowVars, workerVars, passVars, UpdateOk, UpdateRejects, Write
<1>1. CASE WorkerCrash \/ PassFails
  BY <1>1 DEF WorkerCrash, PassFails
<1>2. CASE StartWorker \/ Restore \/ Claim
  BY <1>2 DEF StartWorker, Restore, Claim, InProgress
<1>3. CASE Download \/ ExtractAudio \/ Transcribe \/ UploadResult \/ RemoveDir
  BY <1>3 DEF Download, ExtractAudio, Transcribe, UploadResult, RemoveDir
<1>4. CASE BlameSource \/ BlameUpload \/ Fail
  BY <1>4 DEF BlameSource, BlameUpload, Fail
<1>5. CASE MarkTranscribing \/ Complete
  BY <1>5 DEF MarkTranscribing, Complete
<1>6. QED
  BY <1>1, <1>2, <1>3, <1>4, <1>5 DEF Work


LEMMA SourceStep == LanesOK /\ SourceOK /\ [JobNext]_allVars => SourceOK'
<1> SUFFICES ASSUME LanesOK, SourceOK, [JobNext]_allVars PROVE SourceOK'
  OBVIOUS
<1> USE PartsFacts
    DEF vars, jobVars, clientVars, r2Vars, apiVars, rowVars, workerVars, passVars
<1>1. CASE Upload(Next)
  BY <1>1, SourceUploadStep
<1>2. CASE Work \/ WorkerCrash \/ PassFails
  <2>1. UNCHANGED <<row, object, handler, rowExpired>>
    BY <1>2, WorkerAside DEF Aside
  <2>2. QED
    BY <1>2, <2>1, WorkerAside DEF SourceOK
<1>3. CASE ExpireRow
  BY <1>3 DEF ExpireRow, SourceOK
<1>4. CASE StartPass
  BY <1>4 DEF StartPass, PassTo, SourceOK
<1>5. CASE DeleteSource
  BY <1>5 DEF DeleteSource, PassTo, SourceOK, Early
<1>6. CASE DeleteResult
  BY <1>6 DEF DeleteResult, PassTo, SourceOK
<1>7. CASE DeleteRow
  BY <1>7 DEF DeleteRow, PassTo, SourceOK
<1>8. CASE UNCHANGED allVars
  BY <1>8 DEF allVars, SourceOK
<1>9. QED
  BY <1>1, <1>2, <1>3, <1>4, <1>5, <1>6, <1>7, <1>8 DEF JobNext, Cleanup

-----------------------------------------------------------------------------
(* The worker.                                                             *)

LEMMA WorkStep == SourceOK /\ WorkOK /\ [JobNext]_allVars => WorkOK'
<1> SUFFICES ASSUME SourceOK, WorkOK, [JobNext]_allVars PROVE WorkOK'
  OBVIOUS
<1> USE DEF WorkOK, Fault, Goes, UpdateOk, UpdateRejects, Write, rowVars,
            workerVars, passVars
<1>1. CASE Upload(Next)
  <2>1. status' = status \/ (status = "absent" /\ status' = "queued")
    BY <1>1 DEF Upload, SourceOK
  <2>2. status = "absent" => stage \in {"idle", "down"}
    BY DEF SourceOK
  <2>3. QED
    BY <1>1, <2>1, <2>2 DEF Upload
<1>2. CASE ExpireRow
  BY <1>2 DEF ExpireRow, SourceOK
<1>3. CASE Claim
  BY <1>3 DEF Claim
<1>4. CASE Download \/ ExtractAudio \/ Transcribe
  BY <1>4 DEF Download, ExtractAudio, Transcribe
<1>5. CASE BlameSource
  BY <1>5 DEF BlameSource
<1>6. CASE MarkTranscribing
  BY <1>6 DEF MarkTranscribing
<1>7. CASE UploadResult
  BY <1>7 DEF UploadResult
<1>8. CASE BlameUpload
  BY <1>8 DEF BlameUpload
<1>9. CASE Complete
  BY <1>9 DEF Complete
<1>10. CASE Fail
  BY <1>10 DEF Fail
<1>11. CASE RemoveDir
  BY <1>11 DEF RemoveDir
<1>12. CASE WorkerCrash \/ StartWorker
  BY <1>12 DEF WorkerCrash, StartWorker
<1>13. CASE Restore
  BY <1>13 DEF Restore, InProgress
<1>14. CASE StartPass \/ DeleteSource
  BY <1>14 DEF StartPass, DeleteSource
<1>15. CASE DeleteResult
  BY <1>15 DEF DeleteResult, PassTo, SourceOK
<1>16. CASE DeleteRow
  BY <1>16 DEF DeleteRow
<1>17. CASE PassFails
  BY <1>17 DEF PassFails
<1>18. CASE UNCHANGED allVars
  BY <1>18 DEF allVars, jobVars
<1>19. QED
  BY <1>1, <1>2, <1>3, <1>4, <1>5, <1>6, <1>7, <1>8, <1>9, <1>10, <1>11, <1>12,
     <1>13, <1>14, <1>15, <1>16, <1>17, <1>18 DEF JobNext, Work, Cleanup

-----------------------------------------------------------------------------
(* The invariant and what it gives.                                        *)

LEMMA Invariant == JobSpec => []IInv
<1>1. JobInit => IInv
  <2> SUFFICES ASSUME JobInit PROVE IInv
    OBVIOUS
  <2> USE PartsFacts DEF JobInit, Init
  <2>1. LanesOK
    BY DEF LanesOK, Handlers, Early, CompleteHasAllParts
  <2>2. SourceOK
    BY DEF SourceOK, Early
  <2>3. WorkOK
    BY DEF WorkOK
  <2>4. QED
    BY <2>1, <2>2, <2>3 DEF IInv
<1>2. IInv /\ [JobNext]_allVars => IInv'
  <2> SUFFICES ASSUME IInv, [JobNext]_allVars PROVE IInv'
    OBVIOUS
  <2>1. Upload(Next) \/ UNCHANGED <<clientVars, session, handler>>
    <3>1. CASE Work \/ WorkerCrash \/ PassFails
      BY <3>1, WorkerAside DEF IInv, Aside, vars, r2Vars, apiVars
    <3>2. CASE ExpireRow \/ StartPass \/ DeleteResult \/ DeleteRow
      BY <3>2 DEF ExpireRow, StartPass, DeleteResult, DeleteRow, vars, r2Vars,
                  apiVars
    <3>3. CASE DeleteSource
      BY <3>3 DEF DeleteSource, apiVars
    <3>4. CASE UNCHANGED allVars
      BY <3>4 DEF allVars, vars, r2Vars, apiVars
    <3>5. QED
      BY <3>1, <3>2, <3>3, <3>4 DEF JobNext, Cleanup
  <2>2. LanesOK'
    <3>1. CASE Upload(Next)
      BY <3>1, LanesStep DEF Upload, IInv
    <3>2. CASE UNCHANGED <<clientVars, session, handler>>
      BY <3>2 DEF IInv, LanesOK, CompleteHasAllParts, clientVars
    <3>3. QED
      BY <2>1, <3>1, <3>2
  <2>3. QED
    BY <2>2, SourceStep, WorkStep DEF IInv
<1>3. QED
  BY <1>1, <1>2, PTL DEF JobSpec

\* complete is asked for with every part uploaded and no PUT left, whichever
\* lanes fail, end late or are dropped.
THEOREM AllPartsAreThere == JobSpec => []CompleteHasAllParts
<1>1. IInv => CompleteHasAllParts
  BY DEF IInv, LanesOK
<1>2. QED
  BY <1>1, Invariant, PTL

\* A job has its source until it expires, but for one whose insert reported an
\* error after it was committed: its handler deletes the source, or tries to.
THEOREM SourceIsKept == JobSpec => []JobHasItsSource
<1>1. IInv => JobHasItsSource
  BY DEF IInv, SourceOK, JobHasItsSource
<1>2. QED
  BY <1>1, Invariant, PTL

\* A source without a row is in the hands of a handler or was left by one
\* that failed or crashed; the cleanup leaves none.
THEOREM OrphansAreExplained == JobSpec => []NoOrphanSource
<1>1. IInv => NoOrphanSource
  BY DEF IInv, LanesOK, SourceOK, NoOrphanSource, Handlers, Early
<1>2. QED
  BY <1>1, Invariant, PTL

\* A job shown as completed has its SRT: neither a late worker nor a pass
\* that works on what it has read takes it away before it expires.
THEOREM OfferedResultIsThere == JobSpec => []OfferedFileExists
<1>1. IInv => OfferedFileExists
  BY DEF IInv, WorkOK, OfferedFileExists, DisplayStatus, FileIsOffered
<1>2. QED
  BY <1>1, Invariant, PTL

\* A work directory stays only where a process dies with it in hand: of a
\* crash, of a failing rm, or of markSubtitleFailed outside the try.  A worker
\* that goes on, or ends because its catch failed, has removed it.
THEOREM WorkDirsAreLeftByDeathOnly == JobSpec => WorkDirsAreRemoved
<1> DEFINE Removed ==
      stage \notin {"idle", "down"} /\ stage' \in {"idle", "down"} /\ dirs' # 0 =>
        stage' = "down" /\ (faults' > faults \/ stage = "blame_source")
<1>1. IInv /\ [JobNext]_allVars => Removed
  <2> SUFFICES ASSUME WorkOK, [JobNext]_allVars,
                      stage \notin {"idle", "down"}, stage' \in {"idle", "down"},
                      dirs' # 0
               PROVE  stage' = "down" /\ (faults' > faults \/ stage = "blame_source")
    BY DEF IInv
  <2> USE DEF WorkOK, Goes, Fault, workerVars
  <2>1. dirs = 1 /\ faults \in Nat
    BY DEF WorkOK
  <2>2. CASE WorkerCrash
    BY <2>1, <2>2 DEF WorkerCrash
  <2>3. CASE RemoveDir
    BY <2>1, <2>3 DEF RemoveDir
  <2>4. CASE BlameSource
    BY <2>4 DEF BlameSource
  <2>5. ~Claim /\ ~StartWorker /\ ~Restore
    BY DEF Claim, StartWorker, Restore
  <2>6. ~Download /\ ~ExtractAudio /\ ~MarkTranscribing /\ ~Transcribe
        /\ ~UploadResult /\ ~BlameUpload /\ ~Complete /\ ~Fail
    BY DEF Download, ExtractAudio, MarkTranscribing, Transcribe, UploadResult,
           BlameUpload, Complete, Fail
  <2>7. ~Upload(Next) /\ ~ExpireRow /\ ~Cleanup /\ ~PassFails /\ ~UNCHANGED allVars
    BY DEF Upload, ExpireRow, Cleanup, StartPass, DeleteSource, DeleteResult,
           DeleteRow, PassFails, allVars, jobVars
  <2>8. QED
    BY <2>2, <2>3, <2>4, <2>5, <2>6, <2>7 DEF JobNext, Work
<1>2. QED
  BY <1>1, Invariant, PTL DEF JobSpec, WorkDirsAreRemoved

\* A completed job is never restored, failed or claimed again, except by the
\* catch of its own last update.
THEOREM CompletionIsFinal == JobSpec => CompletedIsFinal
<1> DEFINE Final == status = "completed" =>
              status' \in {"completed", "removed"} \/ stage = "fail"
<1>1. IInv /\ [JobNext]_allVars => Final
  <2> SUFFICES ASSUME SourceOK, WorkOK, [JobNext]_allVars, status = "completed"
               PROVE  status' \in {"completed", "removed"} \/ stage = "fail"
    BY DEF IInv
  <2> USE DEF rowVars, Goes, UpdateOk, UpdateRejects, Write
  <2>1. stage \in {"remove_dir", "remove_dir_exit", "idle", "down", "fail"}
    BY DEF WorkOK
  <2>2. CASE Upload(Next)
    BY <2>2 DEF Upload, SourceOK
  <2>3. ~Claim /\ ~Restore /\ ~BlameSource /\ ~MarkTranscribing /\ ~BlameUpload
        /\ ~Complete
    BY <2>1 DEF Claim, Restore, InProgress, BlameSource, MarkTranscribing,
                BlameUpload, Complete
  <2>4. CASE Fail
    BY <2>4 DEF Fail
  <2>5. CASE Download \/ ExtractAudio \/ Transcribe \/ UploadResult \/ RemoveDir
             \/ StartWorker \/ WorkerCrash
    BY <2>5 DEF Download, ExtractAudio, Transcribe, UploadResult, RemoveDir,
                StartWorker, WorkerCrash
  <2>6. CASE ExpireRow \/ Cleanup \/ PassFails
    BY <2>6 DEF ExpireRow, Cleanup, StartPass, DeleteSource, DeleteResult,
                DeleteRow, PassFails
  <2>7. CASE UNCHANGED allVars
    BY <2>7 DEF allVars, jobVars
  <2>8. QED
    BY <2>2, <2>3, <2>4, <2>5, <2>6, <2>7 DEF JobNext, Work
<1>2. QED
  BY <1>1, Invariant, PTL DEF JobSpec, CompletedIsFinal

-----------------------------------------------------------------------------
(* The session of an upload that fails.                                    *)

\* An abort is sent by a lane whose failure ends the mutation, so never after
\* a complete; and only an abort closes a session without an object.
AbortOK ==
  /\ abort # "none" => client = "failed" /\ handler = "none"
  /\ session = "aborted" => abort # "none"

\* completeUpload ended without closing the session: it rejected the token,
\* or R2 or the API failed first.
LeftOpen == session = "open" /\ handler \in {"rejected", "unknown"}

LEMMA AbortUploadStep == LanesOK /\ AbortOK /\ Next => AbortOK' /\ (LeftOpen => LeftOpen')
<1> SUFFICES ASSUME LanesOK, AbortOK, Next
             PROVE  AbortOK' /\ (LeftOpen => LeftOpen')
  OBVIOUS
<1> USE DEF AbortOK, LeftOpen, clientVars, r2Vars, apiVars
<1>1. CASE Submit \/ Post \/ CreateUpload \/ StartLanes \/ CreateFails
  BY <1>1 DEF Submit, Post, CreateUpload, StartLanes, CreateFails, LanesOK
<1>2. ASSUME NEW p \in Parts, PutOk(p) \/ PutFails(p)
      PROVE  AbortOK' /\ (LeftOpen => LeftOpen')
  BY <1>2 DEF PutOk, PutFails, LanesOK
<1>3. CASE SendComplete \/ CompleteAnswered \/ CompleteFails \/ Cancel
  BY <1>3 DEF SendComplete, CompleteAnswered, CompleteFails, Cancel, LanesOK
<1>4. CASE HandlerNext \/ ApiCrash
  BY <1>4 DEF HandlerNext, Put, Verify, Assemble, AssembleFails, Check, Insert,
              Undo, ApiCrash, Goto
<1>5. CASE Expire \/ AbortUpload \/ AbortLost
  BY <1>5 DEF Expire, AbortUpload, AbortLost
<1>6. QED
  BY <1>1, <1>2, <1>3, <1>4, <1>5 DEF Next, ClientNext

LEMMA AbortStep ==
  LanesOK /\ SourceOK /\ AbortOK /\ [JobNext]_allVars
    => AbortOK' /\ (LeftOpen => LeftOpen')
<1> SUFFICES ASSUME LanesOK, SourceOK, AbortOK, [JobNext]_allVars
             PROVE  AbortOK' /\ (LeftOpen => LeftOpen')
  OBVIOUS
<1>1. CASE Upload(Next)
  BY <1>1, AbortUploadStep DEF Upload
<1>2. CASE UNCHANGED <<client, abort, handler, session>>
  BY <1>2 DEF AbortOK, LeftOpen
<1>3. CASE Work \/ WorkerCrash \/ PassFails
  BY <1>2, <1>3, WorkerAside DEF Aside, vars, clientVars, r2Vars, apiVars
<1>4. CASE ExpireRow \/ Cleanup \/ UNCHANGED allVars
  BY <1>2, <1>4 DEF ExpireRow, Cleanup, StartPass, DeleteSource, DeleteResult,
                    DeleteRow, allVars, vars, clientVars, r2Vars, apiVars
<1>5. QED
  BY <1>1, <1>3, <1>4 DEF JobNext

AbortIsForFailedPuts ==
  abort # "none" => handler = "none" /\ object = {} /\ status = "absent"

\* An abort and a complete never meet on one session, however late the
\* failure of a lane is noticed or the request arrives: whoever asks for an
\* abort has no object and no job to lose by it.
THEOREM AbortMeetsNoCompletion == JobSpec => []AbortIsForFailedPuts
<1>1. JobInit => AbortOK
  BY DEF JobInit, Init, AbortOK
<1>2. LanesOK /\ SourceOK /\ AbortOK => AbortIsForFailedPuts
  BY DEF AbortOK, SourceOK, Early, AbortIsForFailedPuts
<1>3. QED
  BY <1>1, <1>2, AbortStep, Invariant, PTL DEF JobSpec, IInv

\* The other side of it: a session that completeUpload has left open when it
\* failed stays open for ever, since nothing is left that would abort it.
THEOREM FailedCompletionIsNeverAborted == JobSpec => [](LeftOpen => []LeftOpen)
<1>1. JobInit => AbortOK
  BY DEF JobInit, Init, AbortOK
<1>2. QED
  BY <1>1, AbortStep, Invariant, PTL DEF JobSpec, IInv

-----------------------------------------------------------------------------
(* The row implements the lifecycle of a job.                              *)

\* What a stage of the worker knows of the status.
StageOK ==
  /\ status \in {"absent", "queued", "completed", "failed", "removed"}
                  \cup InProgress
  /\ stage \in {"download", "blame_source", "extract", "mark"} =>
       status \in {"extracting_audio", "removed"}
  /\ stage \in {"transcribe", "upload", "blame_upload", "complete"} =>
       status \in {"transcribing", "removed"}
  /\ stage \in {"fail", "remove_dir_exit"} =>
       status \in InProgress \cup {"failed", "completed", "removed"}
  /\ stage = "remove_dir" => status \in {"failed", "completed", "removed"}

\* The moves of a job of JobLifecycle that is alone.
Moves(from, to) ==
  \/ from = to
  \/ from = "absent" /\ to = "waiting"
  \/ from = "waiting" /\ to = "running"
  \/ from = "running" /\ to \in {"waiting", "completed", "failed"}
  \/ from \notin {"absent", "removed"} /\ to = "removed"

StatusStep == StageOK' /\ Moves(Phase, Phase')

\* Steps that leave both columns of this argument alone.
LEMMA StatusStays ==
  ASSUME StageOK, UNCHANGED <<status, stage>> PROVE StatusStep
  BY DEF StatusStep, StageOK, Moves, Phase

LEMMA StatusMoves ==
  SourceOK /\ StageOK /\ [JobNext]_allVars => StatusStep
<1> SUFFICES ASSUME SourceOK, StageOK, [JobNext]_allVars PROVE StatusStep
  OBVIOUS
<1> USE DEF InProgress, Goes, UpdateOk, UpdateRejects, Write, rowVars,
            workerVars, passVars
<1>1. CASE Upload(Next)
  <2>1. stage' = stage
        /\ (status' = status \/ (status = "absent" /\ status' = "queued"))
    BY <1>1 DEF Upload, SourceOK, workerVars
  <2>2. status = "absent" => stage \in {"idle", "down"}
    BY DEF SourceOK
  <2>3. QED
    BY <2>1, <2>2 DEF StatusStep, StageOK, Moves, Phase
<1>2. CASE Claim
  BY <1>2 DEF Claim, StatusStep, StageOK, Moves, Phase
<1>3. CASE Download \/ ExtractAudio \/ Transcribe \/ UploadResult
  BY <1>3 DEF Download, ExtractAudio, Transcribe, UploadResult, StatusStep,
              StageOK, Moves, Phase
<1>4. CASE BlameSource
  BY <1>4 DEF BlameSource, StatusStep, StageOK, Moves, Phase
<1>5. CASE MarkTranscribing
  BY <1>5 DEF MarkTranscribing, StatusStep, StageOK, Moves, Phase
<1>6. CASE BlameUpload
  BY <1>6 DEF BlameUpload, StatusStep, StageOK, Moves, Phase
<1>7. CASE Complete
  BY <1>7 DEF Complete, StatusStep, StageOK, Moves, Phase
<1>8. CASE Fail
  BY <1>8 DEF Fail, StatusStep, StageOK, Moves, Phase
<1>9. CASE RemoveDir
  BY <1>9 DEF RemoveDir, StatusStep, StageOK, Moves, Phase
<1>10. CASE WorkerCrash \/ StartWorker
  BY <1>10 DEF WorkerCrash, StartWorker, StatusStep, StageOK, Moves, Phase
<1>11. CASE Restore
  BY <1>11 DEF Restore, StatusStep, StageOK, Moves, Phase
<1>12. CASE ExpireRow \/ StartPass \/ DeleteSource \/ DeleteResult \/ PassFails
  BY <1>12, StatusStays DEF ExpireRow, StartPass, DeleteSource, DeleteResult,
                            PassFails
<1>13. CASE DeleteRow
  <2>1. status # "absent" /\ status' = "removed" /\ stage' = stage
    BY <1>13 DEF DeleteRow, PassTo, SourceOK
  <2>2. QED
    BY <2>1 DEF StatusStep, StageOK, Moves, Phase
<1>14. CASE UNCHANGED allVars
  BY <1>14, StatusStays DEF allVars, jobVars
<1>15. QED
  BY <1>1, <1>2, <1>3, <1>4, <1>5, <1>6, <1>7, <1>8, <1>9, <1>10, <1>11, <1>12,
     <1>13, <1>14 DEF JobNext, Work, Cleanup

\* One job is first in its line and has the server to itself.
LEMMA LifecycleMoves ==
  Moves(Phase, Phase') => [Lifecycle!Next]_(Lifecycle!vars)
<1> DEFINE phase == [j \in {1} |-> Phase]
<1>1. /\ phase[1] = Phase /\ DOMAIN phase = {1}
      /\ phase' = [phase EXCEPT ![1] = Phase']
  OBVIOUS
<1>2. CASE Phase = Phase'
  BY <1>2 DEF Lifecycle!vars
<1>3. CASE Phase = "absent" /\ Phase' = "waiting"
  <2>1. Lifecycle!Submit(1)
    BY <1>3 DEF Lifecycle!Submit
  <2>2. QED
    BY <2>1 DEF Lifecycle!Next
<1>4. CASE Phase = "waiting" /\ Phase' = "running"
  <2>1. Lifecycle!Start(1)
    BY <1>4 DEF Lifecycle!Start, Lifecycle!Before
  <2>2. QED
    BY <2>1 DEF Lifecycle!Next
<1>5. CASE Phase = "running" /\ Phase' = "waiting"
  <2>1. Lifecycle!Requeue(1)
    BY <1>5 DEF Lifecycle!Requeue
  <2>2. QED
    BY <2>1 DEF Lifecycle!Next
<1>6. CASE Phase = "running" /\ Phase' \in {"completed", "failed"}
  <2>1. Lifecycle!Settle(1)
    BY <1>6 DEF Lifecycle!Settle
  <2>2. QED
    BY <2>1 DEF Lifecycle!Next
<1>7. CASE Phase \notin {"absent", "removed"} /\ Phase' = "removed"
  <2>1. Lifecycle!Remove(1)
    BY <1>7 DEF Lifecycle!Remove
  <2>2. QED
    BY <2>1 DEF Lifecycle!Next
<1>8. QED
  BY <1>2, <1>3, <1>4, <1>5, <1>6, <1>7 DEF Moves

\* A subtitle job is started, put back, settled once and removed as the
\* lifecycle says, whatever update fails, whenever the worker dies and wherever
\* the cleanup is (processSubtitleJob, restoreStuckJobs, cleanupExpiredAssets).
THEOREM JobImplementsLifecycle == JobSpec => ImplementsLifecycle
<1>1. JobInit => StageOK /\ Lifecycle!Init
  BY DEF JobInit, StageOK, Lifecycle!Init, Phase, InProgress
<1>2. IInv /\ StageOK /\ [JobNext]_allVars =>
        StageOK' /\ [Lifecycle!Next]_(Lifecycle!vars)
  BY StatusMoves, LifecycleMoves DEF IInv, StatusStep
<1>3. QED
  BY <1>1, <1>2, Invariant, PTL DEF JobSpec, ImplementsLifecycle, Lifecycle!Spec
================================================================================

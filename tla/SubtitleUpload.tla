--------------------------- MODULE SubtitleUpload ---------------------------
(***************************************************************************)
(* One direct upload of a subtitle source: the submit mutation of the web  *)
(* page (use-subtitles-extract-logic.ts with the calls of                  *)
(* mytube-extract.api.ts), the three upload endpoints of the API           *)
(* (apps/api/src/subtitles/subtitles.service.ts) and the R2 multipart      *)
(* session between them.                                                   *)
(*                                                                         *)
(* Every request may be lost, and so may its answer.  Sessions share       *)
(* nothing (the object key holds a random id), so one is enough.  A client *)
(* may also post the whole file to the deprecated POST /subtitles/jobs.    *)
(***************************************************************************)
EXTENDS Integers, FiniteSets

CONSTANT PartCount    \* parts of the file, partCount of createUpload

ASSUME UploadAssumption == PartCount \in Nat \ {0}

Parts == 1..PartCount

\* Lanes of uploadSubtitleFileParts.
Concurrency == IF PartCount < 3 THEN PartCount ELSE 3

VARIABLES
  client,     \* where the mutation is
  aborted,    \* its AbortSignal is aborted
  next,       \* the next part no lane has taken
  putting,    \* parts whose PUT is in flight
  uploaded,   \* parts whose ETag the client has
  session,    \* the multipart upload of R2
  stored,     \* parts R2 has
  object,     \* the parts of the source object, {} when there is none
  expired,    \* the upload token is expired
  handler,    \* where the handler that makes the job is, or how it ended
  abort,      \* the request to /abort: "none", "sent", "done"
  row         \* the subtitle job exists

clientVars == <<client, aborted, next, putting, uploaded>>
r2Vars == <<session, stored, object>>
apiVars == <<handler, abort, row>>
vars == <<clientVars, r2Vars, apiVars, expired>>

\* The next step of a handler of the API.
Goto(from, to) == handler = from /\ handler' = to

Init ==
  /\ client = "idle" /\ aborted = FALSE
  /\ next = 1 /\ putting = {} /\ uploaded = {}
  /\ session = "none" /\ stored = {} /\ object = {}
  /\ expired = FALSE
  /\ handler = "none" /\ abort = "none" /\ row = FALSE

-----------------------------------------------------------------------------
(* The mutation of the page.                                               *)

Submit ==
  /\ client = "idle"
  /\ client' = "creating"
  /\ UNCHANGED <<aborted, next, putting, uploaded, r2Vars, apiVars, expired>>

\* createUpload opens the session; its answer starts the lanes.
CreateUpload ==
  /\ client = "creating" /\ session = "none"
  /\ session' = "open"
  /\ UNCHANGED <<clientVars, stored, object, apiVars, expired>>

StartLanes ==
  /\ client = "creating" /\ session = "open"
  /\ client' = "uploading"
  /\ putting' = 1..Concurrency
  /\ next' = Concurrency + 1
  /\ UNCHANGED <<aborted, uploaded, r2Vars, apiVars, expired>>

\* The request or its answer is lost, or the API answers with an error,
\* with or without a session made: upload is still null.
CreateFails ==
  /\ client = "creating"
  /\ client' = "failed"
  /\ UNCHANGED <<aborted, next, putting, uploaded, r2Vars, apiVars, expired>>

\* R2 has the part and the client its ETag; the lane takes the next part.
\* Lanes of a mutation that has failed go on.
PutOk(p) ==
  /\ p \in putting /\ session = "open"
  /\ stored' = stored \cup {p}
  /\ uploaded' = uploaded \cup {p}
  /\ putting' = (putting \ {p}) \cup ({next} \cap Parts)
  /\ next' = next + Cardinality({next} \cap Parts)
  /\ UNCHANGED <<client, aborted, session, object, apiVars, expired>>

\* The lane ends.  The first failure ends the mutation and sends the abort;
\* the part may have reached R2.
PutFails(p) ==
  /\ p \in putting
  /\ putting' = putting \ {p}
  /\ IF client = "uploading" THEN client' = "failed" /\ abort' = "sent"
                             ELSE UNCHANGED <<client, abort>>
  /\ stored' \in {stored, IF session = "open" THEN stored \cup {p} ELSE stored}
  /\ UNCHANGED <<aborted, next, uploaded, session, object, handler, row,
                 expired>>

SendCompleteMutantRace ==
  /\ client = "uploading" /\ uploaded # {}
  /\ client' = "completing" /\ handler' = "verify"
  /\ UNCHANGED <<aborted, next, putting, uploaded, r2Vars, abort, row, expired>>

\* Promise.all of the lanes is fulfilled.
SendComplete ==
  /\ client = "uploading" /\ putting = {}
  /\ client' = "completing" /\ handler' = "verify"
  /\ UNCHANGED <<aborted, next, putting, uploaded, r2Vars, abort, row, expired>>

CompleteAnswered ==
  /\ client = "completing" /\ handler = "created"
  /\ client' = "succeeded"
  /\ UNCHANGED <<aborted, next, putting, uploaded, r2Vars, apiVars, expired>>

CompleteFailsMutantAnswersOnly ==
  /\ client = "completing" /\ handler \in {"rejected", "leaked"}
  /\ client' = "failed"
  /\ UNCHANGED <<aborted, next, putting, uploaded, r2Vars, apiVars, expired>>

\* An error answer, or none.  The promise is returned and not awaited, so
\* the catch that sends the abort does not see it.
CompleteFails ==
  /\ client = "completing"
  /\ client' = "failed"
  /\ UNCHANGED <<aborted, next, putting, uploaded, r2Vars, apiVars, expired>>

\* stopPolling: the page goes away or submits again.  Requests in flight are
\* dropped, and no abort is sent.
Cancel ==
  /\ client \in {"creating", "uploading", "completing", "failed"}
  /\ ~aborted
  /\ aborted' = TRUE
  /\ client' = "failed"
  /\ putting' = {}
  /\ UNCHANGED <<next, uploaded, r2Vars, apiVars, expired>>

-----------------------------------------------------------------------------
(* SubtitlesService.create, the deprecated endpoint.                       *)

\* createSubtitleJob: one request with the file.
Post ==
  /\ client = "idle"
  /\ client' = "completing" /\ handler' = "put"
  /\ UNCHANGED <<aborted, next, putting, uploaded, r2Vars, abort, row, expired>>

\* putObject.  One that throws may have stored the object, and sourceUploaded
\* is still false: nothing is undone.
Put ==
  /\ \/ Goto("put", "insert") /\ object' = Parts
     \/ Goto("put", "unknown") /\ object' \in {{}, Parts}
  /\ UNCHANGED <<clientVars, session, stored, abort, row, expired>>

-----------------------------------------------------------------------------
(* completeUpload, one action per await.                                   *)

Expire ==
  /\ session # "none" /\ ~expired
  /\ expired' = TRUE
  /\ UNCHANGED <<clientVars, r2Vars, apiVars>>

Verify ==
  /\ Goto("verify", IF expired THEN "rejected" ELSE "assemble")
  /\ UNCHANGED <<clientVars, r2Vars, abort, row, expired>>

\* completeMultipartUpload; it is outside the try.
Assemble ==
  /\ Goto("assemble", "check")
  /\ session = "open" /\ uploaded \subseteq stored
  /\ session' = "completed"
  /\ object' = uploaded
  /\ UNCHANGED <<clientVars, stored, abort, row, expired>>

\* It throws, and R2 may have completed the upload all the same.
AssembleFails ==
  /\ Goto("assemble", "unknown")
  /\ \/ UNCHANGED r2Vars
     \/ /\ session = "open" /\ uploaded \subseteq stored
        /\ session' = "completed" /\ object' = uploaded
        /\ UNCHANGED stored
  /\ UNCHANGED <<clientVars, abort, row, expired>>

\* The size of the object must be that of the token.  HEAD may fail, too.
Check ==
  /\ \/ object = Parts /\ Goto("check", "insert")
     \/ Goto("check", "undo")
  /\ UNCHANGED <<clientVars, r2Vars, abort, row, expired>>

InsertMutantNotUndone ==
  /\ \/ Goto("insert", "created") /\ row' = TRUE
     \/ Goto("insert", "rejected") /\ UNCHANGED row
  /\ UNCHANGED <<clientVars, r2Vars, abort, expired>>

\* An insert that throws may have been committed.
Insert ==
  /\ \/ Goto("insert", "created") /\ row' = TRUE
     \/ Goto("insert", "undo") /\ row' \in BOOLEAN
  /\ UNCHANGED <<clientVars, r2Vars, abort, expired>>

\* The catch: deleteObject, whose failure is logged, whether or not it has
\* deleted the object.
Undo ==
  /\ \/ Goto("undo", "rejected") /\ object' = {}
     \/ Goto("undo", "leaked") /\ object' \in {object, {}}
  /\ UNCHANGED <<clientVars, session, stored, abort, row, expired>>

ApiCrash ==
  /\ handler \in {"put", "verify", "assemble", "check", "insert", "undo"}
  /\ handler' = "unknown"
  /\ UNCHANGED <<clientVars, r2Vars, abort, row, expired>>

-----------------------------------------------------------------------------
(* abortUpload.                                                            *)

AbortUpload ==
  /\ abort = "sent"
  /\ abort' = "done"
  /\ IF ~expired /\ session = "open"
     THEN session' = "aborted" /\ stored' = {}
     ELSE UNCHANGED <<session, stored>>
  /\ UNCHANGED <<clientVars, object, handler, row, expired>>

\* The request is lost, or R2 rejects.
AbortLost ==
  /\ abort = "sent"
  /\ abort' = "done"
  /\ UNCHANGED <<clientVars, r2Vars, handler, row, expired>>

-----------------------------------------------------------------------------
ClientNext ==
  \/ StartLanes \/ CreateFails
  \/ \E p \in Parts : PutOk(p) \/ PutFails(p)
  \/ SendComplete \/ CompleteAnswered \/ CompleteFails

HandlerNext ==
  Put \/ Verify \/ Assemble \/ AssembleFails \/ Check \/ Insert \/ Undo

Next ==
  \/ Submit \/ Post \/ CreateUpload \/ ClientNext \/ Cancel
  \/ Expire \/ HandlerNext \/ ApiCrash
  \/ AbortUpload \/ AbortLost

Spec == Init /\ [][Next]_vars

\* Requests end, well or not, and the API runs its handlers on; an abort
\* that is sent is not lost every time, so it must be allowed to work.
Fairness ==
  /\ WF_vars(ClientNext)
  /\ WF_vars(HandlerNext)
  /\ WF_vars(AbortUpload)

FairSpec == Spec /\ Fairness

-----------------------------------------------------------------------------
(* Properties.                                                             *)

\* complete is sent with every part, each uploaded, and with no PUT left
\* behind, although the lanes outlive each other's failures.
CompleteHasAllParts ==
  handler # "none" /\ session # "none" => uploaded = Parts /\ putting = {}

\* Every submit ends, and no PUT goes on for ever.
EverySubmitEnds ==
  client # "idle" ~> client \in {"succeeded", "failed"} /\ putting = {}

\* prd.md: /abort clears the multipart upload of a request that failed or
\* was canceled.  So one that got as far as /complete ends with a job or
\* without an open session.
FailedUploadIsAborted ==
  client = "completing" ~> client = "succeeded" \/ session # "open"

=============================================================================

------------------------------ MODULE JobPage ------------------------------
(***************************************************************************)
(* A page of the web app from submit to result: the hooks                  *)
(* use-video-extract-logic.ts and use-subtitles-extract-logic.ts, which    *)
(* share this structure, with waitForDownloadJob and getExtractViewPhase.  *)
(*                                                                         *)
(* Every submit starts a handler of its own that outlives what the page    *)
(* shows: it checks the worker's health, creates the job (for subtitles    *)
(* with an upload, see SubtitleUpload) and polls it.  An AbortController   *)
(* per submit is all that ties it to the page.                             *)
(*                                                                         *)
(* Form fields are abstracted to "the draft is valid".  Choosing a file    *)
(* and clearing the error happen on the request screen only, where all     *)
(* that they reset is reset already.                                       *)
(***************************************************************************)
EXTENDS Integers

CONSTANT MaxSubmits    \* bound on submits

ASSUME PageAssumption == MaxSubmits \in Nat \ {0}

Submits == 1..MaxSubmits

None == 0              \* null, for what holds a submit

VARIABLES
  available,     \* worker.available of the last health answer: "yes", "no",
                 \* or "unknown" before the first
  healthFailed,  \* the last health request failed; the answer is kept
  last,          \* submits so far
  handler,       \* handler[n] : where handleDownloadSubmit of submit n is
  aborted,       \* submits whose AbortSignal is aborted
  controller,    \* pollingAbortControllerRef.current
  pending,       \* the submit whose mutation the page observes, while pending
  rendered,      \* React has rendered what pending says
  activeJob,     \* the submit whose job is shown
  shown,         \* displayStatus of that job
  requestError,  \* an error message is set
  server         \* server[n] : the job submit n has made

health == <<available, healthFailed>>
mutation == <<pending, rendered>>
job == <<activeJob, shown>>
polling == <<aborted, controller>>
vars == <<health, last, handler, polling, mutation, job, requestError, server>>

Init ==
  /\ available = "unknown" /\ healthFailed = FALSE
  /\ last = 0
  /\ handler = [n \in Submits |-> "idle"]
  /\ aborted = {} /\ controller = None
  /\ pending = None /\ rendered = TRUE
  /\ activeJob = None /\ shown = "none"
  /\ requestError = FALSE
  /\ server = [n \in Submits |-> "none"]

-----------------------------------------------------------------------------
(* What the page computes from its state.                                  *)

\* "failed" stands for expired, too.
Terminal == {"completed", "failed"}

IsPending == pending # None /\ rendered

JobInProgress == activeJob # None /\ shown \notin Terminal

HealthError == healthFailed \/ available = "no"

NavigationLockedMutantJobOnly == JobInProgress

NavigationLocked == IsPending \/ JobInProgress

ViewMutantHealthFirst ==
  IF requestError \/ shown = "failed" THEN "error"
  ELSE IF activeJob # None /\ HealthError THEN "error"
  ELSE IF shown = "completed" THEN "result"
  ELSE IF IsPending \/ shown # "none" THEN "processing"
  ELSE "request"

\* getExtractViewPhase.
View ==
  IF requestError \/ shown = "failed" THEN "error"
  ELSE IF shown = "completed" THEN "result"
  ELSE IF activeJob # None /\ HealthError THEN "error"
  ELSE IF IsPending \/ shown # "none" THEN "processing"
  ELSE "request"

\* The last answer counts, although a later request failed.
CanSubmit == ~JobInProgress /\ ~IsPending /\ available = "yes"

-----------------------------------------------------------------------------
(* The user.                                                               *)

StopPollingMutantNotAborted ==
  /\ controller' = None
  /\ UNCHANGED aborted

StopPolling ==
  /\ aborted' = aborted \cup ({controller} \ {None})
  /\ controller' = None

SubmitMutantNotStopped ==
  /\ View = "request" /\ CanSubmit
  /\ last < MaxSubmits
  /\ last' = last + 1
  /\ handler' = [handler EXCEPT ![last + 1] = "health"]
  /\ controller' = last + 1
  /\ pending' = last + 1 /\ rendered' = FALSE
  /\ requestError' = FALSE
  /\ UNCHANGED <<health, aborted, job, server>>

\* The button stays enabled until React has rendered the pending mutation,
\* so a second click may get here before.
Submit ==
  /\ View = "request" /\ CanSubmit
  /\ last < MaxSubmits
  /\ last' = last + 1
  /\ handler' = [handler EXCEPT ![last + 1] = "health"]
  /\ aborted' = aborted \cup ({controller} \ {None})
  /\ controller' = last + 1
  /\ pending' = last + 1 /\ rendered' = FALSE
  /\ requestError' = FALSE
  /\ UNCHANGED <<health, job, server>>

Render ==
  /\ ~rendered
  /\ rendered' = TRUE
  /\ UNCHANGED <<health, last, handler, polling, pending, job, requestError,
                 server>>

\* "New request", and the button of the error screen.
ReturnToRequest ==
  /\ View \in {"result", "error"}
  /\ StopPolling
  /\ activeJob' = None /\ shown' = "none"
  /\ requestError' = FALSE
  /\ pending' = None /\ rendered' = TRUE
  /\ UNCHANGED <<health, last, handler, server>>

\* The route changes (by the tabs if they are not locked, or by the browser)
\* or the page is loaded again: its state is gone, and what its handlers
\* still do has no effect.
Leave ==
  /\ StopPolling
  /\ handler' = [n \in Submits |-> IF handler[n] = "idle" THEN "idle" ELSE "ended"]
  /\ activeJob' = None /\ shown' = "none"
  /\ requestError' = FALSE
  /\ pending' = None /\ rendered' = TRUE
  /\ UNCHANGED <<health, last, server>>

-----------------------------------------------------------------------------
(* Health: the query of the page asks every 15 seconds and on demand.      *)

HealthOutcome ==
  \/ healthFailed' = TRUE /\ UNCHANGED available
  \/ healthFailed' = FALSE /\ available' \in {"yes", "no"}

\* The refetch of a submit cancels one in flight, and none starts meanwhile.
HealthAnswers ==
  /\ \A n \in Submits : handler[n] # "health"
  /\ HealthOutcome
  /\ UNCHANGED <<last, handler, polling, mutation, job, requestError, server>>

-----------------------------------------------------------------------------
(* The handler of submit n.                                                *)

\* It settles: the page observes the mutation of the last submit only.
End(n) ==
  /\ handler' = [handler EXCEPT ![n] = "ended"]
  /\ pending' = IF pending = n THEN None ELSE pending
  /\ UNCHANGED rendered

FailMutantSilent(n) ==
  /\ End(n)
  /\ UNCHANGED <<job, polling, requestError>>

\* The catch: the message is set, the controller and the job stay.
Fail(n) ==
  /\ End(n)
  /\ requestError' = TRUE
  /\ UNCHANGED <<job, polling>>

\* The refetch of the submit.  A second submit cancels that of the first,
\* which then waits for the same answer, so all of them go on together.  The
\* page renders before an answer comes from the network.
HealthChecked ==
  LET waiting == {n \in Submits : handler[n] = "health"}
      To(stage) == [n \in Submits |-> IF n \in waiting THEN stage ELSE handler[n]]
  IN  /\ waiting # {} /\ rendered
      /\ HealthOutcome
      /\ IF healthFailed' \/ available' # "yes"
         THEN handler' = To("ended") /\ pending' = None /\ requestError' = TRUE
         ELSE handler' = To("create") /\ UNCHANGED <<pending, requestError>>
      /\ UNCHANGED <<last, polling, rendered, job, server>>

\* setActiveJob; a job that has ended ends the handler, which stops polling.
Show(n, status) ==
  /\ activeJob' = n /\ shown' = status
  /\ IF status \in Terminal
     THEN handler' = [handler EXCEPT ![n] = "ended"] /\ StopPolling
     ELSE handler' = [handler EXCEPT ![n] = "poll"] /\ UNCHANGED polling
  /\ UNCHANGED requestError

\* The API answers with a new job, or with one completed by reuse.
CreateAnswered(n) ==
  /\ handler[n] = "create" /\ n \notin aborted
  /\ \E status \in {"active", "completed"} :
       /\ server' = [server EXCEPT ![n] = status]
       /\ Show(n, status)
  /\ pending' = IF pending = n THEN None ELSE pending
  /\ UNCHANGED <<health, last, rendered>>

\* An error, or a lost answer of a job that was made.
CreateFails(n) ==
  /\ handler[n] = "create" /\ n \notin aborted
  /\ \E status \in {"none", "active"} : server' = [server EXCEPT ![n] = status]
  /\ Fail(n)
  /\ UNCHANGED <<health, last>>

PollAnswersMutantStatusKept(n) ==
  /\ handler[n] = "poll" /\ n \notin aborted
  /\ activeJob' = n /\ UNCHANGED shown
  /\ UNCHANGED <<health, last, handler, polling, mutation, requestError, server>>

PollAnswers(n) ==
  /\ handler[n] = "poll" /\ n \notin aborted
  /\ Show(n, server[n])
  /\ UNCHANGED <<health, last, mutation, server>>

\* One failed request ends the polling, whatever becomes of the job.
PollFails(n) ==
  /\ handler[n] = "poll" /\ n \notin aborted
  /\ Fail(n)
  /\ UNCHANGED <<health, last, server>>

\* An aborted request rejects with AbortError, and the handler returns.
DropAborted(n) ==
  /\ handler[n] \in {"create", "poll"} /\ n \in aborted
  /\ End(n)
  /\ UNCHANGED <<health, last, polling, job, requestError, server>>

Handle(n) ==
  \/ CreateAnswered(n) \/ CreateFails(n)
  \/ PollAnswers(n) \/ PollFails(n) \/ DropAborted(n)

\* The worker settles the job, or it expires.
JobEnds(n) ==
  /\ server[n] = "active"
  /\ \E status \in Terminal : server' = [server EXCEPT ![n] = status]
  /\ UNCHANGED <<health, last, handler, polling, mutation, job, requestError>>

-----------------------------------------------------------------------------
Next ==
  \/ Submit \/ Render \/ ReturnToRequest \/ Leave
  \/ HealthAnswers \/ HealthChecked
  \/ \E n \in Submits : Handle(n) \/ JobEnds(n)

Spec == Init /\ [][Next]_vars

\* React renders, requests end, well or not, and the worker settles its jobs
\* (WorkerQueue!EveryJobSettles).  The user owes nothing, and no poll has to
\* fail: a handler must see its job end.
Fairness ==
  /\ WF_vars(Render)
  /\ WF_vars(HealthChecked)
  /\ \A n \in Submits :
       /\ WF_vars(CreateAnswered(n) \/ CreateFails(n))
       /\ WF_vars(PollAnswers(n))
       /\ WF_vars(DropAborted(n))
       /\ WF_vars(JobEnds(n))

FairSpec == Spec /\ Fairness

-----------------------------------------------------------------------------
(* Properties.                                                             *)

FlagsOK ==
  /\ healthFailed \in BOOLEAN
  /\ rendered \in BOOLEAN
  /\ requestError \in BOOLEAN

TypeOK ==
  /\ FlagsOK
  /\ available \in {"unknown", "yes", "no"}
  /\ last \in 0..MaxSubmits
  /\ handler \in [Submits -> {"idle", "health", "create", "poll", "ended"}]
  /\ aborted \subseteq 1..last
  /\ controller \in 0..last /\ pending \in 0..last /\ activeJob \in 0..last
  /\ shown \in {"none", "active"} \cup Terminal
  /\ server \in [Submits -> {"none", "active"} \cup Terminal]

\* Handlers whose next answer will change the page.
Live == {n \in Submits : handler[n] \in {"health", "create", "poll"} /\ n \notin aborted}

\* No two handlers write to the page: whatever double clicks, returns and
\* resubmits there were, only that of the current controller is alive.
OneLiveHandler == Live \subseteq {controller}

\* The page never shows the job of an earlier submit, nor one whose handler
\* was stopped before it ended.
ShownJobIsLatest ==
  activeJob # None =>
    activeJob = last /\ (activeJob \in Live \/ requestError \/ shown \in Terminal)

\* The processing screen has no button, so something must be on its way that
\* replaces it.
ProcessingIsAlive == View = "processing" => Live # {}

\* docs/web/routes/video.md, 8: while a request is under way the tabs are
\* locked.  And a lock the page keeps after that has an exit: the screen with
\* the button that returns to the request.
LockFollowsWork ==
  /\ rendered /\ Live # {} => NavigationLocked
  /\ NavigationLocked => Live # {} \/ View = "error"

\* A result stays on the screen until the user leaves it, whatever the health
\* query says meanwhile.
ResultStays ==
  [][View = "result" => View' = "result" \/ ReturnToRequest \/ Leave]_vars

\* Every handler ends: no polling outlives the interest in its job.
EveryHandlerEnds ==
  \A n \in Submits : handler[n] # "idle" ~> handler[n] = "ended"

=============================================================================

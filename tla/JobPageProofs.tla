--------------------------- MODULE JobPageProofs ---------------------------
(***************************************************************************)
(* Theorems about JobPage for any number of submits: one live handler, the *)
(* latest job on the screen, no processing screen without work and no lock *)
(* without work or an exit.                                                *)
(***************************************************************************)
EXTENDS JobPage, TLAPS

-----------------------------------------------------------------------------
(* The inductive invariant.                                                *)

\* A submit that was not made has no handler.
IdleAfterLast == \A n \in Submits : n > last => handler[n] = "idle"

\* The mutation the page observes is that of the last submit and not stopped,
\* and nothing of an earlier one is left on the page.
PendingIsAlive ==
  pending # None =>
    /\ pending = last /\ pending = controller /\ pending \notin aborted
    /\ handler[pending] \in {"health", "create"}
    /\ activeJob = None /\ ~requestError

\* What waits for the health answer waits together with the last submit, and
\* only that time is not rendered yet.
WaitsTogether ==
  /\ \A n \in Submits :
       handler[n] = "health" => pending # None /\ handler[pending] = "health"
  /\ ~rendered => pending # None /\ handler[pending] = "health"

\* A live handler is the pending one, or its job is on the page.
LiveIsVisible ==
  \A n \in Live :
    \/ pending = n
    \/ handler[n] = "poll" /\ activeJob = n /\ shown = "active"

JobHasStatus ==
  /\ activeJob = None <=> shown = "none"
  /\ \A n \in Submits : handler[n] = "poll" => server[n] # "none"

IInv ==
  /\ TypeOK
  /\ OneLiveHandler
  /\ ShownJobIsLatest
  /\ IdleAfterLast
  /\ PendingIsAlive
  /\ WaitsTogether
  /\ LiveIsVisible
  /\ JobHasStatus

-----------------------------------------------------------------------------
\* A fresh page satisfies the inductive invariant.
LEMMA InitIInv == Init => IInv
<1> SUFFICES ASSUME Init PROVE IInv
  OBVIOUS
<1> USE DEF Init, None
<1>1. TypeOK
  <2>1. FlagsOK
    BY DEF FlagsOK
  <2>2. QED
    BY <2>1, PageAssumption DEF TypeOK
<1>2. Live = {}
  BY DEF Live
<1>3. QED
  BY <1>1, <1>2
  DEF IInv, OneLiveHandler, ShownJobIsLatest, IdleAfterLast, PendingIsAlive,
      WaitsTogether, LiveIsVisible, JobHasStatus

-----------------------------------------------------------------------------
(* One lemma per group of actions: each keeps the inductive invariant.     *)

\* The request screen shows no job, so whatever lives is the pending submit
\* of a first click, and the new one stops it.
LEMMA SubmitIInv ==
  ASSUME IInv, Submit
  PROVE  IInv'
<1> USE PageAssumption DEF None
<1>1. /\ last + 1 \in Submits /\ last' = last + 1 /\ last \in Nat
      /\ handler[last + 1] = "idle"
      /\ handler' = [handler EXCEPT ![last + 1] = "health"]
      /\ controller' = last + 1 /\ pending' = last + 1
  BY DEF IInv, TypeOK, IdleAfterLast, Submit, Submits
<1>2. activeJob = None /\ shown = "none" /\ ~requestError
  BY DEF IInv, TypeOK, JobHasStatus, Submit, View, Terminal
<1>3. TypeOK'
  <2>1. handler' \in [Submits -> {"idle", "health", "create", "poll", "ended"}]
    BY <1>1 DEF IInv, TypeOK
  <2>2. last' \in 0..MaxSubmits
    BY <1>1 DEF Submits
  <2>3. aborted' \subseteq 1..last'
    BY <1>1 DEF IInv, TypeOK, Submit
  <2>4. FlagsOK'
    BY DEF IInv, TypeOK, FlagsOK, Submit, health
  <2>5. QED
    BY <1>1, <2>1, <2>2, <2>3, <2>4 DEF IInv, TypeOK, Submit, job, health
<1>4. \A n \in Live' : n = last + 1
  BY <1>1 DEF IInv, TypeOK, OneLiveHandler, Live, Submit, Submits
<1>5. OneLiveHandler' /\ LiveIsVisible'
  BY <1>1, <1>4 DEF OneLiveHandler, LiveIsVisible
<1>6. ShownJobIsLatest' /\ JobHasStatus'
  BY <1>1, <1>2 DEF IInv, ShownJobIsLatest, JobHasStatus, Submit, job
<1>7. IdleAfterLast'
  BY <1>1 DEF IInv, IdleAfterLast, Submits
<1>8. PendingIsAlive' /\ WaitsTogether'
  BY <1>1, <1>2 DEF IInv, TypeOK, PendingIsAlive, WaitsTogether, Submit, job, Submits
<1>9. QED
  BY <1>3, <1>5, <1>6, <1>7, <1>8 DEF IInv

\* Rendering and the health query of the page change neither handlers nor
\* jobs.
LEMMA RenderIInv ==
  ASSUME IInv, Render \/ HealthAnswers
  PROVE  IInv'
<1>1. /\ UNCHANGED <<last, handler, polling, pending, job, requestError, server>>
      /\ rendered' \in {rendered, TRUE}
  BY DEF IInv, TypeOK, Render, HealthAnswers, mutation
<1>2. TypeOK'
  <2>1. FlagsOK'
    BY <1>1 DEF IInv, TypeOK, FlagsOK, Render, HealthAnswers, HealthOutcome,
                health
  <2>2. QED
    BY <1>1, <2>1 DEF IInv, TypeOK, Render, HealthAnswers, HealthOutcome,
                      health, job, polling
<1>3. QED
  BY <1>1, <1>2
  DEF IInv, OneLiveHandler, ShownJobIsLatest, IdleAfterLast, PendingIsAlive,
      WaitsTogether, LiveIsVisible, JobHasStatus, Live, job, polling

\* Both stop the controller, and with it all that lives.
LEMMA LeaveIInv ==
  ASSUME IInv, ReturnToRequest \/ Leave
  PROVE  IInv'
<1> USE DEF None
<1>1. /\ aborted' = aborted \cup ({controller} \ {None}) /\ controller' = None
      /\ activeJob' = None /\ shown' = "none" /\ requestError' = FALSE
      /\ pending' = None /\ rendered' = TRUE
      /\ UNCHANGED <<last, server>>
  BY DEF ReturnToRequest, Leave, StopPolling
<1>2. /\ handler' \in [Submits -> {"idle", "health", "create", "poll", "ended"}]
      /\ \A n \in Submits : handler'[n] \in {handler[n], "ended"}
      /\ \A n \in Submits : handler[n] = "idle" => handler'[n] = "idle"
  BY DEF IInv, TypeOK, ReturnToRequest, Leave
<1>3. \A n \in Submits : handler'[n] # "health"
  <2>1. CASE Leave
    BY <2>1 DEF Leave
  <2>2. CASE ReturnToRequest
    <3>1. \/ pending = None
          \/ ~rendered
      BY <2>2 DEF IInv, TypeOK, PendingIsAlive, ReturnToRequest, View,
                  IsPending, JobHasStatus, Terminal
    <3>2. QED
      BY <2>2, <3>1 DEF IInv, PendingIsAlive, WaitsTogether, JobHasStatus,
                        ReturnToRequest, View
  <2>3. QED
    BY <2>1, <2>2
<1>4. Live' = {}
  <2>1. \A n \in Live' : n \in Live /\ n # controller
    BY <1>1, <1>2, <1>3 DEF IInv, TypeOK, Live, Submits
  <2>2. QED
    BY <2>1 DEF IInv, OneLiveHandler
<1>5. TypeOK'
  <2>1. aborted' \subseteq 1..last'
    BY <1>1 DEF IInv, TypeOK
  <2>2. FlagsOK'
    BY DEF IInv, TypeOK, FlagsOK, ReturnToRequest, Leave, health
  <2>3. QED
    BY <1>1, <1>2, <2>1, <2>2 DEF IInv, TypeOK, ReturnToRequest, Leave, health
<1>6. QED
  BY <1>1, <1>2, <1>3, <1>4, <1>5
  DEF IInv, OneLiveHandler, ShownJobIsLatest, IdleAfterLast, PendingIsAlive,
      WaitsTogether, LiveIsVisible, JobHasStatus

\* All that wait for the health answer go on, or end, together.
LEMMA CheckedIInv ==
  ASSUME IInv, HealthChecked
  PROVE  IInv'
<1> USE DEF None
<1>1. /\ pending # None /\ handler[pending] = "health" /\ rendered
      /\ pending = last /\ pending = controller /\ pending \notin aborted
      /\ pending \in Submits /\ activeJob = None /\ ~requestError
  BY DEF IInv, TypeOK, WaitsTogether, PendingIsAlive, HealthChecked, Submits
<1>2. UNCHANGED <<last, aborted, controller, rendered, activeJob, shown, server>>
  BY DEF HealthChecked, polling, job
<1>3. PICK stage \in {"create", "ended"} :
        /\ handler' = [n \in Submits |-> IF handler[n] = "health" THEN stage
                                                                  ELSE handler[n]]
        /\ stage = "create" => UNCHANGED <<pending, requestError>>
        /\ stage = "ended" => pending' = None /\ requestError' = TRUE
  BY DEF HealthChecked, IInv, TypeOK
<1>4. TypeOK'
  <2>1. available' \in {"unknown", "yes", "no"}
    BY DEF IInv, TypeOK, HealthChecked, HealthOutcome
  <2>2. handler' \in [Submits -> {"idle", "health", "create", "poll", "ended"}]
    BY <1>3 DEF IInv, TypeOK
  <2>3. FlagsOK'
    BY <1>2, <1>3 DEF IInv, TypeOK, FlagsOK, HealthChecked, HealthOutcome
  <2>4. QED
    BY <1>2, <1>3, <2>1, <2>2, <2>3 DEF IInv, TypeOK
<1>5. Live' \subseteq Live
  BY <1>2, <1>3 DEF Live
<1>6. LiveIsVisible'
  BY <1>1, <1>2, <1>3, <1>5 DEF IInv, TypeOK, LiveIsVisible, Live
<1>7. OneLiveHandler' /\ ShownJobIsLatest'
  BY <1>1, <1>2, <1>5 DEF IInv, OneLiveHandler, ShownJobIsLatest
<1>8. IdleAfterLast' /\ JobHasStatus'
  BY <1>2, <1>3 DEF IInv, IdleAfterLast, JobHasStatus
<1>9. PendingIsAlive'
  BY <1>1, <1>2, <1>3 DEF IInv, PendingIsAlive
<1>10. WaitsTogether'
  BY <1>1, <1>2, <1>3 DEF WaitsTogether
<1>11. QED
  BY <1>4, <1>6, <1>7, <1>8, <1>9, <1>10 DEF IInv

\* A live handler shows its own job: it is the last one.
LEMMA ShowIInv ==
  ASSUME IInv, NEW n \in Submits, CreateAnswered(n) \/ PollAnswers(n)
  PROVE  IInv'
<1> USE DEF None
<1>1. PICK status \in {"active", "completed", "failed"} :
        /\ Show(n, status)
        /\ server'[n] = status
  BY DEF IInv, TypeOK, JobHasStatus, CreateAnswered, PollAnswers, Terminal
<1>2. /\ n \in Live /\ handler[n] \in {"create", "poll"}
      /\ controller = n /\ last = n
      /\ pending' = None /\ UNCHANGED <<last, rendered, requestError>>
      /\ server' \in [Submits -> {"none", "active", "completed", "failed"}]
      /\ \A m \in Submits : server[m] # "none" => server'[m] # "none"
  <2>1. n \in Live /\ handler[n] \in {"create", "poll"} /\ controller = n
    BY DEF CreateAnswered, PollAnswers, Live, IInv, OneLiveHandler
  <2>2. last = n
    BY <2>1 DEF IInv, LiveIsVisible, PendingIsAlive, ShownJobIsLatest, Submits
  <2>3. pending' = None
    BY <2>1 DEF IInv, TypeOK, LiveIsVisible, PendingIsAlive, CreateAnswered,
                PollAnswers, mutation, Submits
  <2>4. QED
    BY <2>1, <2>2, <2>3 DEF CreateAnswered, PollAnswers, Show, mutation, IInv,
                            TypeOK, Terminal
<1>3. rendered /\ \A m \in Submits : handler[m] # "health"
  BY <1>2 DEF IInv, WaitsTogether, PendingIsAlive, Live, LiveIsVisible
<1>4. FlagsOK' /\ UNCHANGED available
  BY <1>2 DEF IInv, TypeOK, FlagsOK, CreateAnswered, PollAnswers, health
<1>5. CASE status = "active"
  <2>1. /\ activeJob' = n /\ shown' = "active" /\ UNCHANGED <<aborted, controller>>
        /\ handler' = [handler EXCEPT ![n] = "poll"]
    BY <1>1, <1>5 DEF Show, Terminal, polling
  <2>2. TypeOK'
    BY <1>2, <1>4, <2>1 DEF IInv, TypeOK, Terminal, Submits
  <2>3. Live' = Live
    BY <1>2, <2>1 DEF IInv, TypeOK, Live
  <2>4. QED
    BY <1>1, <1>2, <1>3, <1>5, <2>1, <2>2, <2>3
    DEF IInv, TypeOK, OneLiveHandler, ShownJobIsLatest, IdleAfterLast,
        PendingIsAlive, WaitsTogether, LiveIsVisible, JobHasStatus, Submits
<1>6. CASE status \in Terminal
  <2>1. /\ activeJob' = n /\ shown' = status
        /\ aborted' = aborted \cup {n} /\ controller' = None
        /\ handler' = [handler EXCEPT ![n] = "ended"]
    BY <1>1, <1>2, <1>6 DEF Show, StopPolling, Submits
  <2>2. TypeOK'
    BY <1>2, <1>6, <1>4, <2>1 DEF IInv, TypeOK, Terminal, Submits
  <2>3. Live' = {}
    BY <1>2, <2>1 DEF IInv, TypeOK, OneLiveHandler, Live
  <2>4. QED
    BY <1>1, <1>2, <1>3, <1>6, <2>1, <2>2, <2>3
    DEF IInv, TypeOK, OneLiveHandler, ShownJobIsLatest, IdleAfterLast,
        PendingIsAlive, WaitsTogether, LiveIsVisible, JobHasStatus, Submits,
        Terminal
<1>7. QED
  BY <1>1, <1>5, <1>6 DEF Terminal

\* A handler that ends, with an error or silently after an abort.
LEMMA EndIInv ==
  ASSUME IInv, NEW n \in Submits,
         CreateFails(n) \/ PollFails(n) \/ DropAborted(n)
  PROVE  IInv'
<1> USE DEF None
<1>1. /\ handler[n] \in {"create", "poll"}
      /\ handler' = [handler EXCEPT ![n] = "ended"]
      /\ pending' = IF pending = n THEN None ELSE pending
      /\ UNCHANGED <<health, last, aborted, controller, rendered, activeJob, shown>>
      /\ \/ n \in Live /\ requestError' = TRUE
         \/ n \notin Live /\ UNCHANGED requestError
  BY DEF CreateFails, PollFails, DropAborted, Fail, End, polling, job, Live
<1>2. /\ server' \in [Submits -> {"none", "active"} \cup Terminal]
      /\ \A m \in Submits : handler'[m] = "poll" => server'[m] # "none"
  BY <1>1 DEF IInv, TypeOK, JobHasStatus, CreateFails, PollFails, DropAborted
<1>3. TypeOK'
  <2>1. FlagsOK'
    BY <1>1 DEF IInv, TypeOK, FlagsOK, health
  <2>2. handler' \in [Submits -> {"idle", "health", "create", "poll", "ended"}]
    BY <1>1 DEF IInv, TypeOK
  <2>3. pending' \in 0..last'
    BY <1>1 DEF IInv, TypeOK
  <2>4. QED
    BY <1>1, <1>2, <2>1, <2>2, <2>3 DEF IInv, TypeOK, health
<1>4. Live' = Live \ {n}
  BY <1>1 DEF IInv, TypeOK, Live
<1>5. OneLiveHandler' /\ IdleAfterLast' /\ JobHasStatus'
  BY <1>1, <1>2, <1>4
  DEF IInv, TypeOK, OneLiveHandler, IdleAfterLast, JobHasStatus
<1>6. ShownJobIsLatest'
  BY <1>1, <1>4 DEF IInv, ShownJobIsLatest
<1>7. PendingIsAlive'
  <2>1. CASE n \in Live
    BY <1>1, <2>1 DEF IInv, TypeOK, OneLiveHandler, PendingIsAlive
  <2>2. CASE n \notin Live
    BY <1>1, <2>2 DEF IInv, TypeOK, PendingIsAlive, Live
  <2>3. QED
    BY <2>1, <2>2
<1>8. WaitsTogether'
  <2>1. \A m \in Submits : handler[m] = "health" => pending # n
    BY <1>1 DEF IInv, WaitsTogether
  <2>2. QED
    BY <1>1, <2>1 DEF IInv, TypeOK, WaitsTogether
<1>9. LiveIsVisible'
  BY <1>1, <1>4 DEF IInv, TypeOK, LiveIsVisible, Live
<1>10. QED
  BY <1>3, <1>5, <1>6, <1>7, <1>8, <1>9 DEF IInv

\* The worker's side is not seen before the next poll.
LEMMA JobEndsIInv ==
  ASSUME IInv, NEW n \in Submits, JobEnds(n)
  PROVE  IInv'
  BY DEF JobEnds, health, polling, mutation, job, Terminal, IInv, TypeOK,
         FlagsOK, OneLiveHandler, ShownJobIsLatest, IdleAfterLast,
         PendingIsAlive, WaitsTogether, LiveIsVisible, JobHasStatus, Live

\* Every step keeps the inductive invariant.
LEMMA NextIInv == IInv /\ [Next]_vars => IInv'
<1> SUFFICES ASSUME IInv, [Next]_vars PROVE IInv'
  OBVIOUS
<1>1. CASE Submit
  BY <1>1, SubmitIInv
<1>2. CASE Render \/ HealthAnswers
  BY <1>2, RenderIInv
<1>3. CASE ReturnToRequest \/ Leave
  BY <1>3, LeaveIInv
<1>4. CASE HealthChecked
  BY <1>4, CheckedIInv
<1>5. ASSUME NEW n \in Submits, Handle(n) PROVE IInv'
  BY <1>5, ShowIInv, EndIInv DEF Handle
<1>6. ASSUME NEW n \in Submits, JobEnds(n) PROVE IInv'
  BY <1>6, JobEndsIInv
<1>7. CASE UNCHANGED vars
  BY <1>7
  DEF vars, health, polling, mutation, job, IInv, TypeOK, FlagsOK,
      OneLiveHandler, ShownJobIsLatest, IdleAfterLast, PendingIsAlive,
      WaitsTogether, LiveIsVisible, JobHasStatus, Live
<1>8. QED
  BY <1>1, <1>2, <1>3, <1>4, <1>5, <1>6, <1>7 DEF Next

\* Every behaviour satisfies the inductive invariant.
LEMMA Invariance == Spec => []IInv
  BY InitIInv, NextIInv, PTL DEF Spec

-----------------------------------------------------------------------------
(* What follows from it.                                                   *)

\* The processing screen shows a pending request or a job in progress, and
\* both have a live handler.
LEMMA ProcessingFromIInv == IInv => ProcessingIsAlive
<1> SUFFICES ASSUME IInv, View = "processing" PROVE Live # {}
  BY DEF ProcessingIsAlive
<1> USE DEF None
<1>1. shown \notin Terminal /\ ~requestError
  BY DEF View, Terminal
<1>2. CASE IsPending
  BY <1>2 DEF IsPending, IInv, TypeOK, PendingIsAlive, Live, Submits
<1>3. CASE shown # "none"
  BY <1>1, <1>3 DEF IInv, JobHasStatus, ShownJobIsLatest
<1>4. QED
  BY <1>1, <1>2, <1>3 DEF View, Terminal

\* A live handler is pending or has a job in progress, which locks the tabs.
LEMMA LockFromIInv == IInv => LockFollowsWork
<1> SUFFICES ASSUME IInv PROVE LockFollowsWork
  OBVIOUS
<1> USE DEF None
<1>1. ASSUME rendered, NEW n \in Live PROVE NavigationLocked
  BY <1>1 DEF IInv, LiveIsVisible, Live, Submits, NavigationLocked, IsPending,
              JobInProgress, Terminal
<1>2. ASSUME IsPending PROVE Live # {}
  BY <1>2 DEF IsPending, IInv, TypeOK, PendingIsAlive, Live, Submits
<1>3. ASSUME JobInProgress PROVE Live # {} \/ View = "error"
  BY <1>3 DEF JobInProgress, IInv, ShownJobIsLatest, View
<1>4. QED
  BY <1>1, <1>2, <1>3 DEF LockFollowsWork, NavigationLocked

\* On the result screen nothing is alive, so only the user can change it.
LEMMA ResultStep ==
  IInv /\ [Next]_vars =>
    (View = "result" => View' = "result" \/ ReturnToRequest \/ Leave)
<1> SUFFICES ASSUME IInv, [Next]_vars, View = "result", ~ReturnToRequest, ~Leave
             PROVE  View' = "result"
  OBVIOUS
<1> USE DEF None
<1>1. shown = "completed" /\ ~requestError
  BY DEF View
<1>2. pending = None /\ Live = {}
  BY <1>1 DEF IInv, JobHasStatus, PendingIsAlive, LiveIsVisible, Live, Submits
<1>3. \A n \in Submits : handler[n] # "health"
  BY <1>2 DEF IInv, WaitsTogether
<1>4. UNCHANGED <<shown, requestError>>
  <2>1. CASE Submit
    BY <2>1 DEF Submit
  <2>2. CASE Render \/ HealthAnswers
    BY <2>2 DEF Render, HealthAnswers, job
  <2>3. CASE HealthChecked
    BY <2>3, <1>3 DEF HealthChecked
  <2>4. ASSUME NEW n \in Submits, Handle(n) PROVE UNCHANGED <<shown, requestError>>
    BY <2>4, <1>2 DEF Handle, CreateAnswered, CreateFails, PollAnswers,
                      PollFails, DropAborted, Live, job
  <2>5. ASSUME NEW n \in Submits, JobEnds(n) PROVE UNCHANGED <<shown, requestError>>
    BY <2>5 DEF JobEnds, job
  <2>6. CASE UNCHANGED vars
    BY <2>6 DEF vars, job
  <2>7. QED
    BY <2>1, <2>2, <2>3, <2>4, <2>5, <2>6 DEF Next
<1>5. QED
  BY <1>1, <1>4 DEF View

\* The page is correctly typed in every state.
THEOREM TypeCorrect == Spec => []TypeOK
<1>1. IInv => TypeOK
  BY DEF IInv
<1>2. QED
  BY <1>1, Invariance, PTL

\* However often the user clicks, returns and submits again, one handler at
\* most writes to the page, that of the current AbortController.
THEOREM OneHandlerWrites == Spec => []OneLiveHandler
<1>1. IInv => OneLiveHandler
  BY DEF IInv
<1>2. QED
  BY <1>1, Invariance, PTL

\* The job on the page is that of the last submit.
THEOREM LatestJobIsShown == Spec => []ShownJobIsLatest
<1>1. IInv => ShownJobIsLatest
  BY DEF IInv
<1>2. QED
  BY <1>1, Invariance, PTL

\* The processing screen is never shown with nothing under way.
THEOREM NoDeadProcessing == Spec => []ProcessingIsAlive
  BY Invariance, ProcessingFromIInv, PTL

\* Work locks the tabs, and a lock has work or a way out.
THEOREM LockIsJustified == Spec => []LockFollowsWork
  BY Invariance, LockFromIInv, PTL

\* A result on the screen goes away by a click or a reload only.
THEOREM ResultIsKept == Spec => ResultStays
<1>1. IInv /\ [Next]_vars =>
        [View = "result" => View' = "result" \/ ReturnToRequest \/ Leave]_vars
  BY ResultStep
<1>2. QED
  BY <1>1, Invariance, PTL DEF Spec, ResultStays

=============================================================================

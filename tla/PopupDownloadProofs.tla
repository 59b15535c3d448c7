-------------------------- MODULE PopupDownloadProofs --------------------------
(***************************************************************************)
(* The screens and the submits of the popup, for any URLs and any number   *)
(* of submits, openings, calls and faults.                                 *)
(*                                                                         *)
(* Every answer renders the whole snapshot anew and hands on `downloading`,*)
(* which only the submits and the button of the result and error screens   *)
(* change.  Unless a save fails over a submit, these screens come up at    *)
(* the end of one only: that is why the form is shut while it is under way.*)
(***************************************************************************)
EXTENDS PopupDownload, FiniteSetTheorems, TLAPS

Answers == {"download-started", "download-failed"}

IsOptions(o) == o = [url |-> o.url, mode |-> o.mode]

Ready(o) == NormalizeSourceUrl(o.url) # NotAUrl

ValuesOK ==
  /\ flight \in [Submits -> {"none", "health", "start", "ended"}]
  /\ submitted = [n \in Submits |-> submitted[n]]
  /\ sent = [n \in Submits |-> sent[n]]
  /\ open \in BOOLEAN /\ downloading \in BOOLEAN
  /\ faults \in Nat

\* A submit under way is the only one, and has the form shut, unless a save
\* that failed has covered it.
Alone ==
  /\ ~open => UnderWay = {}
  /\ ~covered =>
       /\ \A m, n \in UnderWay : m = n
       /\ UnderWay # {} => downloading /\ status \notin Answers

\* What is under way was ready to be submitted, and is sent as it was.
Clicked ==
  /\ IsOptions(options)
  /\ canDownload => Ready(options)
  /\ \A n \in UnderWay : IsOptions(submitted[n]) /\ Ready(submitted[n])
  /\ \A n \in Submits :
       flight[n] = "start" =>
         sent[n] = [url |-> NormalizeSourceUrl(submitted[n].url),
                    mode |-> submitted[n].mode]

\* BusyIsUnderWay, said of the status that makes the processing screen.
Busy ==
  open /\ (downloading \/ status = "checking-server") => UnderWay # {}

IInv == ValuesOK /\ Busy /\ Alone /\ Clicked

-----------------------------------------------------------------------------
(* Rendering, and the end of submits.                                      *)

LEMMA RenderFacts ==
  ASSUME NEW o, NEW busy \in BOOLEAN, NEW over, Render(o, busy, over)
  PROVE  /\ options' = o /\ downloading' = busy
         /\ canDownload' => Ready(o)
         /\ over # "none" => status' = over
         /\ over = "none" => status' \notin Answers \cup {"checking-server"}
  BY DEF Render, Ready, Answers

LEMMA ViewFacts ==
  /\ View = "processing" <=> status = "checking-server"
  /\ View = "request" => status \notin Answers
  /\ View \in {"result", "error"} => status \in Answers
  BY DEF View, Answers

LEMMA EndFacts ==
  ASSUME NEW ns, End(ns), ValuesOK
  PROVE  /\ flight' = [n \in Submits |-> IF n \in ns THEN "ended" ELSE flight[n]]
         /\ UnderWay' = UnderWay \ ns
         /\ \A n \in Submits \ ns : submitted'[n] = submitted[n] /\ sent'[n] = sent[n]
         /\ submitted' = [n \in Submits |-> submitted'[n]]
         /\ sent' = [n \in Submits |-> sent'[n]]
  BY DEF End, UnderWay, ValuesOK

\* The steps of submits: n is the one under way that ends.
LEMMA EndsWell ==
  ASSUME IInv, NEW n \in UnderWay, NEW over \in Answers,
         End({n}), Render(options, FALSE, over), UNCHANGED <<open, faults, covered>>
  PROVE  IInv'
<1> USE DEF IInv, ValuesOK
<1>1. /\ options' = options /\ downloading' = FALSE /\ status' = over
      /\ canDownload' => Ready(options)
  BY RenderFacts DEF Answers
<1>2. UnderWay' = UnderWay \ {n}
  BY EndFacts
<1>3. ValuesOK'
  <2>1. flight' \in [Submits -> {"none", "health", "start", "ended"}]
    BY EndFacts
  <2>2. /\ submitted' = [m \in Submits |-> submitted'[m]]
        /\ sent' = [m \in Submits |-> sent'[m]]
    BY EndFacts, Zenon
  <2>3. QED
    BY <1>1, <2>1, <2>2
<1>4. Busy'
  <2>1. status' # "checking-server"
    BY <1>1 DEF Answers
  <2>2. QED
    BY <1>1, <2>1 DEF Busy, Answers
<1>5. Alone'
  BY <1>1, <1>2 DEF Alone
<1>6. Clicked'
  BY <1>1, <1>2, EndFacts DEF Clicked, IsOptions, UnderWay
<1>7. QED
  BY <1>3, <1>4, <1>5, <1>6

\* A render that hands the busy flag on, over whatever was on the screen.
LEMMA RendersOnly ==
  ASSUME IInv, NEW o, IsOptions(o), Render(o, downloading, "none"),
         UNCHANGED <<open, covered, submitVars>>, faults' = faults \/ faults' = faults + 1
  PROVE  IInv'
<1> USE DEF IInv, ValuesOK, submitVars
<1>1. /\ options' = o /\ downloading' = downloading
      /\ canDownload' => Ready(o)
      /\ status' \notin Answers \cup {"checking-server"}
  BY RenderFacts
<1>2. UnderWay' = UnderWay
  BY DEF UnderWay
<1>3. ValuesOK' /\ Clicked'
  BY <1>1, <1>2 DEF Clicked
<1>4. Busy'
  BY <1>1, <1>2 DEF Busy
<1>5. Alone'
  BY <1>1, <1>2 DEF Alone
<1>6. QED
  BY <1>3, <1>4, <1>5

-----------------------------------------------------------------------------
LEMMA InvInit == Init => IInv
<1> SUFFICES ASSUME Init PROVE IInv
  OBVIOUS
<1>1. UnderWay = {}
  BY DEF Init, UnderWay
<1>2. ValuesOK
  <2>1. /\ submitted = [n \in Submits |-> submitted[n]]
        /\ sent = [n \in Submits |-> sent[n]]
    BY DEF Init
  <2>2. flight \in [Submits -> {"none", "health", "start", "ended"}]
    BY DEF Init
  <2>3. QED
    BY <2>1, <2>2 DEF Init, ValuesOK
<1>3. Busy /\ Alone
  BY <1>1 DEF Init, Busy, Alone
<1>4. IsOptions(options) /\ canDownload = FALSE
  BY DEF Init, IsOptions, DEFAULT_DOWNLOAD_OPTIONS
<1>5. \A n \in Submits : flight[n] # "start"
  BY DEF Init
<1>6. QED
  BY <1>1, <1>2, <1>3, <1>4, <1>5 DEF IInv, Clicked

LEMMA InvStep == IInv /\ [Next]_vars => IInv'
<1> SUFFICES ASSUME IInv, [Next]_vars PROVE IInv'
  OBVIOUS
<1> USE DEF IInv, ValuesOK, snapshotVars, storageVars, submitVars, history
<1>0. ASSUME UNCHANGED <<open, snapshotVars, submitVars, faults, covered>> PROVE IInv'
  BY <1>0 DEF Busy, Alone, Clicked, UnderWay
<1>1. CASE Open
  <2>1. UnderWay' = UnderWay /\ UnderWay = {}
    BY <1>1 DEF Open, Alone, UnderWay
  <2>2. options' = DEFAULT_DOWNLOAD_OPTIONS /\ UNCHANGED <<submitVars, faults>>
        /\ status' = "missing-source-url" /\ canDownload' = FALSE
        /\ downloading' = FALSE /\ open' = TRUE /\ covered' = FALSE
    BY <1>1 DEF Open
  <2>3. Busy' /\ ValuesOK'
    BY <2>2 DEF Busy
  <2>4. Alone' /\ Clicked'
    BY <2>1, <2>2 DEF Alone, Clicked, IsOptions, DEFAULT_DOWNLOAD_OPTIONS
  <2>5. QED
    BY <2>3, <2>4
<1>2. CASE Close
  <2>1. UnderWay' = {} /\ open' = FALSE /\ UNCHANGED <<snapshotVars, faults, covered>>
    BY <1>2, EndFacts DEF Close
  <2>2. ValuesOK'
    <3>1. flight' \in [Submits -> {"none", "health", "start", "ended"}]
      BY <1>2, EndFacts DEF Close
    <3>2. /\ submitted' = [m \in Submits |-> submitted'[m]]
          /\ sent' = [m \in Submits |-> sent'[m]]
      BY <1>2, EndFacts DEF Close
    <3>3. QED
      BY <2>1, <3>1, <3>2
  <2>3. Busy' /\ Alone'
    BY <2>1 DEF Busy, Alone
  <2>4. \A n \in Submits : flight'[n] # "start"
    BY <2>1 DEF UnderWay
  <2>5. Clicked'
    BY <2>1, <2>4 DEF Clicked
  <2>6. QED
    BY <2>2, <2>3, <2>5
<1>3. CASE Loaded
  <2>1. IsOptions([url |-> NoText, mode |-> stored])
        /\ IsOptions(DEFAULT_DOWNLOAD_OPTIONS)
    BY DEF IsOptions, DEFAULT_DOWNLOAD_OPTIONS
  <2>2. CASE open /\ Head(queue).opened = opens
    BY <1>3, <2>1, <2>2, RendersOnly DEF Loaded
  <2>3. CASE ~(open /\ Head(queue).opened = opens)
    BY <1>0, <1>3, <2>3 DEF Loaded
  <2>4. QED
    BY <2>2, <2>3
<1>4. CASE Saved
  BY <1>0, <1>4 DEF Saved
<1>5. CASE SaveFails
  <2>1. /\ UNCHANGED <<open, options, canDownload, downloading, submitVars>>
        /\ faults' = faults + 1
        /\ \/ status' = "download-failed" /\ covered' = (covered \/ UnderWay # {})
           \/ UNCHANGED <<status, covered>>
    BY <1>5 DEF SaveFails
  <2>2. UnderWay' = UnderWay
    BY <2>1 DEF UnderWay
  <2>3. QED
    BY <2>1, <2>2 DEF Busy, Alone, Clicked
<1>6. ASSUME NEW u, TypeUrl(u) PROVE IInv'
  <2>1. IsOptions([options EXCEPT !.url = u])
    BY DEF IsOptions, Clicked
  <2>2. QED
    BY <1>6, <2>1, RendersOnly DEF TypeUrl
<1>7. ASSUME NEW mode \in Modes, ChangeMode(mode) PROVE IInv'
  <2>1. IsOptions([options EXCEPT !.mode = mode])
    BY DEF IsOptions, Clicked
  <2>2. QED
    BY <1>7, <2>1, RendersOnly DEF ChangeMode
<1>8. CASE Import
  BY <1>0, <1>8 DEF Import
<1>9. CASE ReturnToForm
  <2>1. /\ options' = options /\ downloading' = FALSE
        /\ canDownload' => Ready(options)
        /\ status' \notin Answers \cup {"checking-server"}
    BY <1>9, RenderFacts DEF ReturnToForm
  <2>2. UnderWay' = UnderWay /\ UNCHANGED <<open, faults, covered, submitVars>>
    BY <1>9 DEF ReturnToForm, UnderWay
  <2>3. ~covered => UnderWay = {}
    BY <1>9, ViewFacts DEF ReturnToForm, Alone
  <2>4. ValuesOK' /\ Clicked'
    BY <2>1, <2>2 DEF Clicked
  <2>5. Busy'
    BY <2>1 DEF Busy
  <2>6. Alone'
    BY <2>2, <2>3 DEF Alone
  <2>7. QED
    BY <2>4, <2>5, <2>6
<1>10. ASSUME NEW n \in Submits, Submit(n) PROVE IInv'
  <2>1. /\ open /\ Ready(options) /\ ~downloading /\ IsOptions(options)
        /\ flight' = [flight EXCEPT ![n] = "health"]
        /\ submitted' = [submitted EXCEPT ![n] = options]
        /\ status' = "checking-server" /\ canDownload' = FALSE
        /\ downloading' = TRUE /\ UNCHANGED <<open, options, faults, covered, sent>>
    BY <1>10 DEF Submit, OnForm, Clicked
  <2>2. UnderWay' = UnderWay \cup {n}
    BY <2>1 DEF UnderWay
  <2>3. ~covered => UnderWay = {}
    BY <2>1 DEF Alone
  <2>4. ValuesOK'
    BY <2>1
  <2>5. Busy'
    BY <2>2 DEF Busy
  <2>6. Alone'
    BY <2>1, <2>2, <2>3 DEF Alone, Answers
  <2>7. Clicked'
    BY <2>1, <2>2 DEF Clicked
  <2>8. QED
    BY <2>4, <2>5, <2>6, <2>7
<1>11. ASSUME NEW u, Imported(u) PROVE IInv'
  <2>1. CASE NormalizeSourceUrl(u) # NotAUrl
    <3>1. IsOptions([options EXCEPT !.url = NormalizeSourceUrl(u)])
      BY DEF IsOptions, Clicked
    <3>2. QED
      BY <1>11, <2>1, <3>1, RendersOnly DEF Imported
  <2>2. CASE NormalizeSourceUrl(u) = NotAUrl
    <3>1. /\ options' = options /\ downloading' = downloading
          /\ canDownload' => Ready(options)
          /\ status' = "invalid-source-url"
      BY <1>11, <2>2, RenderFacts DEF Imported
    <3>2. UnderWay' = UnderWay /\ UNCHANGED <<open, faults, covered, submitVars>>
      BY <1>11 DEF Imported, UnderWay
    <3>3. ValuesOK' /\ Clicked'
      BY <3>1, <3>2 DEF Clicked
    <3>4. status' \notin Answers \cup {"checking-server"}
      BY <3>1 DEF Answers
    <3>5. Busy'
      BY <3>1, <3>2, <3>4 DEF Busy
    <3>6. Alone'
      BY <3>1, <3>2, <3>4 DEF Alone
    <3>7. QED
      BY <3>3, <3>5, <3>6
  <2>3. QED
    BY <2>1, <2>2
<1>12. ASSUME NEW n \in Submits, HealthOk(n) PROVE IInv'
  <2>1. /\ flight[n] = "health" /\ flight' = [flight EXCEPT ![n] = "start"]
        /\ sent' = [sent EXCEPT ![n] = [submitted[n] EXCEPT
                      !.url = NormalizeSourceUrl(submitted[n].url)]]
        /\ UNCHANGED <<open, snapshotVars, submitted, faults, covered>>
    BY <1>12 DEF HealthOk
  <2>2. UnderWay' = UnderWay /\ n \in UnderWay
    BY <2>1 DEF UnderWay
  <2>3. IsOptions(submitted[n])
    BY <2>2 DEF Clicked
  <2>4. sent'[n] = [url |-> NormalizeSourceUrl(submitted[n].url),
                    mode |-> submitted[n].mode]
    BY <2>1, <2>3 DEF IsOptions
  <2>5. Clicked'
    BY <2>1, <2>2, <2>4 DEF Clicked
  <2>6. QED
    BY <2>1, <2>2, <2>5 DEF Busy, Alone
<1>13. ASSUME NEW n \in Submits, Started(n) PROVE IInv'
  <2>1. n \in UnderWay
    BY <1>13 DEF Started, UnderWay
  <2>2. QED
    BY <1>13, <2>1, EndsWell DEF Started, Answers
<1>14. ASSUME NEW n \in Submits, SubmitFails(n) PROVE IInv'
  BY <1>14, EndsWell DEF SubmitFails, Answers
<1>15. CASE UNCHANGED vars
  BY <1>0, <1>15 DEF vars
<1>16. QED
  BY <1>1, <1>2, <1>3, <1>4, <1>5, <1>6, <1>7, <1>8, <1>9, <1>10, <1>11, <1>12,
     <1>13, <1>14, <1>15 DEF Next, User, Storage, Answer

-----------------------------------------------------------------------------
(* The calls to chrome.storage.  As long as the load of the popup that is  *)
(* open is under way nothing comes after it, unless the user was early;    *)
(* when it is done all that is under way are saves of this popup or of     *)
(* former ones, and the last one has what the form shows.                  *)

Calls == [call : {"load"}, opened : Nat]
           \cup [call : {"save"}, opened : Nat, mode : Modes]

CallsOK ==
  /\ opens \in Nat
  /\ queue \in Seq(Calls)
  /\ \A i \in DOMAIN queue : queue[i].opened <= opens
  /\ stored \in Modes /\ options.mode \in Modes

LoadIsLast ==
  \A i \in DOMAIN queue :
    queue[i].call = "load" /\ queue[i].opened = opens => i = Len(queue)

OnlySaves ==
  /\ \A i \in DOMAIN queue : queue[i].call = "save"
  /\ queue = <<>> => stored = options.mode
  /\ queue # <<>> => queue[Len(queue)].mode = options.mode

Kept ==
  open /\ faults = 0 /\ ~early => IF Loading THEN LoadIsLast ELSE OnlySaves

StorageInv == CallsOK /\ Kept

\* A step that leaves the calls, and the mode that the form shows.
LEMMA KeepsCalls ==
  ASSUME StorageInv, IInv, UNCHANGED <<opens, stored, queue, early>>,
         open' => open, options'.mode = options.mode,
         faults' = faults \/ faults' = faults + 1
  PROVE  StorageInv'
<1>1. CallsOK'
  BY DEF StorageInv, CallsOK
<1>2. (Loading' <=> Loading) /\ (LoadIsLast' <=> LoadIsLast) /\ (OnlySaves' <=> OnlySaves)
  BY DEF Loading, LoadIsLast, OnlySaves
<1>3. open' /\ faults' = 0 => open /\ faults = 0
  BY DEF IInv, ValuesOK
<1>4. Kept'
  BY <1>2, <1>3 DEF StorageInv, Kept
<1>5. QED
  BY <1>1, <1>4 DEF StorageInv

LEMMA RenderMode ==
  ASSUME NEW o, NEW busy, NEW over, Render(o, busy, over)
  PROVE  options' = o
  BY DEF Render

LEMMA StorageInit == Init => StorageInv
<1>1. Init => CallsOK
  BY DEF Init, CallsOK, DEFAULT_DOWNLOAD_OPTIONS, Modes
<1>2. Init => Kept
  BY DEF Init, Kept
<1>3. QED
  BY <1>1, <1>2 DEF StorageInv

LEMMA StorageStep == IInv /\ StorageInv /\ [Next]_vars => StorageInv'
<1> SUFFICES ASSUME IInv, StorageInv, [Next]_vars PROVE StorageInv'
  OBVIOUS
<1> USE DEF storageVars, snapshotVars, history
<1>0. IsOptions(options) /\ faults \in Nat
  BY DEF IInv, Clicked, ValuesOK
<1>a. CallsOK /\ Kept
  BY DEF StorageInv
<1>1. CASE Open
  <2> DEFINE c == [call |-> "load", opened |-> opens + 1]
  <2>1. /\ ~open /\ opens' = opens + 1 /\ queue' = Append(queue, c)
        /\ options' = DEFAULT_DOWNLOAD_OPTIONS /\ early' = FALSE
        /\ UNCHANGED stored
    BY <1>1 DEF Open
  <2>2. c \in Calls /\ c.opened = opens + 1 /\ c.call = "load"
    BY <1>a DEF Calls, CallsOK
  <2>3. /\ queue' \in Seq(Calls) /\ Len(queue') = Len(queue) + 1
        /\ \A i \in DOMAIN queue : queue'[i] = queue[i]
        /\ queue'[Len(queue')] = c
        /\ DOMAIN queue' = DOMAIN queue \cup {Len(queue')}
    BY <1>a, <2>1, <2>2 DEF CallsOK
  <2>4. \A i \in DOMAIN queue : queue[i].opened <= opens /\ queue[i].opened \in Nat
    BY <1>a DEF CallsOK, Calls
  <2>5. CallsOK'
    <3>1. \A i \in DOMAIN queue' : queue'[i].opened <= opens'
      BY <1>a, <2>1, <2>2, <2>3, <2>4 DEF CallsOK
    <3>2. options'.mode \in Modes
      BY <2>1 DEF DEFAULT_DOWNLOAD_OPTIONS, Modes
    <3>3. QED
      BY <1>a, <2>1, <2>3, <3>1, <3>2 DEF CallsOK
  <2>6. Loading'
    BY <2>1, <2>2, <2>3 DEF Loading
  <2>7. LoadIsLast'
    BY <1>a, <2>1, <2>3, <2>4 DEF LoadIsLast, CallsOK
  <2>8. QED
    BY <2>5, <2>6, <2>7 DEF StorageInv, Kept
<1>2. CASE Close
  BY <1>2, KeepsCalls DEF Close
<1>3. CASE Loaded
  <2>1. /\ queue # <<>> /\ Head(queue).call = "load" /\ queue' = Tail(queue)
        /\ UNCHANGED <<opens, open, stored, early>>
    BY <1>3 DEF Loaded
  <2>2. /\ queue' \in Seq(Calls) /\ Len(queue') = Len(queue) - 1
        /\ \A i \in DOMAIN queue' : queue'[i] = queue[i + 1] /\ i + 1 \in DOMAIN queue
        /\ Head(queue) = queue[1] /\ 1 \in DOMAIN queue
        /\ DOMAIN queue = 1..Len(queue) /\ DOMAIN queue' = 1..Len(queue')
    BY <1>a, <2>1 DEF CallsOK
  <2>3. CASE open /\ Head(queue).opened = opens
    <3>1. \/ options' = [url |-> NoText, mode |-> stored] /\ faults' = faults
          \/ options' = DEFAULT_DOWNLOAD_OPTIONS /\ faults' = faults + 1
      BY <1>3, <2>3, RenderMode DEF Loaded
    <3>2. CallsOK'
      BY <1>a, <2>1, <2>2, <3>1 DEF CallsOK, DEFAULT_DOWNLOAD_OPTIONS, Modes
    <3>3. SUFFICES ASSUME faults' = 0, ~early PROVE ~Loading' /\ OnlySaves'
      BY <2>1, <3>2 DEF StorageInv, Kept
    <3>4. LoadIsLast
      BY <1>0, <1>a, <2>1, <2>2, <2>3, <3>1, <3>3 DEF Kept, Loading
    <3>5. Len(queue) = 1
      BY <2>1, <2>2, <2>3, <3>4 DEF LoadIsLast
    <3>6. queue' = <<>>
      BY <1>a, <2>2, <3>5 DEF CallsOK
    <3>7. options'.mode = stored
      BY <1>0, <3>1, <3>3
    <3>8. QED
      BY <2>1, <3>6, <3>7 DEF Loading, OnlySaves
  <2>4. CASE ~(open /\ Head(queue).opened = opens)
    <3>1. UNCHANGED <<options, faults>>
      BY <1>3, <2>4 DEF Loaded
    <3>2. CallsOK'
      BY <1>a, <2>1, <2>2, <3>1 DEF CallsOK
    <3>3. SUFFICES ASSUME open, faults = 0, ~early
                   PROVE  Loading' /\ LoadIsLast'
      BY <2>1, <3>1, <3>2 DEF StorageInv, Kept
    <3>4. Loading /\ LoadIsLast
      BY <1>a, <2>1, <2>2, <3>3 DEF Kept, OnlySaves
    <3>5. PICK i \in DOMAIN queue : queue[i].call = "load" /\ queue[i].opened = opens
      BY <3>4 DEF Loading
    <3>6. i # 1
      BY <2>2, <2>4, <3>3, <3>5
    <3>7. i - 1 \in DOMAIN queue' /\ queue'[i - 1] = queue[i]
      BY <2>2, <3>5, <3>6
    <3>8. Loading'
      BY <2>1, <3>5, <3>7 DEF Loading
    <3>9. LoadIsLast'
      BY <2>1, <2>2, <3>4 DEF LoadIsLast
    <3>10. QED
      BY <3>8, <3>9
  <2>5. QED
    BY <2>3, <2>4
<1>4. CASE Saved
  <2>1. /\ queue # <<>> /\ Head(queue).call = "save" /\ queue' = Tail(queue)
        /\ stored' = Head(queue).mode
        /\ UNCHANGED <<opens, open, options, faults, early>>
    BY <1>4 DEF Saved
  <2>2. /\ queue' \in Seq(Calls) /\ Len(queue') = Len(queue) - 1
        /\ \A i \in DOMAIN queue' : queue'[i] = queue[i + 1] /\ i + 1 \in DOMAIN queue
        /\ Head(queue) = queue[1] /\ 1 \in DOMAIN queue
        /\ DOMAIN queue = 1..Len(queue) /\ DOMAIN queue' = 1..Len(queue')
        /\ Head(queue) \in Calls
    BY <1>a, <2>1 DEF CallsOK
  <2>3. stored' \in Modes
    BY <2>1, <2>2 DEF Calls
  <2>4. CallsOK'
    BY <1>a, <2>1, <2>2, <2>3 DEF CallsOK
  <2>5. ASSUME Loading PROVE Loading'
    <3>1. PICK i \in DOMAIN queue : queue[i].call = "load" /\ queue[i].opened = opens
      BY <2>5 DEF Loading
    <3>2. i # 1
      BY <2>1, <2>2, <3>1
    <3>3. i - 1 \in DOMAIN queue' /\ queue'[i - 1] = queue[i]
      BY <2>2, <3>1, <3>2
    <3>4. QED
      BY <2>1, <3>1, <3>3 DEF Loading
  <2>6. ASSUME LoadIsLast PROVE LoadIsLast'
    BY <2>1, <2>2, <2>6 DEF LoadIsLast
  <2>7. ASSUME OnlySaves PROVE OnlySaves' /\ ~Loading'
    <3>1. \A i \in DOMAIN queue' : queue'[i].call = "save"
      BY <2>2, <2>7 DEF OnlySaves
    <3>2. ASSUME queue' = <<>> PROVE stored' = options'.mode
      <4>1. Len(queue) = 1
        BY <2>2, <3>2
      <4>2. QED
        BY <2>1, <2>2, <2>7, <4>1 DEF OnlySaves
    <3>3. ASSUME queue' # <<>> PROVE queue'[Len(queue')].mode = options'.mode
      <4>1. Len(queue') \in DOMAIN queue'
        BY <2>2, <3>3
      <4>2. queue'[Len(queue')] = queue[Len(queue)]
        BY <2>2, <4>1
      <4>3. QED
        BY <2>1, <2>7, <4>2 DEF OnlySaves
    <3>4. QED
      BY <3>1, <3>2, <3>3 DEF OnlySaves, Loading
  <2>8. QED
    BY <1>a, <2>1, <2>4, <2>5, <2>6, <2>7 DEF StorageInv, Kept
<1>5. CASE SaveFails
  <2>1. /\ queue # <<>> /\ queue' = Tail(queue) /\ faults' = faults + 1
        /\ UNCHANGED <<opens, open, options, stored, early>>
    BY <1>5 DEF SaveFails
  <2>2. /\ queue' \in Seq(Calls)
        /\ \A i \in DOMAIN queue' : queue'[i] = queue[i + 1] /\ i + 1 \in DOMAIN queue
    BY <1>a, <2>1 DEF CallsOK
  <2>3. CallsOK'
    BY <1>a, <2>1, <2>2 DEF CallsOK
  <2>4. faults' # 0
    BY <1>0, <2>1
  <2>5. QED
    BY <2>3, <2>4 DEF StorageInv, Kept
<1>6. ASSUME NEW u, TypeUrl(u) PROVE StorageInv'
  <2>1. options' = [options EXCEPT !.url = u]
    BY <1>6, RenderMode DEF TypeUrl
  <2>2. options'.mode = options.mode
    BY <1>0, <2>1 DEF IsOptions
  <2>3. QED
    BY <1>6, <2>2, KeepsCalls DEF TypeUrl
<1>7. ASSUME NEW mode \in Modes, ChangeMode(mode) PROVE StorageInv'
  <2> DEFINE c == [call |-> "save", opened |-> opens, mode |-> mode]
  <2>1. /\ queue' = Append(queue, c) /\ early' = (early \/ Loading)
        /\ options' = [options EXCEPT !.mode = mode]
        /\ UNCHANGED <<opens, open, stored, faults>>
    BY <1>7, RenderMode DEF ChangeMode
  <2>2. c \in Calls /\ c.opened = opens /\ c.call = "save" /\ c.mode = mode
    BY <1>a DEF Calls, CallsOK
  <2>3. options'.mode = mode
    BY <1>0, <2>1 DEF IsOptions
  <2>4. /\ queue' \in Seq(Calls) /\ Len(queue') = Len(queue) + 1
        /\ \A i \in DOMAIN queue : queue'[i] = queue[i]
        /\ queue'[Len(queue')] = c
        /\ DOMAIN queue' = DOMAIN queue \cup {Len(queue')}
        /\ queue' # <<>>
    BY <1>a, <2>1, <2>2 DEF CallsOK
  <2>5. CallsOK'
    BY <1>a, <2>1, <2>2, <2>3, <2>4 DEF CallsOK, Loading
  <2>6. SUFFICES ASSUME open, faults = 0, ~early, ~Loading
                 PROVE  ~Loading' /\ OnlySaves'
    BY <2>1, <2>5 DEF StorageInv, Kept
  <2>7. OnlySaves
    BY <1>a, <2>6 DEF Kept
  <2>8. \A i \in DOMAIN queue' : queue'[i].call = "save"
    BY <2>2, <2>4, <2>7 DEF OnlySaves
  <2>9. QED
    BY <2>2, <2>3, <2>4, <2>8 DEF OnlySaves, Loading
<1>8. CASE Import
  BY <1>8, KeepsCalls DEF Import
<1>9. CASE ReturnToForm
  BY <1>9, RenderMode, KeepsCalls DEF ReturnToForm
<1>10. ASSUME NEW n \in Submits, Submit(n) PROVE StorageInv'
  BY <1>10, KeepsCalls DEF Submit
<1>11. ASSUME NEW u, Imported(u) PROVE StorageInv'
  <2>1. \/ options' = [options EXCEPT !.url = NormalizeSourceUrl(u)]
        \/ options' = options
    BY <1>11, RenderMode DEF Imported
  <2>2. options'.mode = options.mode
    BY <1>0, <2>1 DEF IsOptions
  <2>3. QED
    BY <1>11, <2>2, KeepsCalls DEF Imported
<1>12. ASSUME NEW n \in Submits, HealthOk(n) PROVE StorageInv'
  BY <1>12, KeepsCalls DEF HealthOk
<1>13. ASSUME NEW n \in Submits, Started(n) PROVE StorageInv'
  BY <1>13, RenderMode, KeepsCalls DEF Started
<1>14. ASSUME NEW n \in Submits, SubmitFails(n) PROVE StorageInv'
  BY <1>14, RenderMode, KeepsCalls DEF SubmitFails
<1>15. CASE UNCHANGED vars
  BY <1>15, KeepsCalls DEF vars
<1>16. QED
  BY <1>1, <1>2, <1>3, <1>4, <1>5, <1>6, <1>7, <1>8, <1>9, <1>10, <1>11, <1>12,
     <1>13, <1>14, <1>15 DEF Next, User, Storage, Answer

-----------------------------------------------------------------------------
(* The theorems.                                                           *)

\* The processing screen, which has no way out, and the form that is shut
\* belong to a submit that is under way, whatever answers come in between.
THEOREM BusyEnds == Spec => []BusyIsUnderWay
<1>1. IInv => BusyIsUnderWay
  BY ViewFacts DEF IInv, Busy, BusyIsUnderWay
<1>2. QED
  BY <1>1, InvInit, InvStep, PTL DEF Spec

\* One download is started at a time, by however many clicks, unless a save that
\* fails covers a submit under way.
THEOREM OneSubmit == Spec => []OneSubmitAtATime
<1>1. IInv => OneSubmitAtATime
  <2> SUFFICES ASSUME IInv, ~covered PROVE Cardinality(UnderWay) <= 1
    <3>1. Cardinality(UnderWay) \in Nat
      <4>1. IsFiniteSet(Submits)
        BY PopupAssumption, FS_Interval DEF Submits
      <4>2. QED
        BY <4>1, FS_Subset, FS_CardinalityType DEF UnderWay
    <3>2. QED
      BY <3>1 DEF OneSubmitAtATime, IInv, ValuesOK
  <2>1. CASE UnderWay = {}
    <3>1. Cardinality({}) = 0
      BY FS_EmptySet
    <3>2. Cardinality(UnderWay) = 0
      BY <2>1, <3>1, Zenon
    <3>3. QED
      BY <3>2
  <2>2. ASSUME NEW n \in UnderWay PROVE Cardinality(UnderWay) <= 1
    <3>1. UnderWay = {n}
      BY <2>2 DEF IInv, Alone
    <3>2. Cardinality({n}) = 1
      BY FS_Singleton
    <3>3. Cardinality(UnderWay) = 1
      BY <3>1, <3>2, Zenon
    <3>4. QED
      BY <3>3
  <2>3. QED
    BY <2>1, <2>2
<1>2. QED
  BY <1>1, InvInit, InvStep, PTL DEF Spec

\* What the popup takes for a source URL, the API reads the same video from.
LEMMA PopupAndApiAgree ==
  ASSUME NEW u, NormalizeSourceUrl(u) # NotAUrl
  PROVE  /\ ParseYoutubeVideoId(NormalizeSourceUrl(u)) = u.id
         /\ CreateUrlMediaSource(NormalizeSourceUrl(u)) = NormalizeSourceUrl(u)
<1>1. GetYoutubeVideoId(u) # "none"
  BY DEF NormalizeSourceUrl
<1>2. u.scheme \in HttpProtocols /\ u.id \in VideoIds
  BY <1>1 DEF GetYoutubeVideoId, IdOrNone
<1>3. CASE u.host \in YoutubeHosts /\ u.path = "/watch?v=id"
  <2>1. NormalizeSourceUrl(u) = u
    BY <1>1, <1>3 DEF NormalizeSourceUrl
  <2>2. ParseYoutubeVideoId(u) = u.id /\ CreateUrlMediaSource(u) = u
    BY <1>2, <1>3 DEF ParseYoutubeVideoId, IdOrNone, CreateUrlMediaSource
  <2>3. QED
    BY <2>1, <2>2, Zenon
<1>4. CASE ~(u.host \in YoutubeHosts /\ u.path = "/watch?v=id")
  <2> DEFINE c == CreateCanonicalYoutubeUrl(u.id)
  <2>1. NormalizeSourceUrl(u) = c
    BY <1>1, <1>4 DEF NormalizeSourceUrl
  <2>2. ParseYoutubeVideoId(c) = u.id /\ CreateUrlMediaSource(c) = c
    BY <1>2 DEF CreateCanonicalYoutubeUrl, Url, ParseYoutubeVideoId, IdOrNone,
                YoutubeHosts, CreateUrlMediaSource, HttpProtocols
  <2>3. QED
    BY <2>1, <2>2, Zenon
<1>5. QED
  BY <1>3, <1>4

\* However late the answers come and whatever is typed meanwhile, Chrome is
\* asked for the video and with the options of the click.
THEOREM ClickIsKept == Spec => []StartsWhatWasClicked
<1>1. IInv => StartsWhatWasClicked
  <2> SUFFICES ASSUME IInv, NEW n \in Submits, flight[n] = "start"
               PROVE  /\ sent[n].mode = submitted[n].mode
                      /\ ParseYoutubeVideoId(sent[n].url) = submitted[n].url.id
                      /\ CreateUrlMediaSource(sent[n].url) = sent[n].url
    BY DEF StartsWhatWasClicked
  <2>1. sent[n] = [url |-> NormalizeSourceUrl(submitted[n].url),
                   mode |-> submitted[n].mode]
    BY DEF IInv, Clicked
  <2>2. /\ sent[n].mode = submitted[n].mode
        /\ sent[n].url = NormalizeSourceUrl(submitted[n].url)
    BY <2>1
  <2>3. NormalizeSourceUrl(submitted[n].url) # NotAUrl
    BY DEF IInv, Clicked, UnderWay, Ready
  <2>4. QED
    BY <2>2, <2>3, PopupAndApiAgree, Zenon
<1>2. QED
  BY <1>1, InvInit, InvStep, PTL DEF Spec

\* The popup that is opened next finds what the last one showed, even when it
\* is opened while saves of the last one are still under way.
THEOREM OptionsAreKept == Spec => []StoredAsShown
<1>1. StorageInv => StoredAsShown
  BY DEF StorageInv, Kept, OnlySaves, Loading, StoredAsShown
<1>2. QED
  BY <1>1, InvInit, InvStep, StorageInit, StorageStep, PTL DEF Spec
=============================================================================

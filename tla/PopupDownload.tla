---------------------------- MODULE PopupDownload ----------------------------
(***************************************************************************)
(* The popup of the Chrome extension                                       *)
(* (apps/chrome-extension/src/features/popup-download/                     *)
(* popup-download-model.ts and app/popup-app.tsx): one snapshot that is    *)
(* written by what the user does and by the answers of chrome.storage,     *)
(* chrome.tabs, the API's /health and chrome.downloads, in any order.  The *)
(* user may close the popup and open it again at any time: its promises    *)
(* are then forgotten, what Chrome was asked for is still done.            *)
(*                                                                         *)
(* chrome.storage does its calls in the order in which they were made.     *)
(* Of the options that are stored the mode stands for all: file name and   *)
(* number fields take the same way.                                        *)
(***************************************************************************)
EXTENDS Integers, Sequences, FiniteSets, RequestRules

CONSTANTS
  Sources,       \* URLs that are typed or are those of the current tab
  MaxSubmits,    \* bound on submits
  MaxOpens,      \* bound on how often the popup is opened
  MaxQueue,      \* bound on calls to chrome.storage under way
  MaxImports,    \* bound on queries of the current tab under way
  MaxFaults      \* bound on calls to chrome.storage that fail

ASSUME PopupAssumption ==
  /\ MaxSubmits \in Nat /\ MaxOpens \in Nat
  /\ MaxQueue \in Nat \ {0} /\ MaxImports \in Nat /\ MaxFaults \in Nat

Submits == 1..MaxSubmits
Modes == {"audio", "video"}

DEFAULT_DOWNLOAD_OPTIONS == [url |-> NoText, mode |-> "audio"]

VARIABLES
  opens,       \* how often the popup was opened
  open,        \* it is open
  options, status, canDownload, downloading,      \* the snapshot
  stored,      \* mode in chrome.storage
  queue,       \* calls to chrome.storage under way
  importing,   \* number of queries of the current tab under way
  flight,      \* flight[n]: where the n-th submit is
  submitted,   \* submitted[n]: the options it was made with
  sent,        \* sent[n]: the query of the download it asks Chrome for
  early,       \* an option was changed before the stored ones were loaded
  covered,     \* a save that failed put the error screen over a submit
  faults       \* calls to chrome.storage that failed

snapshotVars == <<options, status, canDownload, downloading>>
storageVars == <<stored, queue, faults>>
submitVars == <<flight, submitted, sent>>
history == <<early, covered>>   \* of the popup that is open
vars == <<opens, open, snapshotVars, storageVars, importing, submitVars, history>>

Init ==
  /\ opens = 0 /\ open = FALSE
  /\ options = DEFAULT_DOWNLOAD_OPTIONS
  /\ status = "missing-source-url"
  /\ canDownload = FALSE /\ downloading = FALSE
  /\ stored = "audio"
  /\ queue = <<>>
  /\ importing = 0
  /\ flight = [n \in Submits |-> "none"]
  /\ submitted = [n \in Submits |-> DEFAULT_DOWNLOAD_OPTIONS]
  /\ sent = [n \in Submits |-> DEFAULT_DOWNLOAD_OPTIONS]
  /\ early = FALSE /\ covered = FALSE
  /\ faults = 0

-----------------------------------------------------------------------------
(* The snapshot.                                                           *)

UnderWay == {n \in Submits : flight[n] \in {"health", "start"}}

\* renderReadyState, and the status that the caller puts over it.
Render(newOptions, busy, over) ==
  LET ready == NormalizeSourceUrl(newOptions.url) # NotAUrl
  IN  /\ options' = newOptions
      /\ downloading' = busy
      /\ canDownload' = (ready /\ ~busy)
      /\ status' = IF over # "none" THEN over
                   ELSE IF newOptions.url = NoText THEN "missing-source-url"
                   ELSE IF ready THEN "ready" ELSE "invalid-source-url"

\* getPopupViewPhase.
View == CASE status = "checking-server"  -> "processing"
          [] status = "download-started" -> "result"
          [] status = "download-failed"  -> "error"
          [] OTHER                       -> "request"

\* Nothing remains of these submits.
End(ns) ==
  /\ flight' = [n \in Submits |-> IF n \in ns THEN "ended" ELSE flight[n]]
  /\ submitted' = [n \in Submits |-> IF n \in ns THEN DEFAULT_DOWNLOAD_OPTIONS
                                                 ELSE submitted[n]]
  /\ sent' = [n \in Submits |-> IF n \in ns THEN DEFAULT_DOWNLOAD_OPTIONS
                                            ELSE sent[n]]

\* initialize of the popup that is open waits for loadOptions.
Loading ==
  \E i \in DOMAIN queue : queue[i].call = "load" /\ queue[i].opened = opens

-----------------------------------------------------------------------------
(* Opening and closing.                                                    *)

\* The effect of PopupApp: initialize, which waits for loadOptions.
Open ==
  /\ ~open /\ opens < MaxOpens /\ Len(queue) < MaxQueue
  /\ open' = TRUE /\ opens' = opens + 1
  /\ options' = DEFAULT_DOWNLOAD_OPTIONS
  /\ status' = "missing-source-url"
  /\ canDownload' = FALSE /\ downloading' = FALSE
  /\ queue' = Append(queue, [call |-> "load", opened |-> opens + 1])
  /\ early' = FALSE /\ covered' = FALSE
  /\ UNCHANGED <<stored, faults, importing, submitVars>>

\* Chrome starts a download it was asked for, or does not; nobody is told.
\* The calls to chrome.storage are done all the same.
Close ==
  /\ open /\ open' = FALSE
  /\ importing' = 0
  /\ End(UnderWay)
  /\ UNCHANGED <<opens, snapshotVars, storageVars, history>>

-----------------------------------------------------------------------------
(* chrome.storage.                                                         *)

\* initialize goes on: the options are replaced, and with them whatever was
\* typed in the meantime.  A load that fails counts as empty.  A popup that was
\* closed since gets no answer.
Loaded ==
  /\ queue # <<>> /\ Head(queue).call = "load"
  /\ queue' = Tail(queue)
  /\ IF open /\ Head(queue).opened = opens
     THEN \/ /\ Render([url |-> NoText, mode |-> stored], downloading, "none")
             /\ UNCHANGED faults
          \/ /\ faults < MaxFaults /\ faults' = faults + 1
             /\ Render(DEFAULT_DOWNLOAD_OPTIONS, downloading, "none")
     ELSE UNCHANGED <<snapshotVars, faults>>
  /\ UNCHANGED <<opens, open, stored, importing, submitVars, history>>

Saved ==
  /\ queue # <<>> /\ Head(queue).call = "save"
  /\ queue' = Tail(queue)
  /\ stored' = Head(queue).mode
  /\ UNCHANGED <<opens, open, snapshotVars, faults, importing, submitVars, history>>

\* The popup that made the call shows it as a failed download, whatever it is
\* doing.
SaveFails ==
  /\ queue # <<>> /\ Head(queue).call = "save"
  /\ queue' = Tail(queue)
  /\ faults < MaxFaults /\ faults' = faults + 1
  /\ IF open /\ Head(queue).opened = opens
     THEN /\ status' = "download-failed"
          /\ covered' = (covered \/ UnderWay # {})
     ELSE UNCHANGED <<status, covered>>
  /\ UNCHANGED <<opens, open, options, canDownload, downloading, stored,
                 importing, submitVars, early>>

-----------------------------------------------------------------------------
(* The request form.                                                       *)

OnForm == open /\ View = "request"

TypeUrl(u) ==
  /\ OnForm
  /\ Render([options EXCEPT !.url = u], downloading, "none")
  /\ UNCHANGED <<opens, open, storageVars, importing, submitVars, history>>

ChangeModeMutantOldSaved(mode) ==
  /\ OnForm /\ Len(queue) < MaxQueue
  /\ Render([options EXCEPT !.mode = mode], downloading, "none")
  /\ queue' = Append(queue, [call |-> "save", opened |-> opens,
                             mode |-> options.mode])
  /\ early' = (early \/ Loading)
  /\ UNCHANGED <<opens, open, stored, faults, importing, submitVars, covered>>

\* updateOption of an option that is stored.
ChangeMode(mode) ==
  /\ OnForm /\ Len(queue) < MaxQueue
  /\ Render([options EXCEPT !.mode = mode], downloading, "none")
  /\ queue' = Append(queue, [call |-> "save", opened |-> opens, mode |-> mode])
  /\ early' = (early \/ Loading)
  /\ UNCHANGED <<opens, open, stored, faults, importing, submitVars, covered>>

\* The button is disabled while downloading, but not while the tab is being
\* queried: several queries may be under way.
Import ==
  /\ OnForm /\ ~downloading
  /\ importing < MaxImports /\ importing' = importing + 1
  /\ UNCHANGED <<opens, open, snapshotVars, storageVars, submitVars, history>>

\* importCurrentTabUrl goes on, on whatever screen.  A tab without a
\* supported URL, or none: the input stays.
Imported(u) ==
  /\ importing > 0 /\ importing' = importing - 1
  /\ IF NormalizeSourceUrl(u) # NotAUrl
     THEN Render([options EXCEPT !.url = NormalizeSourceUrl(u)], downloading,
                 "none")
     ELSE Render(options, downloading, "invalid-source-url")
  /\ UNCHANGED <<opens, open, storageVars, submitVars, history>>

\* Result and error screen have this button.
ReturnToForm ==
  /\ open /\ View \in {"result", "error"}
  /\ Render(options, FALSE, "none")
  /\ UNCHANGED <<opens, open, storageVars, importing, submitVars, history>>

-----------------------------------------------------------------------------
(* submitDownload.                                                         *)

SubmitMutantGuardDropped(n) ==
  /\ OnForm /\ NormalizeSourceUrl(options.url) # NotAUrl
  /\ flight[n] = "none" /\ \A m \in 1..(n - 1) : flight[m] # "none"
  /\ flight' = [flight EXCEPT ![n] = "health"]
  /\ submitted' = [submitted EXCEPT ![n] = options]
  /\ canDownload' = FALSE /\ downloading' = TRUE
  /\ status' = "checking-server"
  /\ UNCHANGED <<opens, open, options, storageVars, importing, sent, history>>

Submit(n) ==
  /\ OnForm /\ canDownload /\ ~downloading
  /\ flight[n] = "none" /\ \A m \in 1..(n - 1) : flight[m] # "none"
  /\ flight' = [flight EXCEPT ![n] = "health"]
  /\ submitted' = [submitted EXCEPT ![n] = options]
  /\ canDownload' = FALSE /\ downloading' = TRUE
  /\ status' = "checking-server"
  /\ UNCHANGED <<opens, open, options, storageVars, importing, sent, history>>

HealthOkMutantCurrentOptions(n) ==
  /\ flight[n] = "health"
  /\ flight' = [flight EXCEPT ![n] = "start"]
  /\ sent' = [sent EXCEPT ![n] =
                [options EXCEPT !.url = NormalizeSourceUrl(options.url)]]
  /\ UNCHANGED <<opens, open, snapshotVars, storageVars, importing, submitted,
                 history>>

\* assertServerAvailable, buildDownloadUrl, and the call of Chrome.
HealthOk(n) ==
  /\ flight[n] = "health"
  /\ flight' = [flight EXCEPT ![n] = "start"]
  /\ sent' = [sent EXCEPT ![n] =
                [submitted[n] EXCEPT !.url = NormalizeSourceUrl(submitted[n].url)]]
  /\ UNCHANGED <<opens, open, snapshotVars, storageVars, importing, submitted,
                 history>>

Started(n) ==
  /\ flight[n] = "start"
  /\ End({n})
  /\ Render(options, FALSE, "download-started")
  /\ UNCHANGED <<opens, open, storageVars, importing, history>>

SubmitFailsMutantStillBusy(n) ==
  /\ n \in UnderWay
  /\ End({n})
  /\ Render(options, downloading, "download-failed")
  /\ UNCHANGED <<opens, open, storageVars, importing, history>>

\* The server is not available, or Chrome does not start the download.
SubmitFails(n) ==
  /\ n \in UnderWay
  /\ End({n})
  /\ Render(options, FALSE, "download-failed")
  /\ UNCHANGED <<opens, open, storageVars, importing, history>>

-----------------------------------------------------------------------------
User ==
  \/ Open \/ Close
  \/ \E u \in Sources \cup {NoText, NotAUrl} : TypeUrl(u)
  \/ \E mode \in Modes : ChangeMode(mode)
  \/ Import \/ ReturnToForm
  \/ \E n \in Submits : Submit(n)

Storage == Loaded \/ Saved \/ SaveFails

Answer(n) == HealthOk(n) \/ Started(n) \/ SubmitFails(n)

Next ==
  \/ User \/ Storage
  \/ \E u \in Sources \cup {NotAUrl} : Imported(u)
  \/ \E n \in Submits : Answer(n)

Spec == Init /\ [][Next]_vars

-----------------------------------------------------------------------------
(* Properties.                                                             *)

\* current-implementation-fsd.md promises that a download that is being
\* started is not started again.  It holds but for one case: a save that fails
\* while a submit is under way shows the error screen over it, and the button
\* of that screen makes the form ready again.
OneSubmitAtATime == Cardinality(UnderWay) > 1 => covered

\* The processing screen, which has no button, and the form that is closed by
\* downloading stay only while a submit is under way that will end them.
BusyIsUnderWay ==
  open /\ (downloading \/ View = "processing") => UnderWay # {}

\* Chrome is asked for the video and with the options that were on the form
\* at the click, although late answers change the form meanwhile; and
\* the API takes its URL for that video.
StartsWhatWasClicked ==
  \A n \in Submits :
    flight[n] = "start" =>
      /\ sent[n].mode = submitted[n].mode
      /\ ParseYoutubeVideoId(sent[n].url) = submitted[n].url.id
      /\ CreateUrlMediaSource(sent[n].url) = sent[n].url

\* When storage is quiet it has what the form shows, also across popups,
\* unless a call failed or the load came after the first change.
StoredAsShown ==
  open /\ queue = <<>> /\ faults = 0 /\ ~early => stored = options.mode
=============================================================================

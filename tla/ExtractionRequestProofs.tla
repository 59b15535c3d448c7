------------------------ MODULE ExtractionRequestProofs ------------------------
(***************************************************************************)
(* What the runner and its retry promise, for any number of attempts, and  *)
(* what the request around it does, for any timing of the heartbeat, any   *)
(* limit of the size and any number of crashes.                            *)
(*                                                                         *)
(* An attempt is repeated only for a reason that its child reported by     *)
(* exiting, so no child is left when the next one begins; and as Retry     *)
(* removes the file, what a child finds in the directory is its own.       *)
(*                                                                         *)
(* A request moves the runner by the runner's steps or sets it up anew,    *)
(* and the heartbeat by the heartbeat's steps (RunnerMoves, BeatMoves), so *)
(* what is proved of the two holds for it too.                             *)
(***************************************************************************)
EXTENDS ExtractionRequest, HeartbeatProofs

\* The values the argument needs to know; attempts are not counted in it.
ValuesOK ==
  /\ pc \in {"try", "await", "done", "failed"}
  /\ promise \in {"pending", "resolved"} \cup Rejections
  /\ child \in {"none", "spawned", "killing", "exited", "failed"}
  /\ output \in {"absent", "partial", "leftover", "complete"}

\* A caller waits for a pending promise, and a promise that is settled says
\* something about the child.
SettledByExit ==
  /\ promise = "pending" => pc \in {"try", "await"}
  /\ pc = "done" => promise = "resolved"
  /\ promise \in {"resolved", "exit-code", "output-missing"}
       => child \notin Running
  /\ stat => child = "exited"

\* What the place of the caller and the child say about the directory.
DirMatches ==
  /\ pc # "failed" => workDir
  /\ pc = "try" => output = "absent" /\ promise # "resolved"
  /\ pc = "await" /\ child = "exited" => output \in {"absent", "complete"}
  /\ pc = "await" /\ child \in Running => output \in {"absent", "partial"}
  /\ pc = "failed" => promise # "resolved"
  /\ promise = "resolved" => child = "exited" /\ output = "complete"

IInv == ValuesOK /\ SettledByExit /\ OneChildPerDir /\ DirMatches

LEMMA InvInit == Init => IInv
  BY DEF Init, IInv, ValuesOK, SettledByExit, OneChildPerDir, DirMatches, Running,
         Rejections

\* The second attempt is for a reason that only an ended child can give.
LEMMA RetryableMeansExited ==
  ASSUME NEW reason \in Rejections, Retryable(reason)
  PROVE  reason \in {"exit-code", "output-missing"}
  BY DEF Rejections, Retryable

LEMMA InvStep == IInv /\ [Next]_vars => IInv'
<1> SUFFICES ASSUME IInv, [Next]_vars PROVE IInv'
  OBVIOUS
<1> USE DEF IInv, ValuesOK, SettledByExit, OneChildPerDir, DirMatches, Running,
        Rejections, childVars, dirVars
<1>1. CASE Run
  BY <1>1 DEF Run
<1>2. CASE Succeed
  BY <1>2 DEF Succeed
<1>3. CASE Retry
  BY <1>3, RetryableMeansExited DEF Retry
<1>4. CASE GiveUp
  BY <1>4 DEF GiveUp
<1>5. CASE OnError
  BY <1>5 DEF OnError, Settle
<1>6. CASE OnStat
  <2>1. child = "exited"
    BY <1>6 DEF OnStat
  <2>2. promise' \in {promise, "output-missing", "resolved"}
    BY <1>6 DEF OnStat, Settle
  <2>4. UNCHANGED <<pc, child, workDir, output>> /\ stat' = FALSE
    BY <1>6 DEF OnStat
  <2>5. promise' = "resolved" => output \in {"complete"}
    <3>1. promise = "pending" /\ promise' = "resolved" =>
            output \in {"absent", "complete"} /\ output # "absent"
      BY <2>1, <1>6 DEF OnStat, Settle
    <3>2. promise # "pending" => promise' = promise
      BY <1>6 DEF OnStat, Settle
    <3>3. QED
      BY <3>1, <3>2
  <2>6. ValuesOK'
    BY <2>2, <2>4
  <2>7. SettledByExit'
    BY <2>1, <2>2, <2>4, <1>6 DEF OnStat, Settle
  <2>8. OneChildPerDir'
    BY <2>4
  <2>9. DirMatches'
    BY <2>1, <2>2, <2>4, <2>5, <1>6 DEF OnStat, Settle
  <2>10. QED
    BY <2>6, <2>7, <2>8, <2>9
<1>7. ASSUME NEW reason \in {"exit-code", "killed", "youtube-auth-required"},
             OnClose(reason)
      PROVE  IInv'
  BY <1>7 DEF OnClose, Settle
<1>8. CASE OnAbort
  BY <1>8 DEF OnAbort, Settle
<1>9. CASE Write
  BY <1>9 DEF Write
<1>10. CASE ExitOk
  BY <1>10 DEF ExitOk
<1>11. CASE ExitBad
  BY <1>11 DEF ExitBad
<1>12. CASE UNCHANGED vars
  BY <1>12 DEF vars
<1>13. QED
  BY <1>1, <1>2, <1>3, <1>4, <1>5, <1>6, <1>7, <1>8, <1>9, <1>10, <1>11, <1>12
     DEF Next, CallerNext, Events, Exit

-----------------------------------------------------------------------------
(* The runner.                                                             *)

\* Two children never write to one work directory, for any number of attempts
\* (download-job.ts, the loop of downloadExtractionJob).
THEOREM AttemptsDoNotOverlap == Spec => []OneChildPerDir
<1>1. QED
  BY InvInit, InvStep, PTL DEF Spec, IInv

\* A finished extraction has a file that yt-dlp completed in its last attempt
\* (youtube-dl-runner.ts, settleAfterClose; download-job.ts, rm of the output).
THEOREM FinishedFileIsWhole == Spec => []SuccessHasWholeFile
<1>1. IInv => SuccessHasWholeFile
  BY DEF IInv, SettledByExit, DirMatches, SuccessHasWholeFile
<1>2. QED
  BY <1>1, InvInit, InvStep, PTL DEF Spec

-----------------------------------------------------------------------------
(* The request moves the runner and the heartbeat by their own steps.      *)

LEMMA RunnerMoves == [RequestNext]_allVars => [Next]_vars \/ FreshRunner
<1> SUFFICES ASSUME [RequestNext]_allVars PROVE [Next]_vars \/ FreshRunner
  OBVIOUS
<1>1. CASE Form
  BY <1>1 DEF Form, ChangeUrl, ChangeMode, ChangeQuality, FormStays, Submit,
              CheckHealth, Create
<1>2. CASE Direct \/ Crash
  BY <1>2 DEF Direct, Crash
<1>3. CASE Work
  BY <1>3 DEF Work, Restore, Claim, Preflight, Finish
<1>4. CASE Extract(Next)
  BY <1>4 DEF Extract
<1>5. CASE Life(StartWorker \/ BeatStep)
  BY <1>5 DEF Life
<1>6. CASE UNCHANGED allVars
  BY <1>6 DEF allVars
<1>7. QED
  BY <1>1, <1>2, <1>3, <1>4, <1>5, <1>6 DEF RequestNext

LEMMA BeatMoves == [RequestNext]_allVars => [BeatNext]_beatVars
<1> SUFFICES ASSUME [RequestNext]_allVars PROVE [BeatNext]_beatVars
  OBVIOUS
<1>1. CASE Form
  BY <1>1 DEF Form, ChangeUrl, ChangeMode, ChangeQuality, FormStays, Submit,
              CheckHealth, Create
<1>2. CASE Direct
  BY <1>2 DEF Direct
<1>3. CASE Crash
  BY <1>3 DEF Crash, BeatNext
<1>4. CASE Work
  BY <1>4 DEF Work, Restore, Claim, Preflight, Finish
<1>5. CASE Extract(Next)
  BY <1>5 DEF Extract
<1>6. CASE Life(StartWorker \/ BeatStep)
  BY <1>6 DEF Life, BeatNext
<1>7. CASE UNCHANGED allVars
  BY <1>7 DEF allVars
<1>8. QED
  BY <1>1, <1>2, <1>3, <1>4, <1>5, <1>6, <1>7 DEF RequestNext

LEMMA FreshRunnerIsSafe == FreshRunner => IInv'
  BY DEF FreshRunner, IInv, ValuesOK, SettledByExit, OneChildPerDir, DirMatches,
         Running

LEMMA RequestKeepsRunner == RequestSpec => []IInv
<1>1. RequestInit => IInv
  BY InvInit DEF RequestInit
<1>2. IInv /\ [RequestNext]_allVars => IInv'
  BY RunnerMoves, FreshRunnerIsSafe, InvStep
<1>3. QED
  BY <1>1, <1>2, PTL DEF RequestSpec

\* The work directory has one writer also when the worker dies, its job is
\* restored and claimed again, by whatever way the request came.
THEOREM RequestHasOneChild == RequestSpec => []OneChildPerDir
<1>1. IInv => OneChildPerDir
  BY DEF IInv
<1>2. QED
  BY <1>1, RequestKeepsRunner, PTL

\* What is handed to the upload or to the user is a file yt-dlp completed.
THEOREM RequestFileIsWhole == RequestSpec => []SuccessHasWholeFile
<1>1. IInv => SuccessHasWholeFile
  BY DEF IInv, SettledByExit, DirMatches, SuccessHasWholeFile
<1>2. QED
  BY <1>1, RequestKeepsRunner, PTL

\* A request is a behavior of the heartbeat: no form, job, retry or crash of
\* the worker disturbs it (main.ts starts the timer beside the loop).
THEOREM RequestImplementsHeartbeat == RequestSpec => BeatSpec
<1>1. RequestInit => BeatInit
  BY DEF RequestInit
<1>2. QED
  BY <1>1, BeatMoves, PTL DEF RequestSpec, BeatSpec

\* However busy the worker is, a worker that the form finds available has
\* run within the stale limit.
THEOREM RequestMeetsLiveWorker == RequestSpec => []AvailableMeansAlive
<1>1. QED
  BY RequestImplementsHeartbeat, DeadWorkerIsFound, PTL

\* However long an extraction takes, the worker that runs it is available.
THEOREM BusyWorkerIsAvailable == RequestSpec => []AliveIsAvailable
<1>1. QED
  BY RequestImplementsHeartbeat, LiveWorkerIsAvailable, PTL

-----------------------------------------------------------------------------
(* The form and the API.                                                   *)

\* The draft of the form: its quality is always one that is offered for its
\* mode, which the schema does not ask.
DraftOK ==
  /\ draft = [url |-> draft.url, mode |-> draft.mode, quality |-> draft.quality]
  /\ draft.mode \in {"audio", "video"}
  /\ draft.quality \in QualityOptions(draft.mode)

StageOK ==
  /\ stage \in {"form", "checking", "creating", "queued", "preflight", "run",
                "stuck", "extracted", "failed"}
  /\ stage = "extracted" => pc = "done"
  /\ type \in {"none", "audio", "video"} /\ crashes \in 0..MaxCrashes

RequestInv ==
  /\ DraftOK /\ StageOK
  /\ stage \in {"checking", "creating"} => ValidDraft(draft)
  /\ OnlyKnownSizesAreDownloaded

\* A URL that the form supports names the same video for the API.
LEMMA FormAndApiAgree ==
  ASSUME NEW d, ValidDraft(d), d.quality \in QualityOptions(d.mode)
  PROVE  /\ ParseYoutubeVideoId(d.url) = d.url.id /\ d.url.id \in VideoIds
         /\ ParseDownloadQuality(d.mode, d.quality) = d.quality
  BY DEF ValidDraft, IsSupportedYoutubeUrl, ParseYoutubeVideoId, IdOrNone,
         QualityOptions, ParseDownloadQuality

LEMMA ApiTakesDraft ==
  ASSUME NEW d, ValidDraft(d), d.quality \in QualityOptions(d.mode)
  PROVE  ParseYoutubeVideoId(d.url) # "none" /\ ParseDownloadQuality(d.mode, d.quality) # 0
  BY FormAndApiAgree DEF VideoIds, QualityOptions, AudioQualities, VideoQualities

\* The preflight lets a video pass whose formats are all of known size; then
\* the reported sizes are what it weighs, and it fits.
LEMMA PassedMeansKnownToFit ==
  ASSUME NEW selected, PreflightDecision(selected)
  PROVE  KnownToFit(selected)
<1> DEFINE sizes == [i \in DOMAIN selected |-> SizeOf(selected[i])]
<1>1. selected # <<>> /\ (\A i \in DOMAIN selected : sizes[i] # Null)
      /\ Total(sizes) <= MaxBytes
  BY DEF PreflightDecision
<1>2. SUFFICES ASSUME NEW bytes \in [DOMAIN selected -> 0..(MaxBytes + 1)],
                      \A i \in DOMAIN selected :
                        bytes[i] = IF selected[i].filesize \in Nat
                                   THEN selected[i].filesize
                                   ELSE IF selected[i].filesize_approx \in Nat
                                        THEN selected[i].filesize_approx
                                        ELSE bytes[i]
               PROVE  selected # <<>> /\ Total(bytes) <= MaxBytes
  BY DEF KnownToFit
<1>3. ASSUME NEW i \in DOMAIN selected PROVE bytes[i] = sizes[i]
  <2>1. SizeOf(selected[i]) # Null
    BY <1>1
  <2>2. CASE selected[i].filesize = Null
    <3>1. selected[i].filesize_approx \in Nat
          /\ SizeOf(selected[i]) = selected[i].filesize_approx
      BY <2>1, <2>2 DEF SizeOf
    <3>2. selected[i].filesize \notin Nat
      BY <2>2 DEF Null
    <3>3. QED
      BY <1>2, <3>1, <3>2
  <2>3. CASE selected[i].filesize # Null
    <3>1. selected[i].filesize \in Nat
          /\ SizeOf(selected[i]) = selected[i].filesize
      BY <2>1, <2>3 DEF SizeOf
    <3>2. QED
      BY <1>2, <3>1
  <2>4. QED
    BY <2>2, <2>3
<1>4. bytes = sizes
  BY <1>3
<1>5. QED
  BY <1>1, <1>4, Zenon

LEMMA RequestInvInit == RequestInit => RequestInv
<1>1. RequestInit => DraftOK
  BY DEF RequestInit, DraftOK, INITIAL_DOWNLOAD_DRAFT, QualityOptions,
         AudioQualities
<1>2. RequestInit => StageOK
  BY RequestAssumption DEF RequestInit, StageOK
<1>3. QED
  BY <1>1, <1>2 DEF RequestInit, RequestInv, OnlyKnownSizesAreDownloaded

\* Steps that leave the request where it is.
LEMMA RequestStays ==
  ASSUME RequestInv, UNCHANGED <<requestVars, caller>>,
         stage = "extracted" => pc' = pc
  PROVE  RequestInv'
  BY DEF RequestInv, DraftOK, StageOK, OnlyKnownSizesAreDownloaded, requestVars

\* The draft changes while the form is open.
LEMMA FormStep == RequestInv /\ Form => RequestInv'
<1> SUFFICES ASSUME RequestInv, Form PROVE RequestInv'
  OBVIOUS
<1> USE DEF RequestInv, vars, To
<1>1. ASSUME DraftOK', FormStays, stage = "form" PROVE RequestInv'
  BY <1>1 DEF FormStays, StageOK, OnlyKnownSizesAreDownloaded
<1>2. ASSUME NEW u, ChangeUrl(u) PROVE RequestInv'
  <2>1. DraftOK'
    BY <1>2 DEF ChangeUrl, DraftOK
  <2>2. QED
    BY <1>1, <1>2, <2>1 DEF ChangeUrl, OnForm
<1>3. ASSUME NEW quality, ChangeQuality(quality) PROVE RequestInv'
  <2>1. DraftOK'
    BY <1>3 DEF ChangeQuality, DraftOK
  <2>2. QED
    BY <1>1, <1>3, <2>1 DEF ChangeQuality, OnForm
<1>4. ASSUME NEW mode \in {"audio", "video"}, ChangeMode(mode) PROVE RequestInv'
  <2>1. GetDefaultDownloadQuality(mode) \in QualityOptions(mode)
    BY DEF GetDefaultDownloadQuality, QualityOptions, AudioQualities,
           VideoQualities
  <2>2. DraftOK'
    BY <1>4, <2>1 DEF ChangeMode, DraftOK
  <2>3. QED
    BY <1>1, <1>4, <2>2 DEF ChangeMode, OnForm
<1>5. CASE Submit
  BY <1>5 DEF Submit, StageOK, DraftOK, OnlyKnownSizesAreDownloaded
<1>6. CASE CheckHealth
  BY <1>6 DEF CheckHealth, StageOK, DraftOK, OnlyKnownSizesAreDownloaded
<1>7. CASE Create
  <2>1. stage = "creating" /\ ValidDraft(draft) /\ draft.mode \in {"audio", "video"}
        /\ draft.quality \in QualityOptions(draft.mode)
    BY <1>7 DEF Create, DraftOK
  <2>2. stage' = "queued"
    BY <1>7, <2>1, ApiTakesDraft DEF Create
  <2>3. DraftOK'
    BY <1>7 DEF Create, DraftOK, INITIAL_DOWNLOAD_DRAFT, QualityOptions,
                AudioQualities
  <2>4. StageOK'
    BY <1>7, <2>1, <2>2 DEF Create, StageOK
  <2>5. QED
    BY <2>2, <2>3, <2>4 DEF OnlyKnownSizesAreDownloaded
<1>8. QED
  BY <1>2, <1>3, <1>4, <1>5, <1>6, <1>7 DEF Form

LEMMA WorkStep == RequestInv /\ Work => RequestInv'
<1> SUFFICES ASSUME RequestInv, Work PROVE RequestInv'
  OBVIOUS
<1> USE DEF RequestInv, DraftOK, StageOK, OnlyKnownSizesAreDownloaded, To, vars
<1>1. CASE Restore
  BY <1>1 DEF Restore
<1>2. CASE Claim
  BY <1>2 DEF Claim, FreshRunner
<1>3. CASE Preflight
  <2>1. CASE stage' = "run"
    <3>1. fits'
      BY <1>3, <2>1, PassedMeansKnownToFit DEF Preflight
    <3>2. QED
      BY <1>3, <2>1, <3>1 DEF Preflight
  <2>2. CASE stage' # "run"
    BY <1>3, <2>2 DEF Preflight
  <2>3. QED
    BY <2>1, <2>2
<1>4. CASE Finish
  BY <1>4 DEF Finish
<1>5. QED
  BY <1>1, <1>2, <1>3, <1>4 DEF Work

LEMMA RunnerKeepsCaller == Next => UNCHANGED caller
<1>1. CallerNext => UNCHANGED caller
  BY DEF CallerNext, Run, Succeed, Retry, GiveUp
<1>2. Events => UNCHANGED caller
  BY DEF Events, OnError, OnStat, OnClose
<1>3. OnAbort \/ Write \/ Exit => UNCHANGED caller
  BY DEF OnAbort, Write, Exit, ExitOk, ExitBad
<1>4. QED
  BY <1>1, <1>2, <1>3 DEF Next

LEMMA RequestInvStep == RequestInv /\ [RequestNext]_allVars => RequestInv'
<1> SUFFICES ASSUME RequestInv, [RequestNext]_allVars PROVE RequestInv'
  OBVIOUS
<1> USE DEF vars
<1>1. CASE Direct
  BY <1>1 DEF Direct, To, RequestInv, DraftOK, StageOK,
              OnlyKnownSizesAreDownloaded
<1>2. CASE Extract(Next)
  BY <1>2, RunnerKeepsCaller, RequestStays DEF Extract
<1>3. CASE Life(StartWorker \/ BeatStep)
  BY <1>3, RequestStays DEF Life
<1>4. CASE Crash
  BY <1>4, RequestAssumption
     DEF Crash, InHand, RequestInv, DraftOK, StageOK,
         OnlyKnownSizesAreDownloaded
<1>5. CASE UNCHANGED allVars
  BY <1>5, RequestStays DEF allVars
<1>6. QED
  BY <1>1, <1>2, <1>3, <1>4, <1>5, FormStep, WorkStep DEF RequestNext

LEMMA RequestInvariant == RequestSpec => []RequestInv
<1>1. QED
  BY RequestInvInit, RequestInvStep, PTL DEF RequestSpec

\* No job of the form is refused by the API, and the API reads from it the
\* video and the quality that the user chose, although the schema of the form
\* lets a quality of the other mode pass.
THEOREM FormIsTaken == RequestSpec => []FormAgreesWithApi
<1>1. RequestInv => FormAgreesWithApi
  BY FormAndApiAgree DEF RequestInv, DraftOK, StageOK, FormAgreesWithApi
<1>2. QED
  BY <1>1, RequestInvariant, PTL

\* For any limit: a video that the worker downloads has formats of known size
\* whose sum is within it, also in the attempts after a crash.
THEOREM SizeIsKnown == RequestSpec => []OnlyKnownSizesAreDownloaded
<1>1. RequestInv => OnlyKnownSizesAreDownloaded
  BY DEF RequestInv
<1>2. QED
  BY <1>1, RequestInvariant, PTL

\* An extraction that ended well still has its file when the upload or the
\* delivery begins (processJob after downloadExtractionJob).
THEOREM ExtractedHasFile ==
  RequestSpec => [](stage = "extracted" => workDir /\ output = "complete")
<1>1. RequestInv /\ IInv => (stage = "extracted" => workDir /\ output = "complete")
  BY DEF RequestInv, StageOK, IInv, SettledByExit, DirMatches
<1>2. QED
  BY <1>1, RequestInvariant, RequestKeepsRunner, PTL

================================================================================

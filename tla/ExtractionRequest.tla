-------------------------- MODULE ExtractionRequest --------------------------
(***************************************************************************)
(* An extraction from the form to the file on disk, by either of its ways: *)
(*                                                                         *)
(*  - the web page (use-video-extract-logic.ts) checks the draft, asks     *)
(*    GET /health and posts a job; the API (downloads.service.ts) parses   *)
(*    it; the worker (apps/worker/src/main.ts, processJob) asks yt-dlp     *)
(*    what a video will weigh and runs it;                                 *)
(*  - a direct request to the API runs it at once (ExtractionRunner,       *)
(*    caller "api").                                                       *)
(*                                                                         *)
(* The runner is ExtractionRunner, the sign of life of the worker process  *)
(* that runs it Heartbeat, the rules of the form and of the API are        *)
(* RequestRules.  Reuse, upload and the row of the job are in              *)
(* DownloadPipeline and WorkerQueue, what the page shows is in JobPage.    *)
(***************************************************************************)
EXTENDS ExtractionRunner, Heartbeat, RequestRules, SequencesExt

CONSTANTS
  MaxBytes,     \* MAX_VIDEO_ESTIMATED_BYTES
  MaxCrashes    \* bound on deaths of the worker

ASSUME RequestAssumption == MaxBytes \in Nat /\ MaxCrashes \in Nat

VARIABLES
  stage,    \* where the request is
  draft,    \* the input of the form, while it is on the screen
  type,     \* type of the job
  fits,     \* the size of what is downloaded is known and within MaxBytes
  crashes

requestVars == <<stage, draft, type, fits, crashes>>
allVars == <<vars, beatVars, requestVars>>

INITIAL_DOWNLOAD_DRAFT == [url |-> NoText, mode |-> "audio", quality |-> 320]

RequestInit ==
  /\ Init /\ BeatInit
  /\ stage = "form"
  /\ draft = INITIAL_DOWNLOAD_DRAFT
  /\ type = "none" /\ fits = FALSE
  /\ crashes = 0

To(from, to) == stage = from /\ stage' = to

-----------------------------------------------------------------------------
(* The form.                                                               *)

\* What a user types or pastes: each way of naming a video, and near misses.
Inputs ==
  {NoText, NotAUrl}
    \cup [scheme : {"https:"}, host : {"youtu.be"}, path : {"/id"},
          id : VideoIds \cup {"short"}]
    \cup [scheme : {"https:"}, host : {"www.youtube.com"},
          path : {"/watch?v=id", "/shorts/id", "/id"}, id : VideoIds]
    \cup [scheme : {"https:"}, host : {"www.youtu.be"}, path : {"/id"},
          id : VideoIds]

OnForm == stage = "form" /\ caller = "worker"

FormStays == UNCHANGED <<vars, beatVars, stage, type, fits, crashes>>

ChangeUrl(u) ==
  /\ OnForm
  /\ draft' = [draft EXCEPT !.url = u]
  /\ FormStays

ChangeQuality(quality) ==
  /\ OnForm
  /\ quality \in QualityOptions(draft.mode)
  /\ draft' = [draft EXCEPT !.quality = quality]
  /\ FormStays

ChangeModeMutantQualityKept(mode) ==
  /\ OnForm
  /\ draft' = [draft EXCEPT !.mode = mode]
  /\ FormStays

\* handleModeChange.
ChangeMode(mode) ==
  /\ OnForm
  /\ draft' = [draft EXCEPT !.mode = mode,
                            !.quality = GetDefaultDownloadQuality(mode)]
  /\ FormStays

Submit ==
  /\ OnForm /\ To("form", "checking")
  /\ ValidDraft(draft)
  /\ UNCHANGED <<vars, beatVars, draft, type, fits, crashes>>

\* The refetch of the mutation and assertWorkerAvailable.
CheckHealth ==
  /\ To("checking", IF Available THEN "creating" ELSE "form")
  /\ UNCHANGED <<vars, beatVars, draft, type, fits, crashes>>

\* DownloadsService.create up to its first await: 400 unless all three parse.
Create ==
  /\ To("creating",
        IF /\ ParseYoutubeVideoId(draft.url) # "none"
           /\ ParseDownloadQuality(draft.mode, draft.quality) # 0
        THEN "queued" ELSE "refused")
  /\ type' = draft.mode
  /\ draft' = INITIAL_DOWNLOAD_DRAFT
  /\ UNCHANGED <<vars, beatVars, fits, crashes>>

-----------------------------------------------------------------------------
(* The preflight of a video.                                               *)

\* yt-dlp reports filesize or filesize_approx of a format, each a number,
\* null, or something that is no number.
Null == -1
NoNumber == -2
Formats ==
  [filesize : {Null, NoNumber, 1, MaxBytes},
   filesize_approx : {Null, 1, MaxBytes + 1}]
Metadata == UNION {[1..n -> Formats] : n \in 0..2}

\* normalizeNumber(format.filesize ?? format.filesize_approx).
SizeOf(format) ==
  LET size == IF format.filesize = Null THEN format.filesize_approx
                                        ELSE format.filesize
  IN  IF size \in Nat THEN size ELSE Null

Total(sizes) == FoldSeq(LAMBDA size, sum : size + sum, 0, sizes)

PreflightDecisionMutantKnownOnly(selected) ==
  LET sizes == [i \in DOMAIN selected |-> SizeOf(selected[i])]
      known == SelectSeq(sizes, LAMBDA size : size # Null)
  IN  known # <<>> /\ Total(known) <= MaxBytes

\* createVideoPreflightDecision: ok.
PreflightDecision(selected) ==
  LET sizes == [i \in DOMAIN selected |-> SizeOf(selected[i])]
  IN  /\ selected # <<>>
      /\ \A i \in DOMAIN selected : sizes[i] # Null
      /\ Total(sizes) <= MaxBytes

\* Whatever the formats really weigh, if it agrees with the numbers that are
\* reported, it is within the limit.
KnownToFit(selected) ==
  \A bytes \in [DOMAIN selected -> 0..(MaxBytes + 1)] :
    (\A i \in DOMAIN selected :
       bytes[i] = IF selected[i].filesize \in Nat THEN selected[i].filesize
                  ELSE IF selected[i].filesize_approx \in Nat
                       THEN selected[i].filesize_approx ELSE bytes[i])
      => selected # <<>> /\ Total(bytes) <= MaxBytes

-----------------------------------------------------------------------------
(* processJob, up to the file on disk.                                     *)

\* A new attempt at the job: no directory, no child.
FreshRunner ==
  /\ attempt' = 0 /\ pc' = "try" /\ promise' = "pending"
  /\ child' = "none" /\ closed' = FALSE /\ stat' = FALSE
  /\ workDir' = TRUE /\ output' = "absent"
  /\ UNCHANGED caller

Claim ==
  /\ up /\ To("queued", IF type = "video" THEN "preflight" ELSE "run")
  /\ FreshRunner
  /\ UNCHANGED <<beatVars, draft, type, fits, crashes>>

\* assertVideoPreflight: yt-dlp fails, or its metadata decide.
Preflight ==
  /\ up
  /\ \/ To("preflight", "failed") /\ UNCHANGED fits
     \/ \E selected \in Metadata :
          /\ To("preflight", IF PreflightDecision(selected) THEN "run" ELSE "failed")
          /\ fits' = KnownToFit(selected)
  /\ UNCHANGED <<vars, beatVars, draft, type, crashes>>

\* A step of the runner, which starts whatever yt-dlp --get-title answers.
Extract(step) ==
  /\ stage = "run" /\ (caller = "worker" => up)
  /\ step
  /\ UNCHANGED <<beatVars, requestVars>>

\* The caller goes on to the upload or the delivery, or marks the failure.
Finish ==
  /\ \/ pc = "done" /\ To("run", "extracted")
     \/ pc = "failed" /\ To("run", "failed")
  /\ UNCHANGED <<vars, beatVars, draft, type, fits, crashes>>

\* GET /audio, GET /video.
Direct ==
  /\ caller = "api" /\ To("form", "run")
  /\ UNCHANGED <<vars, beatVars, draft, type, fits, crashes>>

InHand == caller = "worker" /\ stage \in {"preflight", "run"}

\* The process dies, and its children with it.
Crash ==
  /\ StopWorker
  /\ crashes < MaxCrashes /\ crashes' = crashes + 1
  /\ stage' = IF InHand THEN "stuck" ELSE stage
  /\ UNCHANGED <<vars, draft, type, fits>>

\* restoreStuckJobs of the next process.
Restore ==
  /\ up /\ To("stuck", "queued")
  /\ UNCHANGED <<vars, beatVars, draft, type, fits, crashes>>

-----------------------------------------------------------------------------
Life(step) == step /\ UNCHANGED <<vars, requestVars>>

Form ==
  \/ \E u \in Inputs : ChangeUrl(u)
  \/ \E mode \in {"audio", "video"} : ChangeMode(mode)
  \/ \E quality \in AudioQualities \cup VideoQualities : ChangeQuality(quality)
  \/ Submit \/ CheckHealth \/ Create

Work == Restore \/ Claim \/ Preflight \/ Finish

RequestNext ==
  \/ Form \/ Direct
  \/ Work \/ Extract(Next)
  \/ Life(StartWorker \/ BeatStep) \/ Crash

RequestSpec == RequestInit /\ [][RequestNext]_allVars

\* docker restarts the worker, its loop and the event loops run, and yt-dlp
\* ends: nobody has a timeout for it but the API.
RequestFairness ==
  /\ WF_allVars(Life(StartWorker))
  /\ WF_allVars(Work)
  /\ WF_allVars(Extract(CallerNext))
  /\ WF_allVars(Extract(Events))
  /\ SF_allVars(Extract(Exit))

FairRequestSpec == RequestSpec /\ RequestFairness

-----------------------------------------------------------------------------
(* Properties.                                                             *)

\* What the form lets through the API takes, for the same video and with the
\* quality that was chosen: the two have their own copies of the rules, and
\* the schema of the form does not tie the quality to the mode.
FormAgreesWithApi ==
  /\ stage # "refused"
  /\ stage = "creating" =>
       /\ ParseYoutubeVideoId(draft.url) = draft.url.id
       /\ ParseDownloadQuality(draft.mode, draft.quality) = draft.quality

\* No video is downloaded whose size is unknown in part or beyond the limit.
OnlyKnownSizesAreDownloaded ==
  caller = "worker" /\ stage = "run" /\ type = "video" => fits

\* Every job that was taken, and every direct request, comes to its end,
\* although the worker may die on it.
EveryJobEnds == stage \in {"queued", "run"} ~> stage \in {"extracted", "failed"}
=============================================================================

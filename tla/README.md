# MyTube Extract: verification project

TLA+ models of the job queues, the download pipeline, the subtitle jobs, the
yt-dlp runner, the heartbeat, the web page and the Chrome popup of this
repository, the TLC runs that check them, and the theorems TLAPS proves about
them. Paths below are relative to the root of the
repository.

## 1. The system

MyTube Extract turns a YouTube URL into an audio or video file, or an uploaded
video into English subtitles. A NestJS API server writes jobs to PostgreSQL, a
worker process polls them, and files go through a Cloudflare R2 bucket. The
older synchronous endpoints of the API and an in-memory queue download with
yt-dlp inside the API process. A web page and a Chrome popup are the clients.

| Component | State | Operations | Hard behaviour | What makes it correct |
|---|---|---|---|---|
| Worker queue (`apps/worker/src/main.ts`, `worker.logic.ts`) | `ExtractionJob` and `SubtitleJob` rows | restore stuck jobs, claim, status updates by id | several workers, crashes, jobs that outlast the timeout, rows deleted under the worker | one job at a time, FIFO over both tables, a settled job stays settled but for its own catch, every job settles |
| Download jobs (`apps/api/src/downloads/downloads.service.ts`) | handler state between awaits | create, get | rows and objects change between the awaits | a completed job has its file, every request ends |
| Extraction (`processJob` of the worker) | asset row, R2 object | reuse, extract, upload, upsert | races with handlers and cleanup | nothing is extracted that could be reused |
| Asset cleanup (`asset-cleanup.service.ts`) | snapshot of expired rows | hourly pass | works on a stale snapshot | only what is expired goes |
| R2 storage (`r2-storage.service.ts`) | objects, multipart sessions | put, head, delete, multipart | every call may fail, the effect may have happened | - |
| Subtitle upload (`subtitles.service.ts`, `mytube-extract.api.ts`, `use-subtitles-extract-logic.ts`) | multipart session, lanes of the page, handler of complete | createUpload, PUT of a part, complete, abort | lost requests and answers, cancel, token expiry, compensation | a job has its whole source, no source without a job |
| Subtitle processing (`processSubtitleJob`) | row, result object, work directory | download, ffmpeg, whisper, upload | any step fails or reports a failure that was none, the cleanup takes the row | a completed job has its SRT and stays completed, every job settles, no directory is left |
| Media job queue (`media-download-job.service.ts`) | jobs, queue, slots, drain flag | create, cancel, consume, drain, run, sweep | callbacks and microtasks between any two requests | no lost wakeup, canceled stays canceled, no file leaks |
| Media download lifecycle (`media-download.service.ts`, `http-media-delivery.ts`) | counter of active downloads, work directories | download, deliver | the counter at its limit, failures at every line | the counter counts |
| yt-dlp runner (`youtube-dl-runner.ts`, `download-job.ts`) | one promise, one child process, one directory | run, retry | error, close, stat and abort in any order | settles once, whole file or nothing |
| Health and heartbeat (`startHeartbeat`, `health.service.ts`) | `WorkerHeartbeat` row, upserts under way | upsert, read | upserts that overtake each other, fail or outlive their process | available means alive, and alive means available |
| Web pages (`use-video-extract-logic.ts`, `use-subtitles-extract-logic.ts`, `extract-view-phase.util.ts`) | React state, one AbortController, the health query, one mutation | submit, poll, return to the request, leave | late answers, double clicks, failed polls, health answers at any time | one live handler, the latest job on the screen, every screen has an exit |
| Chrome popup (`popup-download-model.ts`, `popup-app.tsx`) | one snapshot, stored options, submits under way | load, edit, import, save, submit, close | late loads and saves, answers that replace the snapshot during a submit | one submit at a time, no busy screen without work, what was clicked is started |
| Request parsing and policies (`downloads.util.ts`, `download-request.ts`, `media-request.util.ts`, `download-options.ts`) | - | four copies of the rules for URL, type and quality | copies that differ | what one side lets through the other takes |
| Redaction, presentation, configuration | - | - | - | not modelled (section 8) |

Interactions: API and worker share the database and the bucket and nothing
else. No transaction spans two of their steps except the claim. The API
handlers, its hourly cleanup and its in-memory queue share one event loop. The
page talks to the API by requests and to R2 by signed URLs.

The hazards of this code are listed one by one, with the line where each bites
and the properties that cover it, in `PROJECT.json`.

## 2. Modules

| Module | Models | State and actions |
|---|---|---|
| `JobLifecycle` | nothing: the promise of the queue to its users | a single FIFO server with Submit, Start, Requeue, Settle, Remove |
| `WorkerQueue` | the worker's loop, both job tables | `status`, `startedAt`, `createdAt` are the columns, `pc`/`held` one worker each. RestoreDownloads and RestoreSubtitles are the two `updateMany`, Claim the serializable transaction, the Mark actions and BlameUpload the updates by id, `pc = "fail"` the catch of one that reported an error |
| `DownloadPipeline` | `DownloadsService.create`, `processJob`, `cleanupExpiredAssets`, asset table, bucket | one action per await of each of the three; `found`, `reuse` and `expired` are what a step read earlier and uses later; MoveOrError and GotoOrFail are calls that take effect and report an error |
| `MediaQueue` | `MediaDownloadJobService`, `MediaDownloadService`, the sweep, the deliveries | one action per handler, one per turn of the loop in `drain` |
| `SubtitleUpload` | the submit mutation, its lanes, the upload endpoints and the deprecated POST, the R2 session | one action per request, answer and await |
| `SubtitleJob` | `SubtitleUpload` with what becomes of the row: `processSubtitleJob`, `getFile`, the subtitle half of the cleanup | extends `SubtitleUpload`; `stage` is where the worker is, one action per await, each with its way to fail; `pass` and `passKey` are the cleanup and what it has read, `dirs` the work directories the running process has made and not removed |
| `RequestRules` | the rules for URL, type and quality of API, web form and popup | operators only |
| `ExtractionRunner` | `runYoutubeDl` under its two callers | one action per event of the child, of `stat` and of the abort signal |
| `Heartbeat` | `startHeartbeat`, the upserts, `HealthService` | Beat, Land, Lose, Tick; ages in ticks |
| `ExtractionRequest` | the way of one request: form, health check, create, claim, preflight, runner; or directly through the API | extends `ExtractionRunner`, `Heartbeat` and `RequestRules` and steps one of them at a time |
| `JobPage` | the page from submit to result, as both hooks have it | `handler[n]` is where `handleDownloadSubmit` of the n-th submit is; one action per thing the user does, per answer of the network and per settled promise |
| `PopupDownload` | the Chrome popup | the snapshot, `queue` for the calls to chrome.storage, `importing` for the queries of the current tab, `flight[n]` for the n-th submit; one action per thing the user does and per answer |
| `MCWorkerQueue`, `MCDownloadPipeline`, `MCPopupDownload` | - | symmetry of the workers; one key for all requests and the history variable `overlapped`; two ways to write one video |
| `WorkerQueueProofs`, `DownloadPipelineProofs`, `MediaQueueProofs`, `SubtitleJobProofs`, `ExtractionRequestProofs`, `HeartbeatProofs`, `JobPageProofs`, `PopupDownloadProofs` | - | theorems about the module of that name (section 6) |

`PROJECT.json` maps each definition to its lines. Operators with `Mutant` in
their name are wrong variants of the definition that follows them, each a
plausible bug; no specification uses them, and each one makes TLC refute the
property it is listed with.

How they fit together. `WorkerQueue` abstracts a job to "ends well, badly, or
with the process". `DownloadPipeline` opens that step for downloads and
`SubtitleJob` for subtitles; both keep one worker and leave the order of the
queue to `WorkerQueue`. `ExtractionRequest` opens the step "extract" of the
pipeline and what comes before it. `JobPage` sees a job only by the status its
polls report, and an upload as part of the step "create", which
`SubtitleUpload` opens. `WorkerQueue` implements `JobLifecycle` by the mapping
of a status to a phase, and so does `SubtitleJob` for its one job: the two
models of a subtitle job, one without stages and one without a queue, keep the
same promise, in which a job is settled when its worker has left the catch.
`ExtractionRequest` implements `Heartbeat`.

## 3. Abstractions

- Time. `startedAt` is the age of the claim in ticks, capped one above the
  timeout; `expiresAt` is a Boolean (fresh or not, token expired or not);
  `updatedAt` of a media job is "a TTL ago" or not. `createdAt` is only
  compared, so it is a stamp that a new row shares with the last one or
  exceeds. It is drawn and inserted in one step.
- The serializable claim is one step: that two claims do not both see nothing
  active is the database's part and assumed. A claim that loses to a write conflict
  three times is ClaimConflict; one that loses fewer times is a later Claim.
- Ids are numbers where their order matters (ties of `createdAt`), else model
  values. An asset row that is deleted and made again gets a new id.
- The event loop of the API: `MediaQueue` lets requests, process exits and
  timers run only when no microtask is pending (`Quiet`).
- Upload sessions share nothing, as each object key holds a random id; one is
  enough.
- Programs (yt-dlp, ffmpeg, whisper), R2, database and network calls succeed
  or fail, and where the caller cannot tell, the effect may have happened (a
  PUT whose answer is lost, a completed multipart upload, an insert or an
  update that commits and reports an error, a delete that takes effect and
  reports one). In `WorkerQueue`, `DownloadPipeline` and `SubtitleJob` these
  are among the `MaxFaults` faults, as are crashes, lost claims and cleanup
  steps that fail. A compensating `deleteObject` that reports an error has
  either outcome without being counted.
- `objectExists` of the API asks the public CDN for what R2 does not have, so a
  handler may take an object that is gone for present (`Head`). The one of the
  worker does not ask it (`HeadReusable`).
- `MCDownloadPipeline` adds `overlapped`: a pass has run beside a job of the
  worker. The code does not keep them apart; passes are an hour apart, so it
  seldom happens, and the run says what holds before and after.
- `Heartbeat` keeps ages instead of times, so a time stamp that passed the
  limit need not grow any more. `Delay` bounds how long an upsert is under
  way and `MaxLost` how many fail in a row: nothing in the code does, and the
  assumption names the room the two limits leave for them.
- A URL is a record of what the rules look at (protocol, host, shape of the
  path, candidate for the ID). Of all IDs one passes the pattern.
- Sizes are small numbers; null and "not a number" are kept apart from them,
  as `??` and `normalizeNumber` do.
- In `PopupDownload` the mode stands for all stored options. chrome.storage
  does its calls in the order in which they were made. Closing the popup
  forgets its promises and keeps what Chrome was asked for: the calls under
  way are done, and the answer of a load goes to the popup that asked, if it is
  still open (`opened`). `early` remembers
  that an option was changed before the stored ones were loaded, `covered` that
  a save that failed put the error screen over a submit.
- `JobPage` abstracts the form to a valid draft, `expired` to `failed` and a
  health answer to "yes", "no" or an error that keeps the last answer. From
  react-query (5.101.1) it takes that a refetch cancels one in flight whose
  caller then waits for the same answer, and that `isPending` reaches React
  one timer after the mutation starts: until Render a second click submits
  again. Render comes before any answer of the network to that submit.
- `MediaQueue` models create, cancel and consume although no controller of
  this commit calls them: only the sweep scheduler is wired, the public
  endpoints download directly. They are the service's interface.

## 4. Runs

| Run | Setup | Checks |
|---|---|---|
| `worker_solo` | 1 worker, 3 jobs, 2 faults, jobs may outlast the timeout | every job settles, implements `JobLifecycle` |
| `worker_pair` | 2 workers, 3 jobs, 1 fault, jobs stay within the timeout | one job at a time, FIFO, only the catch of its own completed update changes a settled row |
| `worker_stuck` | 2 workers, 2 jobs, 1 crash, a job outlasts the timeout | refutes "stuck jobs go back to the queue" (finding 1) |
| `pipeline` | 2 requests for one key, everything overlaps, 1 lost object, 2 faults | no needless extraction, every request ends; until a pass has run beside an extraction, a job shown as completed has its file and fresh assets are kept |
| `pipeline_stale` | the same, 1 fault | refutes the former once they have overlapped (finding 2) |
| `media_queue` | 3 jobs, 1 direct endpoint, 2 slots, a queue of 2, 1 failing directory | the limit, no leaked file, only the sweep cuts a delivery, canceled stays canceled, every job runs |
| `media_leak` | the same | refutes "the counter counts downloads in progress" (finding 3) |
| `upload` | `SubtitleJob`: 4 parts, 2 faults | source, row and result agree; a work directory is left by a process that dies in that step only; the row implements `JobLifecycle`; every submit and every job ends, what has expired is removed |
| `upload_abort` | `SubtitleUpload`: 4 parts | refutes "a failed or canceled upload is aborted" (finding 4) |
| `extraction` | `ExtractionRequest`: both callers, 2 attempts, timer 2, limit 6, delay 1, 1 lost upsert, 1 crash | one child per directory, whole file or nothing, available means alive and alive means available, form and API agree, only videos of known size run, every job ends |
| `page` | 3 submits | one live handler, the latest job is shown, every screen has an exit, the lock fits the work, a result stays, every handler ends |
| `popup` | 2 submits, 2 openings, 3 calls and 2 tab queries under way, 1 fault, 2 URLs of one video | one submit at a time, no busy screen without work, what was clicked is started, what is shown is stored |

A type invariant comes first in the modules whose counters could run away
(`WorkerQueue`, `JobPage`, `Heartbeat`); it is proved for every value of the
constants (section 6), so no run repeats it.

Why the bounds are enough. Two jobs of one table and one of the other give
both tie-breaks of the claim (within a table and across) and let a restored
job compete with older and younger ones; two faults give a crash after a
crash, or an update that reports an error and a catch whose update does, too. The pipeline's races are about one row and one object, so all requests
share a key: one handler, one worker and one pass already meet in every order,
and the second request brings reuse and the double delete. Two faults are a
completed update that reports an error and a second failure in its catch. Three jobs and a
direct download on two slots fill the slots from both sides and leave a job
waiting; a queue of two is full with the third. Four parts on three lanes make
one lane take a second part, the only case in which lanes differ. Two faults
in a subtitle job are a crash after an update that reported an error, or the
failure of a catch. Two attempts are a retry; with a limit of three periods
and a delay of half of one, upserts overtake each other and one may be lost,
as with the defaults of 5 and 15 seconds. Three submits are a double click and
a resubmit, before or after it; the page keeps one controller, one mutation
and one job, so two handlers meet in every way. Two submits and openings of
the popup are one over the other and one after the other, and with three
calls under way the load of a popup that was closed is followed by one of the
next popup and a save. Two queries of the tab answer before and after a submit.

`CHECK_DEADLOCK FALSE` is set where a system may really stop: all requests
answered, all jobs done. The worker's loop never stops, so its runs check
deadlock.

## 5. Fairness

- `WorkerQueue`: weak fairness of each worker's step (a live process runs its
  loop, `restart: unless-stopped` of `docker-compose.yml` starts a dead one)
  and of the clock. It contains the assumption that a job's programs end: the
  worker has no timeout for them. Crashes are finitely many (`MaxFaults`).
- `DownloadPipeline`: weak fairness of handlers and passes that have started
  and of the worker; strong fairness of Claim, as passes are an hour apart and
  the worker polls every 5 seconds. Nothing forces a request, an expiry or a
  pass.
- `MediaQueue`: weak fairness of microtasks; strong fairness of the end of a
  download, for requests may always come in between and a timeout aborts it.
- `SubtitleJob`: weak fairness of the requests of the page and of the handlers
  of the API, of the worker (its loop runs on, docker starts it again, its
  programs end, restores come after the timeout) and of the cleanup. Crashes
  and failures are finitely many (`MaxFaults`).
- `SubtitleUpload`: weak fairness of the requests of the page and of the
  handler of complete. AbortUpload is fair, which only makes finding 4
  stronger: the abort is not lost, it is never sent.
- `JobPage`: weak fairness of Render, of the health answer a submit waits for
  and of the other requests of each handler (they end, well or not; `wait` is a
  timer). A failing poll is not fair, or every handler would end by failing
  and not by seeing its job end. JobEnds is fair, as the worker settles every job (`WorkerQueue!EveryJobSettles`,
  with its assumptions). The user owes nothing.
- `ExtractionRequest`: weak fairness of the start of the worker, of its loop
  and of the event loop, strong fairness of the child's exit. The heartbeat
  needs none: what it promises is safety, as time passes only when no upsert
  is overdue. Nothing forces the user to submit.
- `PopupDownload`: safety only. A user may close it at any time.

## 6. Proofs

Every safety property, action property and refinement that a passing run
checks is proved. The theorems hold for every value of the constants that the
named assumptions admit. Some state more than the runs check; each of those
formulas went through TLC, too, before it was proved.

`WorkerQueueProofs` proves, for any sets of workers and jobs, any timeout and
any number of faults:

| Theorem | States |
|---|---|
| `TypeCorrect` | `TypeOK` |
| `OneJobAtATime` | `AtMostOneActive` |
| `FirstComeFirstServed` | `NoOvertaking` |
| `RestoreSeesEveryActiveRow` | `ClaimTimeMatches` |
| `SettledRowsAreFinal` | `SettledIsFinal` |
| `QueueImplementsLifecycle` | `ImplementsLifecycle` |

All but the last rest on `InTime`: either no live worker holds a job for longer
than the timeout, or there is one worker only. Without it they are false, as
the run `worker_stuck` shows. With one worker no restore can hit a job in hand,
because the same loop does both in turn. The refinement is proved for one
worker (`OneWorker`): a completed update that commits and reports an error
leaves a row that says completed and a job whose catch still writes. The
mapping takes it for running; a second worker may claim the next job in that
moment, so with two the promise of one job at a time would be broken there.

The inductive invariant `IInv` is the conjunction of `TypeOK`,
`AtMostOneActive`, `ClaimTimeMatches`, `NoOvertaking` and three facts about
what a worker believes:

- `HeldRowMatches`: the row a worker holds has the status the worker's place
  in the code implies, unless the cleanup has deleted it; in a catch it has any
  status an update may have left. Every update is by
  id alone, so only this makes "an update of my row" keep the others.
- `HeldInTime`: with `Overrun = FALSE` a held row is not older than the
  timeout, so `restoreStuckJobs` (strictly older) does not match it.
- `HeldByOne`: no two workers hold one row.

`NoOvertaking` needs `AtMostOneActive` at a restore: the row given back was
the only one in progress, so nothing else can have overtaken it. The
refinement then says that a restore gives back at most one row, the Settle of
a job is the step with which its worker leaves it (or dies in the catch of a
completed update), and everything else stutters. `SettledIsFinal` says what
the column itself does: it is written over only by that catch.

`JobPageProofs` proves, for any number of submits and without assumptions
beyond `MaxSubmits` being a positive number:

| Theorem | States |
|---|---|
| `TypeCorrect` | `TypeOK` |
| `OneHandlerWrites` | `OneLiveHandler` |
| `LatestJobIsShown` | `ShownJobIsLatest` |
| `NoDeadProcessing` | `ProcessingIsAlive` |
| `LockIsJustified` | `LockFollowsWork` |
| `ResultIsKept` | `ResultStays` |

The argument is about what the page and its handlers know of each other. The
inductive invariant adds to the first three:

- `PendingIsAlive`: the mutation the page observes belongs to the current
  controller, has not created its job, and nothing of an earlier submit is on
  the page. So a submit never hides a job that still polls.
- `WaitsTogether`: all handlers that wait for the health answer wait for the
  same one, together with the last submit, and only then is a render due. This
  is why the handler that a double click has stopped cannot report an error of
  its own into the other's work.
- `LiveIsVisible`: a handler that is neither ended nor aborted is the pending
  one or polls the job on the page. With it, a processing screen without a
  live handler is impossible, and so is an unlocked page with one.
- `JobHasStatus` and `IdleAfterLast`: bookkeeping.

`HeartbeatProofs` proves, under `HeartbeatAssumption` (twice the delay, the
periods of the upserts that may be lost and one more fit into the limit):

| Theorem | States |
|---|---|
| `BeatTypeCorrect` | `BeatTypeOK` |
| `DeadWorkerIsFound` | `AvailableMeansAlive` |
| `LiveWorkerIsAvailable` | `AliveIsAvailable` |

The first needs that no time stamp, in the row or under way, is younger than
the death of the process that may have made it (`NoStampAfterDeath`), so an
upsert that lands late cannot bring a dead worker back for longer than the
limit. The second needs a count (`OnTime`): every period since the time stamp
in the row has left an upsert that has failed or is under way, up to now and
up to any age. An upsert that lands over a younger one thus costs no more than
its own delay.

`ExtractionRequestProofs` proves two theorems about `ExtractionRunner` alone,
for any number of attempts, and then follows a whole request: the form, the
health check, the queue, a worker that may crash and begin again, or the
direct endpoint.

| Theorem | States |
|---|---|
| `AttemptsDoNotOverlap`, `RequestHasOneChild` | `OneChildPerDir`, of the runner and of a request |
| `FinishedFileIsWhole`, `RequestFileIsWhole` | `SuccessHasWholeFile`, likewise |
| `RequestImplementsHeartbeat` | `BeatSpec` |
| `RequestMeetsLiveWorker` | `AvailableMeansAlive` |
| `BusyWorkerIsAvailable` | `AliveIsAvailable` |
| `FormIsTaken` | `FormAgreesWithApi` |
| `SizeIsKnown` | `OnlyKnownSizesAreDownloaded` |
| `ExtractedHasFile` | an extracted request still has its directory and its whole file |

`SettledByExit` says which rejections only an ended child can cause, the
reasons to try again being among them; `DirMatches` says what the place of
the caller and the child tell about the directory. A step of a request is one
of the runner, a fresh runner, or none of its business (`RunnerMoves`), and one
of the heartbeat or a stutter (`BeatMoves`); the heartbeat's theorems carry
over by that refinement. `DraftOK` is what the schema of the form does not say
and only the handler of the mode change keeps: the quality is one of the mode.
Form and API then agree on the draft (`FormAndApiAgree`, `ApiTakesDraft`), case
by case over the shapes of a URL. For `SizeIsKnown`, `KnownToFit` asks for a sum
within the limit whatever the formats of unknown size weigh, and a preflight
that passed leaves none of those (`PassedMeansKnownToFit`); `Total` stays
unexpanded, as nothing depends on how the sum is formed.

`MediaQueueProofs` proves, for any finite sets of jobs and direct requests
and any limits (`MediaAssumption`):

| Theorem | States |
|---|---|
| `LimitIsKept` | `ConcurrencyLimitHolds` |
| `FilesAreAccountedFor` | `NoFileLeaks` |
| `CancelIsKept` | `CanceledStaysCanceled` |
| `DeliveryIsCutBySweepOnly` | `OnlySweepCutsDelivery` |
| `CounterDriftIsExplained` | `LeaksTakePlaces` |
| `NoWakeupIsLost` | `WaitsForSlots` |
| `QueueHoldsQueued` | `QueueOK` |

`RunMatches` says what the status of a job tells about its download and its
delivery: handlers, sweep and late ends of downloads write to one record, and
nothing else keeps them apart. `CounterExact` says that the counter is the
number of downloads in progress and of the directories that could not be made.
That is all of finding 3: nothing else makes the counter drift, and after as
many failures as the limit no download is in progress any more. `QueueOK` and
`SlotsOK` are about the array of the queue and its slots: it holds the queued
jobs, each once; `runningCount` is the number of jobs whose download has not
ended; and a free slot beside a job that waits means that `drain` is scheduled.
So no wakeup is lost, which is the safety under `EveryJobRuns`.

`DownloadPipelineProofs` proves, for any requests and any finite set of keys
(`PipelineAssumption`):

| Theorem | States |
|---|---|
| `NoWastedExtraction` | `ExtractsOnlyWhatIsMissing` |
| `CompletedHasItsFile` | `ShownFileExistsApart` |
| `FreshAssetIsKept` | `FreshAssetKept` |
| `JobsEndOnce` | `EndedJobsStay` |
| `OwnDownloadIsServed` | `ServesOwnDownload` |

The first rests on there being one worker: handlers and passes only take fresh
rows away. The next two add what the steps have read and use later: a row
belongs to one key and a job refers to the row of its key or to none
(`RefsOK`), the pass holds pairs of keys and rows (`SnapshotOK`), and, as long
as nothing has overlapped, what the pass holds is still expired and a fresh
row has an object that was stored (`Apart`). The last two hold with any
overlap; `EndedJobsStay` names the one step that changes an ended job, the
catch of its own completed update. `JobsOK` says that a row of the job table is
born by the last step of its handler, is `processing` as long as a worker holds
it, or `completed` while the worker is in that catch, and has an asset only
when it has been `completed`; with `RefsOK`, that asset is a live row of the
job's own key, although rows are deleted and made again between any two steps.

`SubtitleJobProofs` proves, for any number of parts and faults:

| Theorem | States |
|---|---|
| `AllPartsAreThere` | `CompleteHasAllParts` |
| `SourceIsKept` | `JobHasItsSource` |
| `OrphansAreExplained` | `NoOrphanSource` |
| `OfferedResultIsThere` | `OfferedFileExists` |
| `WorkDirsAreLeftByDeathOnly` | `WorkDirsAreRemoved` |
| `CompletionIsFinal` | `CompletedIsFinal` |
| `JobImplementsLifecycle` | `ImplementsLifecycle` |
| `AbortMeetsNoCompletion` | `AbortIsForFailedPuts` |
| `FailedCompletionIsNeverAborted` | `LeftOpen` is for ever |

`LanesOK`: the lanes hold every part between them, so "nobody holds one" means
that all are uploaded. `SourceOK`: once there is a row, only the pass, which
waits for the expiry, and the handler whose insert reported an error touch the
source. That handler deletes it, or its delete reports an error and may have
taken effect. `WorkOK`: the process has one directory while it works on a job,
and no stage of the worker but its catch meets a completed row
with another status to write. `StageOK`, inductive beside `SourceOK`, says
what each stage knows of the status. It makes every step one of `JobLifecycle`.
The mapping takes a row that is `completed` while the worker is in its catch
(the last update committed and reported an error) for one that still runs:
a reader sees it completed and may see it failed later, so the column alone
does not settle once, and `CompletionIsFinal` says what it does. `AbortOK`: an
abort is sent by the failure of a lane, so never beside a complete; and a
session that `completeUpload` leaves open stays open, which is the part of
finding 4 that fairness has nothing to do with.

`PopupDownloadProofs` proves, for any URLs, submits, openings and faults:

| Theorem | States |
|---|---|
| `BusyEnds` | `BusyIsUnderWay` |
| `OneSubmit` | `OneSubmitAtATime` |
| `ClickIsKept` | `StartsWhatWasClicked` |
| `OptionsAreKept` | `StoredAsShown` |

Every answer renders the snapshot anew and hands on `downloading`. `Busy` is
the first property, said of the status behind the screen; `Alone` says that
unless a failed save covered a submit the result and error screens, whose button opens the form
again, do not come up over a submit; `Clicked` that what is under way was
ready when it was clicked and is sent unchanged. The lemma `PopupAndApiAgree`
then says that the API takes every URL the popup makes. `StorageInv` is about
the queue of calls to chrome.storage, of any length: loads are those of popups
that were opened, and the current one waits for at most one; until an option
was changed before it was loaded, that load is the last call; and once it is
answered every call left is a save, the last of them with what is on the form
(`Kept`).

Only model-checked: the liveness properties, since fairness is out of the
prover's reach (`EveryJobSettles` of `WorkerQueue` and of `SubtitleJob`,
`EveryRequestEnds`, `EveryJobRuns`, `EverySubmitEnds`, `ExpiredIsRemoved`,
`EveryJobEnds`, `EveryHandlerEnds`), and the runs that refute something.
Induction over data is out of reach too: what the fold `Total` computes is not
proved, only that the decision about the size uses it for lists without a null.

## 7. Findings

1. Stuck for ever (`apps/worker/src/main.ts:463`). With two workers and a
   subtitle job that outlasts the timeout, the late worker writes
   `transcribing` by id into a row that was restored (`startedAt` is NULL). If
   it then dies, `restoreStuckJobs` cannot see the row, and every claim returns
   null because of it. The comment at `main.ts:193` promises that stuck jobs go
   back to the queue. One worker, as deployed, cannot get there.
2. Stale cleanup (`apps/api/src/downloads/asset-cleanup.service.ts:30`). The
   pass deletes objects by its snapshot without another look at `expiresAt`.
   If the worker uploads the same key and refreshes the row meanwhile, the new
   object is deleted and the job is shown as completed with a dead URL, where
   `docs/server/endpoints/get-downloads-job-id.md:15` promises `expired`.
3. Leaked slot (`apps/api/src/media/media-download.service.ts:64`). The
   counter is raised before `mkdtempSync`, outside the `try` whose `finally`
   lowers it. With a limit set, as many failures refuse every later download.
4. Upload never aborted
   (`apps/web/src/app/pages/subtitles-extract/_hooks/use-subtitles-extract-logic.ts:129`).
   `return completeSubtitleUpload(...)` without `await` passes the `catch`,
   and a canceled upload is skipped there, while
   `docs/api/current-implementation-prd.md:33` says abort clears failed and
   canceled uploads.

`docs/web/routes/video.md:35` says the submit button is disabled after a
failed health check. `canSubmit` looks at the last answer only, which
react-query keeps when a later request fails, so the button stays enabled
beside the notice (`CanSubmit` models this). The refetch of the submit still
stops the request, so this is noted here and has no run.

Further observations are cases that the properties exempt by name, because
the code does them and no document settles the matter:

- A create handler that stalls between HEAD and delete can remove an asset row
  that was refreshed in between (`FreshAssetKept`).
- The sweep can take the file of a delivery that lasts longer than the TTL
  (`OnlySweepCutsDelivery`).
- The last update of a job of either kind may commit and report an error; the
  catch then marks a completed job as failed (`SettledIsFinal`,
  `EndedJobsStay`; `ImplementsLifecycle` by its mapping).
- An insert that commits and reports an error is compensated by deleting the
  source, so a job is left without it and fails later; so it is when that
  delete reports an error of its own and has taken effect (`JobHasItsSource`).
- An option that is changed before the stored ones are loaded is replaced on
  the form by the load and stored all the same (`StoredAsShown`, by `early`).
- A result that the worker adds to an expired row after the pass has read it
  stays in the bucket (`ExpiredIsRemoved`).
- When the source cannot be read and the update to `failed` is rejected, the
  process ends before `rm` and leaves its work directory
  (`WorkDirsAreRemoved`, beside crashes and a failing `rm`).
- `docs/chrome-extension/current-implementation-fsd.md:113` names the
  prevention of a second start while one runs. A save that fails shows the
  error screen over the submit, and its button opens the form again
  (`OneSubmitAtATime` holds unless that has happened).

## 8. Not modelled

- File selection, wording and progress of the pages; file names and number
  ranges, which are string functions nobody else relies on.
- The checks of an uploaded source and of a part list: one loop over the input
  each. The page sends lists that pass, and R2 refuses what it does not have.
- Signing and streaming of R2, log redaction, layout, themes, pixel art, CORS,
  environment parsing, wiring, migrations: no state a property could be about.
- The tools that start the extension in development.
- A job that crashes its worker every time: the code has no rule against it
  and no document promises one. `EveryJobSettles` and `EveryJobEnds` bound the
  crashes.
- Hung programs: the worker has no timeout for yt-dlp, ffmpeg and whisper, so
  every liveness property assumes that they end.

## 9. Plan

Done, in the order of importance: `JobLifecycle`, `WorkerQueue`,
`DownloadPipeline`, `MediaQueue`, `SubtitleUpload`, `ExtractionRunner`,
`JobPage`, `SubtitleJob`, `Heartbeat`, `RequestRules`, `ExtractionRequest`,
`PopupDownload`, and the proofs about them. What is left:

1. `DownloadPipeline!Upload` refined by `ExtractionRequest`, as a mapping and
   not by name only.
2. The decisions of the worker about subtitle audio (size, empty SRT) against
   reference definitions, and the part list of complete for any client.
3. Two worker processes in `DownloadPipeline` and `SubtitleJob`; the
   deployment has one.

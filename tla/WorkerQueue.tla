---------------------------- MODULE WorkerQueue -----------------------------
(***************************************************************************)
(* The job queue of MyTube Extract: the two job tables of the database and *)
(* the worker processes that drain them (apps/worker/src/main.ts).         *)
(*                                                                         *)
(* A worker is a loop: two updates that give stuck jobs back, one          *)
(* serializable transaction that claims the oldest queued job of both      *)
(* tables, then the job itself.  Everything a worker writes after its      *)
(* claim is an UPDATE by id, with no condition on the row's status and     *)
(* none on who owns it, so whether two actors ever write the same row      *)
(* depends on the interleavings below.  Such an update may also report an  *)
(* error, before or after it has committed, and then the catch of the job  *)
(* writes once more.  What a job does in between (yt-dlp, ffmpeg, whisper, *)
(* R2) is left to DownloadPipeline and SubtitleJob; here it takes any time *)
(* and ends well, badly or with the process.                               *)
(*                                                                         *)
(* Time enters only through `startedAt < now - PROCESSING_TIMEOUT_MS`, so  *)
(* startedAt holds the AGE of the claim, capped one above Timeout.         *)
(* createdAt is only ever compared, so it is an arrival stamp: a new job   *)
(* either shares the stamp of the last one (same millisecond) or follows.  *)
(***************************************************************************)
EXTENDS Integers, FiniteSets

CONSTANTS
  Workers,     \* worker processes
  Downloads,   \* ids of ExtractionJob rows
  Subtitles,   \* ids of SubtitleJob rows
  Timeout,     \* PROCESSING_TIMEOUT_MS, in ticks
  Overrun,     \* may a live worker hold a job for longer than Timeout?
  MaxFaults    \* bound on crashes, lost claims and updates that report an error

ASSUME QueueAssumption ==
  /\ Downloads \subseteq Nat
  /\ Subtitles \subseteq Nat
  /\ Downloads \cap Subtitles = {}
  /\ Timeout \in Nat
  /\ Overrun \in BOOLEAN
  /\ MaxFaults \in Nat

Jobs == Downloads \cup Subtitles

NoJob == -1     \* the worker holds no job
NoStart == -1   \* startedAt IS NULL: never older than any cutoff

\* The operators named ...Mutant... are wrong variants of the definition that
\* follows them; no specification uses them.

\* The statuses under which a row counts as being processed.
ActiveDownload == {"processing"}
ActiveSubtitle == {"extracting_audio", "transcribing"}
Active == ActiveDownload \cup ActiveSubtitle
Settled == {"completed", "failed"}

\* "absent": not created yet; "removed": deleted by the hourly cleanup.
Status == {"absent", "queued", "removed"} \cup Active \cup Settled

\* Where a worker is in its loop.  While it works on a job its pc is the
\* status it believes the row to have; "fail" is the catch of an update that
\* has reported an error.
Pc == {"down", "restore_downloads", "restore_subtitles", "claim", "sleep", "fail"}
        \cup Active

VARIABLES
  status,      \* status[j]    : the status column of job j
  startedAt,   \* startedAt[j] : age of the claim, or NoStart
  createdAt,   \* createdAt[j] : arrival stamp of j
  lastStamp,   \* the newest arrival stamp
  pc,          \* pc[w]        : program counter of worker w
  held,        \* held[w]      : the job w works on
  faults       \* faults so far (bounds the model)

rows == <<status, startedAt, createdAt, lastStamp>>
vars == <<status, startedAt, createdAt, lastStamp, pc, held, faults>>

Init ==
  /\ status = [j \in Jobs |-> "absent"]
  /\ startedAt = [j \in Jobs |-> NoStart]
  /\ createdAt = [j \in Jobs |-> 0]
  /\ lastStamp = 0
  /\ pc = [w \in Workers |-> "down"]
  /\ held = [w \in Workers |-> NoJob]
  /\ faults = 0

-----------------------------------------------------------------------------
(* The API and the clock.                                                  *)

\* POST /downloads and POST /subtitles/uploads/complete insert a queued row.
Enqueue(j) ==
  /\ status[j] = "absent"
  /\ status' = [status EXCEPT ![j] = "queued"]
  /\ \E s \in {lastStamp, lastStamp + 1} :
       /\ createdAt' = [createdAt EXCEPT ![j] = s]
       /\ lastStamp' = s
  /\ UNCHANGED <<startedAt, pc, held, faults>>

\* The API's hourly cleanup deletes an expired subtitle row, whatever its
\* status: the query looks at expiresAt only.
RemoveRow(j) ==
  /\ status[j] \notin {"absent", "removed"}
  /\ status' = [status EXCEPT ![j] = "removed"]
  /\ startedAt' = [startedAt EXCEPT ![j] = NoStart]
  /\ UNCHANGED <<createdAt, lastStamp, pc, held, faults>>

Holding(w) == pc[w] \in Active \cup {"fail"}

Older(age) == IF age \in 0..Timeout THEN age + 1 ELSE age

\* One tick of the clock ages every claim.  Unless Overrun, time does not
\* carry the claim of a live worker past the timeout.
Tick ==
  /\ \E j \in Jobs : startedAt[j] \in 0..Timeout
  /\ Overrun \/ \A w \in Workers : Holding(w) => startedAt[held[w]] < Timeout
  /\ startedAt' = [j \in Jobs |-> Older(startedAt[j])]
  /\ UNCHANGED <<status, createdAt, lastStamp, pc, held, faults>>

-----------------------------------------------------------------------------
(* The worker.                                                             *)

\* The container is (re)started: restart: unless-stopped.
Start(w) ==
  /\ pc[w] = "down"
  /\ pc' = [pc EXCEPT ![w] = "restore_downloads"]
  /\ UNCHANGED <<rows, held, faults>>

Wake(w) ==
  /\ pc[w] = "sleep"
  /\ pc' = [pc EXCEPT ![w] = "restore_downloads"]
  /\ UNCHANGED <<rows, held, faults>>

\* updateMany: every row of the table in one of these statuses whose claim is
\* older than the timeout goes back to the queue.  A NULL startedAt is not
\* smaller than the cutoff.
StuckMutantAnyStatus(table, statuses) ==
  {j \in table : status[j] # "removed" /\ startedAt[j] > Timeout}

StuckMutantExtractingOnly(table, statuses) ==
  {j \in table : /\ status[j] \in statuses \ {"transcribing"}
                 /\ startedAt[j] > Timeout}

Stuck(table, statuses) ==
  {j \in table : status[j] \in statuses /\ startedAt[j] > Timeout}

Restore(stuck) ==
  /\ status' = [j \in Jobs |-> IF j \in stuck THEN "queued" ELSE status[j]]
  /\ startedAt' = [j \in Jobs |-> IF j \in stuck THEN NoStart
                                                 ELSE startedAt[j]]

RestoreDownloads(w) ==
  /\ pc[w] = "restore_downloads"
  /\ Restore(Stuck(Downloads, ActiveDownload))
  /\ pc' = [pc EXCEPT ![w] = "restore_subtitles"]
  /\ UNCHANGED <<createdAt, lastStamp, held, faults>>

RestoreSubtitles(w) ==
  /\ pc[w] = "restore_subtitles"
  /\ Restore(Stuck(Subtitles, ActiveSubtitle))
  /\ pc' = [pc EXCEPT ![w] = "claim"]
  /\ UNCHANGED <<createdAt, lastStamp, held, faults>>

\* orderBy createdAt asc, id asc.
Before(i, j) ==
  \/ createdAt[i] < createdAt[j]
  \/ createdAt[i] = createdAt[j] /\ i < j

Queued == {j \in Jobs : status[j] = "queued"}

NothingActiveMutantDownloadsOnly ==
  \A j \in Downloads : status[j] \notin Active

\* Neither table has a row in an active status.
NothingActive == \A j \in Jobs : status[j] \notin Active

IsNextMutantDownloadsFirst(j) ==
  /\ j \in Queued
  /\ \A i \in Queued : (i \in Downloads <=> j \in Downloads) => ~ Before(i, j)
  /\ j \in Subtitles => Downloads \cap Queued = {}

\* The oldest queued row of each table, then the older of the two.
IsNext(j) ==
  /\ j \in Queued
  /\ \A i \in Queued : ~ Before(i, j)

\* The serializable transaction commits a claim.
Claim(w, j) ==
  LET first == IF j \in Downloads THEN "processing" ELSE "extracting_audio"
  IN  /\ pc[w] = "claim"
      /\ NothingActive
      /\ IsNext(j)
      /\ status' = [status EXCEPT ![j] = first]
      /\ startedAt' = [startedAt EXCEPT ![j] = 0]
      /\ pc' = [pc EXCEPT ![w] = first]
      /\ held' = [held EXCEPT ![w] = j]
      /\ UNCHANGED <<createdAt, lastStamp, faults>>

\* It reads an active row, or no queued one.
ClaimNothing(w) ==
  /\ pc[w] = "claim"
  /\ ~ NothingActive \/ Queued = {}
  /\ pc' = [pc EXCEPT ![w] = "sleep"]
  /\ UNCHANGED <<rows, held, faults>>

Fault == faults < MaxFaults /\ faults' = faults + 1

\* P2034 three times in a row: the worker gives up until the next round.
ClaimConflict(w) ==
  /\ pc[w] = "claim"
  /\ Fault
  /\ pc' = [pc EXCEPT ![w] = "sleep"]
  /\ UNCHANGED <<rows, held>>

\* update({where: {id}}) of the held row commits: the row must still exist.
Write(w, value) ==
  /\ status[held[w]] # "removed"
  /\ status' = [status EXCEPT ![held[w]] = value]
  /\ UNCHANGED <<startedAt, createdAt, lastStamp>>

UpdateHeld(w, value) == Write(w, value) /\ UNCHANGED faults

\* It rejects: the row is gone (P2025), or the database fails, before or
\* after it has committed.
UpdateRejects(w, value) ==
  \/ status[held[w]] = "removed" /\ UNCHANGED <<rows, faults>>
  \/ Fault /\ (UNCHANGED rows \/ Write(w, value))

GoTo(w, place) ==
  /\ pc' = [pc EXCEPT ![w] = place]
  /\ UNCHANGED held

LeaveJob(w) ==
  /\ pc' = [pc EXCEPT ![w] = "restore_downloads"]
  /\ held' = [held EXCEPT ![w] = NoJob]

Die(w) ==
  /\ pc' = [pc EXCEPT ![w] = "down"]
  /\ held' = [held EXCEPT ![w] = NoJob]

\* The audio is extracted and small enough: whisper starts.
MarkTranscribing(w) ==
  /\ pc[w] = "extracting_audio"
  /\ \/ UpdateHeld(w, "transcribing") /\ GoTo(w, "transcribing")
     \/ UpdateRejects(w, "transcribing") /\ GoTo(w, "fail")

\* markCompleted, and the last update of processSubtitleJob: inside the try.
MarkCompleted(w) ==
  /\ pc[w] \in {"processing", "transcribing"}
  /\ \/ UpdateHeld(w, "completed") /\ LeaveJob(w)
     \/ UpdateRejects(w, "completed") /\ GoTo(w, "fail")

\* markFailed and markSubtitleFailed(UPLOAD_FAILED): inside the try, too.
BlameUpload(w) ==
  /\ pc[w] \in {"processing", "transcribing"}
  /\ \/ UpdateHeld(w, "failed") /\ LeaveJob(w)
     \/ UpdateRejects(w, "failed") /\ GoTo(w, "fail")

\* markFailed and markSubtitleFailed in the catch, which any step of a job may
\* reach.  No try surrounds it: its rejection ends the process.
MarkFailed(w) ==
  /\ Holding(w)
  /\ \/ UpdateHeld(w, "failed") /\ LeaveJob(w)
     \/ UpdateRejects(w, "failed") /\ Die(w)

\* SIGTERM, the OOM killer, or a database error outside a job's try block
\* (a claim or a restore that commits and reports an error is the claim or
\* the restore, and then this).
Crash(w) ==
  /\ pc[w] # "down"
  /\ Fault
  /\ Die(w)
  /\ UNCHANGED rows

Step(w) ==
  \/ Start(w)
  \/ Wake(w)
  \/ RestoreDownloads(w)
  \/ RestoreSubtitles(w)
  \/ \E j \in Jobs : Claim(w, j)
  \/ ClaimNothing(w)
  \/ MarkTranscribing(w)
  \/ MarkCompleted(w)
  \/ BlameUpload(w)
  \/ MarkFailed(w)

Next ==
  \/ \E j \in Jobs : Enqueue(j)
  \/ \E j \in Subtitles : RemoveRow(j)
  \/ Tick
  \/ \E w \in Workers : Step(w) \/ ClaimConflict(w) \/ Crash(w)

Spec == Init /\ [][Next]_vars

\* A live process keeps running its loop, docker restarts a dead one, the
\* programs a job runs end, and time passes.
Fairness ==
  /\ WF_vars(Tick)
  /\ \A w \in Workers : WF_vars(Step(w))

FairSpec == Spec /\ Fairness

-----------------------------------------------------------------------------
(* Properties.                                                             *)

TypeOK ==
  /\ status \in [Jobs -> Status]
  /\ startedAt \in [Jobs -> {NoStart} \cup 0..(Timeout + 1)]
  /\ createdAt \in [Jobs -> 0..lastStamp]
  /\ lastStamp \in Nat
  /\ pc \in [Workers -> Pc]
  /\ held \in [Workers -> {NoJob} \cup Jobs]
  /\ faults \in 0..MaxFaults

\* "worker는 한 번에 하나의 queued job을 FIFO로 처리한다": the database never
\* shows two jobs in progress, not even across crashes and restores.
AtMostOneActive ==
  \A i, j \in Jobs : status[i] \in Active /\ status[j] \in Active => i = j

\* startedAt is set from the claim on and cleared by a restore.  A row in
\* progress without it is invisible to restoreStuckJobs and blocks every later
\* claim; a queued row with it would be restored while it waits.
ClaimTimeMatches ==
  \A j \in Jobs :
    startedAt[j] # NoStart <=> status[j] \in Active \cup Settled

\* A job in progress has not overtaken a job that was queued before it, even
\* after the older one was given back by restoreStuckJobs.
NoOvertaking ==
  \A i, j \in Jobs :
    status[i] = "queued" /\ status[j] \in Active => createdAt[j] <= createdAt[i]

\* The worker that holds j is in the catch of an update of j.
InCatch(j) == \E w \in Workers : pc[w] = "fail" /\ held[w] = j

\* What a user has been told is final: whatever is restored, claimed or
\* written late, a completed or failed row changes only when the cleanup
\* deletes it.  The one exception: a job whose own last update committed and
\* reported an error is completed for as long as its worker is in the catch,
\* and the catch may write failed over it.
SettledIsFinal ==
  [][\A j \in Jobs : status[j] \in Settled =>
       \/ status'[j] \in {status[j], "removed"}
       \/ status[j] = "completed" /\ InCatch(j) /\ status'[j] = "failed"]_vars

\* Every queued job is eventually completed, failed or expired, whatever
\* crashes on the way (finitely often).
EveryJobSettles ==
  \A j \in Jobs : status[j] = "queued" ~> status[j] \in Settled \cup {"removed"}

\* "stuck processing job을 queued로 돌린다": no row stays in progress forever.
NoJobStuckForever ==
  \A j \in Jobs : status[j] \in Active ~> status[j] \notin Active

\* One worker and its queue implement the single FIFO server of JobLifecycle.
\* A last update that reported an error after it was committed has not settled
\* the job, although a reader of the row already sees it completed: the catch
\* decides.
Phase(j) ==
  CASE status[j] = "queued" -> "waiting"
    [] status[j] \in Active \/ (status[j] = "completed" /\ InCatch(j)) -> "running"
    [] OTHER -> status[j]

Lifecycle == INSTANCE JobLifecycle WITH
               Removable <- Subtitles, phase <- [j \in Jobs |-> Phase(j)]

ImplementsLifecycle == Lifecycle!Spec
=============================================================================

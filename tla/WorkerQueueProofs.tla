------------------------- MODULE WorkerQueueProofs --------------------------
(***************************************************************************)
(* Theorems about WorkerQueue for any set of workers and jobs.  They hold  *)
(* when no live worker holds a job for longer than the timeout, and for a  *)
(* single worker without that condition: its restore steps come between    *)
(* two jobs, never during one.  That the queue implements JobLifecycle is  *)
(* shown for a single worker: a second one may claim a job while the first *)
(* is in the catch of a job whose row says completed.                      *)
(***************************************************************************)
EXTENDS WorkerQueue, TLAPS

OneWorker == \A v, w \in Workers : v = w

\* The deployment condition: one worker, or jobs shorter than the timeout.
InTime == Overrun = FALSE \/ OneWorker

\* A worker's pc is the status of the row it holds, as long as the row exists;
\* in a catch the update that rejected may have written any status.
HeldRowMatches ==
  \A w \in Workers : Holding(w) =>
    /\ held[w] \in Jobs
    /\ status[held[w]] \in
         {"removed"} \cup IF pc[w] = "fail" THEN Active \cup Settled ELSE {pc[w]}

HeldInTime ==
  Overrun = FALSE =>
    \A w \in Workers : Holding(w) => startedAt[held[w]] <= Timeout

HeldByOne ==
  \A v, w \in Workers :
    Holding(v) /\ Holding(w) /\ held[v] = held[w] => v = w

\* The inductive invariant.
IInv ==
  /\ TypeOK
  /\ HeldRowMatches
  /\ HeldInTime
  /\ HeldByOne
  /\ AtMostOneActive
  /\ ClaimTimeMatches
  /\ NoOvertaking

-----------------------------------------------------------------------------
\* An empty queue satisfies the inductive invariant.
LEMMA InitIInv == Init => IInv
  BY QueueAssumption
  DEF Init, IInv, TypeOK, HeldRowMatches, HeldInTime, HeldByOne,
      AtMostOneActive, ClaimTimeMatches, NoOvertaking, Holding, Status, Pc,
      Active, ActiveDownload, ActiveSubtitle, Settled, NoStart, NoJob, Jobs

\* A row that restoreStuckJobs gives back is held by nobody.
LEMMA StuckNotHeld ==
  ASSUME InTime, IInv,
         NEW v \in Workers, ~ Holding(v),
         NEW table \in SUBSET Jobs, NEW statuses \in SUBSET Active,
         NEW w \in Workers, Holding(w)
  PROVE  held[w] \notin Stuck(table, statuses)
<1>1. CASE Overrun = FALSE
  <2>1. startedAt[held[w]] <= Timeout /\ held[w] \in Jobs
    BY <1>1 DEF IInv, HeldInTime, HeldRowMatches
  <2>2. startedAt[held[w]] \in Int /\ Timeout \in Int
    BY <2>1, QueueAssumption DEF IInv, TypeOK, NoStart
  <2>3. QED
    BY <2>1, <2>2 DEF Stuck
<1>2. CASE \A x, y \in Workers : x = y
  BY <1>2
<1>3. QED
  BY <1>1, <1>2 DEF InTime, OneWorker

-----------------------------------------------------------------------------
(* One lemma per group of actions: each keeps the inductive invariant.     *)

\* A new row is queued and newer than every active one.
LEMMA EnqueueIInv ==
  ASSUME IInv, NEW j \in Jobs, Enqueue(j)
  PROVE  IInv'
<1> USE QueueAssumption
<1>1. PICK s \in {lastStamp, lastStamp + 1} :
        createdAt' = [createdAt EXCEPT ![j] = s] /\ lastStamp' = s
  BY DEF Enqueue
<1>2. TypeOK'
  BY <1>1 DEF IInv, TypeOK, Enqueue, Status
<1>3. HeldRowMatches' /\ HeldInTime' /\ HeldByOne'
  BY DEF IInv, TypeOK, HeldRowMatches, HeldInTime, HeldByOne, Enqueue,
         Holding, Active, ActiveDownload, ActiveSubtitle, Settled
<1>4. AtMostOneActive' /\ ClaimTimeMatches'
  BY DEF IInv, TypeOK, AtMostOneActive, ClaimTimeMatches, Enqueue, Active,
         ActiveDownload, ActiveSubtitle, Settled
<1>5. NoOvertaking'
  BY <1>1 DEF IInv, TypeOK, NoOvertaking, Enqueue, Active, ActiveDownload,
              ActiveSubtitle
<1>6. QED
  BY <1>2, <1>3, <1>4, <1>5 DEF IInv

\* The cleanup of a subtitle row only makes fewer rows active or queued.
LEMMA RemoveRowIInv ==
  ASSUME IInv, NEW j \in Jobs, RemoveRow(j)
  PROVE  IInv'
<1> USE QueueAssumption
<1>1. TypeOK'
  BY DEF IInv, TypeOK, RemoveRow, Status, NoStart
<1>2. HeldRowMatches' /\ HeldInTime' /\ HeldByOne'
  BY DEF IInv, TypeOK, HeldRowMatches, HeldInTime, HeldByOne, RemoveRow,
         Holding, Active, ActiveDownload, ActiveSubtitle, NoStart
<1>3. AtMostOneActive' /\ ClaimTimeMatches' /\ NoOvertaking'
  BY DEF IInv, TypeOK, AtMostOneActive, ClaimTimeMatches, NoOvertaking,
         RemoveRow, Active, ActiveDownload, ActiveSubtitle, Settled, NoStart
<1>4. QED
  BY <1>1, <1>2, <1>3 DEF IInv

\* The clock ages claims and changes no status.
LEMMA TickIInv ==
  ASSUME IInv, Tick
  PROVE  IInv'
<1> USE QueueAssumption DEF Tick, Older, NoStart
<1>1. TypeOK'
  BY DEF IInv, TypeOK
<1>2. HeldRowMatches' /\ HeldByOne'
  BY DEF IInv, HeldRowMatches, HeldByOne, Holding
<1>3. HeldInTime'
  BY DEF IInv, TypeOK, HeldInTime, HeldRowMatches, Holding
<1>4. AtMostOneActive' /\ ClaimTimeMatches' /\ NoOvertaking'
  BY DEF IInv, TypeOK, AtMostOneActive, ClaimTimeMatches, NoOvertaking
<1>5. QED
  BY <1>1, <1>2, <1>3, <1>4 DEF IInv

\* Either half of restoreStuckJobs, for the rows it finds stuck.
LEMMA RestoreIInv ==
  ASSUME InTime, IInv, NEW w \in Workers, ~ Holding(w),
         NEW table \in SUBSET Jobs, NEW statuses \in SUBSET Active,
         Restore(Stuck(table, statuses)),
         NEW next \in Pc \ (Active \cup {"fail"}), pc' = [pc EXCEPT ![w] = next],
         UNCHANGED <<createdAt, lastStamp, held, faults>>
  PROVE  IInv'
<1> DEFINE S == Stuck(table, statuses)
<1>1. S \subseteq {j \in Jobs : status[j] \in Active}
  BY DEF Stuck
<1>2. status' = [j \in Jobs |-> IF j \in S THEN "queued" ELSE status[j]]
      /\ startedAt' = [j \in Jobs |-> IF j \in S THEN NoStart ELSE startedAt[j]]
  BY DEF Restore
<1>3. \A v \in Workers : Holding(v)' <=> Holding(v)
  BY DEF IInv, TypeOK, Holding
<1>4. \A v \in Workers : Holding(v) => held[v] \notin S
  BY StuckNotHeld
<1> HIDE DEF S
<1>5. TypeOK'
  BY <1>2, QueueAssumption DEF IInv, TypeOK, Status, NoStart
<1>6. HeldRowMatches' /\ HeldInTime' /\ HeldByOne'
  BY <1>2, <1>3, <1>4
  DEF IInv, TypeOK, HeldRowMatches, HeldInTime, HeldByOne, Holding
<1>7. AtMostOneActive' /\ ClaimTimeMatches'
  BY <1>1, <1>2
  DEF IInv, TypeOK, AtMostOneActive, ClaimTimeMatches, Active, ActiveDownload,
      ActiveSubtitle, Settled
<1>8. NoOvertaking'
  <2> SUFFICES ASSUME NEW i \in Jobs, NEW j \in Jobs,
                      status'[i] = "queued", status'[j] \in Active
               PROVE  createdAt'[j] <= createdAt'[i]
    BY DEF NoOvertaking
  <2>1. j \notin S /\ status[j] \in Active
    BY <1>2 DEF Active, ActiveDownload, ActiveSubtitle
  <2>2. i \notin S
    BY <1>1, <1>2, <2>1 DEF IInv, AtMostOneActive
  <2>3. QED
    BY <1>2, <2>1, <2>2 DEF IInv, NoOvertaking
<1>9. QED
  BY <1>5, <1>6, <1>7, <1>8 DEF IInv

\* The claim: nothing was active and no queued row is older.
LEMMA ClaimIInv ==
  ASSUME IInv, NEW w \in Workers, NEW j \in Jobs, Claim(w, j)
  PROVE  IInv'
<1> DEFINE first == IF j \in Downloads THEN "processing" ELSE "extracting_audio"
<1>1. /\ pc[w] = "claim"
      /\ status[j] = "queued"
      /\ \A i \in Jobs : status[i] \notin Active
      /\ \A i \in Jobs : status[i] = "queued" => createdAt[j] <= createdAt[i]
  BY DEF Claim, NothingActive, IsNext, Queued, Before, IInv, TypeOK
<1>2. /\ status' = [status EXCEPT ![j] = first]
      /\ startedAt' = [startedAt EXCEPT ![j] = 0]
      /\ pc' = [pc EXCEPT ![w] = first]
      /\ held' = [held EXCEPT ![w] = j]
      /\ UNCHANGED <<createdAt, lastStamp, faults>>
  BY DEF Claim
<1>3. first \in Active /\ first \in Status /\ first \in Pc
  BY DEF Active, ActiveDownload, ActiveSubtitle, Status, Pc
<1> HIDE DEF first
<1>4. TypeOK'
  BY <1>2, <1>3, QueueAssumption DEF IInv, TypeOK
<1>5. \A v \in Workers : v # w => (Holding(v)' <=> Holding(v))
  BY <1>2 DEF IInv, TypeOK, Holding
<1>6. \A v \in Workers : v # w /\ Holding(v) => held[v] \in Jobs \ {j}
  BY <1>1 DEF IInv, HeldRowMatches, Holding, Active, ActiveDownload,
              ActiveSubtitle, Settled
<1>7. HeldRowMatches' /\ HeldInTime' /\ HeldByOne'
  BY <1>1, <1>2, <1>3, <1>5, <1>6, QueueAssumption
  DEF IInv, TypeOK, HeldRowMatches, HeldInTime, HeldByOne, Holding
<1>8. AtMostOneActive' /\ NoOvertaking'
  BY <1>1, <1>2, <1>3 DEF IInv, TypeOK, AtMostOneActive, NoOvertaking
<1>9. ClaimTimeMatches'
  BY <1>2, <1>3 DEF IInv, TypeOK, ClaimTimeMatches, NoStart
<1>10. QED
  BY <1>4, <1>7, <1>8, <1>9 DEF IInv

\* A step that only moves an idle worker along its loop.
LEMMA MoveIInv ==
  ASSUME IInv, NEW w \in Workers, ~ Holding(w),
         NEW next \in Pc \ (Active \cup {"fail"}), pc' = [pc EXCEPT ![w] = next],
         UNCHANGED <<rows, held>>, faults' \in 0..MaxFaults
  PROVE  IInv'
<1> USE DEF rows
<1>1. \A v \in Workers : (Holding(v)' <=> Holding(v))
                         /\ (Holding(v) => pc'[v] = pc[v])
  BY DEF IInv, TypeOK, Holding
<1>2. TypeOK'
  BY DEF IInv, TypeOK
<1>3. HeldRowMatches' /\ HeldInTime' /\ HeldByOne'
  BY <1>1 DEF IInv, HeldRowMatches, HeldInTime, HeldByOne
<1>4. AtMostOneActive' /\ ClaimTimeMatches' /\ NoOvertaking'
  BY DEF IInv, AtMostOneActive, ClaimTimeMatches, NoOvertaking
<1>5. QED
  BY <1>2, <1>3, <1>4 DEF IInv

\* A worker that lets go of its job without touching the database.
LEMMA DieIInv ==
  ASSUME IInv, NEW w \in Workers, Die(w), UNCHANGED rows,
         faults' \in 0..MaxFaults
  PROVE  IInv'
<1> USE DEF Die, rows
<1>1. \A v \in Workers :
        Holding(v)' => Holding(v) /\ pc'[v] = pc[v] /\ held'[v] = held[v]
  BY DEF IInv, TypeOK, Holding, Active, ActiveDownload, ActiveSubtitle
<1>2. TypeOK'
  BY DEF IInv, TypeOK, Pc
<1>3. HeldRowMatches' /\ HeldInTime' /\ HeldByOne'
  BY <1>1 DEF IInv, HeldRowMatches, HeldInTime, HeldByOne
<1>4. AtMostOneActive' /\ ClaimTimeMatches' /\ NoOvertaking'
  BY DEF IInv, AtMostOneActive, ClaimTimeMatches, NoOvertaking
<1>5. QED
  BY <1>2, <1>3, <1>4 DEF IInv

\* A worker that writes to the row it holds, or finds it removed, and goes on
\* to the catch, to whisper, to its loop, or dies.
LEMMA WriteIInv ==
  ASSUME IInv, NEW w \in Workers, Holding(w),
         NEW value \in {"transcribing", "completed", "failed"},
         value = "transcribing" => pc[w] = "extracting_audio",
         Write(w, value) \/ UNCHANGED rows,
         \/ GoTo(w, "transcribing") /\ Write(w, "transcribing")
         \/ GoTo(w, "fail") \/ LeaveJob(w) \/ Die(w),
         faults' \in 0..MaxFaults
  PROVE  IInv'
<1> USE DEF Active, ActiveDownload, ActiveSubtitle, Settled
<1>1. /\ held[w] \in Jobs /\ pc[w] \in Pc
      /\ status[held[w]] \in Active \cup Settled \cup {"removed"}
      /\ value = "transcribing" =>
           status[held[w]] \in {"extracting_audio", "removed"}
  BY DEF IInv, TypeOK, HeldRowMatches, Holding, Write
<1>2. /\ createdAt' = createdAt /\ lastStamp' = lastStamp
      /\ startedAt' = startedAt
      /\ \/ status' = status
         \/ /\ status[held[w]] # "removed"
            /\ status' = [status EXCEPT ![held[w]] = value]
  BY DEF Write, rows
<1>3. TypeOK'
  BY <1>1, <1>2
  DEF IInv, TypeOK, Status, Pc, GoTo, LeaveJob, Die
<1>4. \A v \in Workers \ {w} : /\ Holding(v)' <=> Holding(v)
                               /\ pc'[v] = pc[v] /\ held'[v] = held[v]
  BY DEF IInv, TypeOK, Holding, GoTo, LeaveJob, Die
<1>5. Holding(w)' => held'[w] = held[w]
  BY DEF IInv, TypeOK, Holding, GoTo, LeaveJob, Die
<1>6. HeldRowMatches'
  <2>1. ASSUME NEW v \in Workers \ {w}, Holding(v)'
        PROVE  held'[v] # held[w] /\ Holding(v)
    BY <1>4, <2>1 DEF IInv, HeldByOne
  <2>2. ASSUME Holding(w)'
        PROVE  \/ pc'[w] = "fail" /\ status'[held[w]] \in Active \cup Settled \cup {"removed"}
               \/ pc'[w] = "transcribing" /\ status'[held[w]] = "transcribing"
    BY <1>1, <1>2, <2>2
    DEF IInv, TypeOK, Holding, Write, GoTo, LeaveJob, Die
  <2>3. QED
    BY <1>1, <1>2, <1>4, <1>5, <2>1, <2>2 DEF IInv, TypeOK, HeldRowMatches
<1>7. HeldInTime' /\ HeldByOne'
  BY <1>2, <1>4, <1>5 DEF IInv, HeldInTime, HeldByOne
<1>8. AtMostOneActive' /\ NoOvertaking'
  BY <1>1, <1>2 DEF IInv, TypeOK, AtMostOneActive, NoOvertaking
<1>9. ClaimTimeMatches'
  BY <1>1, <1>2 DEF IInv, TypeOK, ClaimTimeMatches
<1>10. QED
  BY <1>3, <1>6, <1>7, <1>8, <1>9 DEF IInv

\* The four actions that write to the held row.
LEMMA JobStepIInv ==
  ASSUME IInv, NEW w \in Workers,
         \/ MarkTranscribing(w) \/ MarkCompleted(w)
         \/ BlameUpload(w) \/ MarkFailed(w)
  PROVE  IInv'
<1>1. Holding(w) /\ faults' \in 0..MaxFaults
  BY QueueAssumption
  DEF MarkTranscribing, MarkCompleted, BlameUpload, MarkFailed, Holding,
      UpdateHeld, UpdateRejects, Fault, IInv, TypeOK, Active, ActiveDownload,
      ActiveSubtitle
<1>2. CASE MarkTranscribing(w)
  <2>1. /\ pc[w] = "extracting_audio"
        /\ Write(w, "transcribing") \/ UNCHANGED rows
        /\ \/ GoTo(w, "transcribing") /\ Write(w, "transcribing")
           \/ GoTo(w, "fail")
    BY <1>2 DEF MarkTranscribing, UpdateHeld, UpdateRejects
  <2>2. QED
    BY <1>1, <2>1, WriteIInv
<1>3. CASE MarkCompleted(w)
  <2>1. /\ Write(w, "completed") \/ UNCHANGED rows
        /\ GoTo(w, "fail") \/ LeaveJob(w)
    BY <1>3 DEF MarkCompleted, UpdateHeld, UpdateRejects
  <2>2. QED
    BY <1>1, <2>1, WriteIInv
<1>4. CASE BlameUpload(w) \/ MarkFailed(w)
  <2>1. /\ Write(w, "failed") \/ UNCHANGED rows
        /\ GoTo(w, "fail") \/ LeaveJob(w) \/ Die(w)
    BY <1>4 DEF BlameUpload, MarkFailed, UpdateHeld, UpdateRejects
  <2>2. QED
    BY <1>1, <2>1, WriteIInv
<1>5. QED
  BY <1>2, <1>3, <1>4

-----------------------------------------------------------------------------
\* Every step of a worker is covered by one of the lemmas above.
LEMMA StepIInv ==
  ASSUME InTime, IInv, NEW w \in Workers, Step(w)
  PROVE  IInv'
<1> USE DEF Active, ActiveDownload, ActiveSubtitle
<1>1. CASE Start(w)
  BY <1>1, MoveIInv DEF Start, Holding, Pc, IInv, TypeOK
<1>2. CASE Wake(w)
  BY <1>2, MoveIInv DEF Wake, Holding, Pc, IInv, TypeOK
<1>3. CASE RestoreDownloads(w)
  <2>1. ~ Holding(w) /\ "restore_subtitles" \in Pc \ (Active \cup {"fail"})
    BY <1>3 DEF RestoreDownloads, Holding, Pc
  <2>2. Downloads \in SUBSET Jobs /\ ActiveDownload \in SUBSET Active
    BY DEF Jobs
  <2>3. /\ Restore(Stuck(Downloads, ActiveDownload))
        /\ pc' = [pc EXCEPT ![w] = "restore_subtitles"]
        /\ UNCHANGED <<createdAt, lastStamp, held, faults>>
    BY <1>3 DEF RestoreDownloads
  <2> HIDE DEF Active, ActiveDownload
  <2>4. QED
    BY <2>1, <2>2, <2>3, RestoreIInv
<1>4. CASE RestoreSubtitles(w)
  <2>1. ~ Holding(w) /\ "claim" \in Pc \ (Active \cup {"fail"})
    BY <1>4 DEF RestoreSubtitles, Holding, Pc
  <2>2. Subtitles \in SUBSET Jobs /\ ActiveSubtitle \in SUBSET Active
    BY DEF Jobs
  <2>3. /\ Restore(Stuck(Subtitles, ActiveSubtitle))
        /\ pc' = [pc EXCEPT ![w] = "claim"]
        /\ UNCHANGED <<createdAt, lastStamp, held, faults>>
    BY <1>4 DEF RestoreSubtitles
  <2> HIDE DEF Active, ActiveSubtitle
  <2>4. QED
    BY <2>1, <2>2, <2>3, RestoreIInv
<1>5. CASE \E j \in Jobs : Claim(w, j)
  BY <1>5, ClaimIInv
<1>6. CASE ClaimNothing(w)
  BY <1>6, MoveIInv DEF ClaimNothing, Holding, Pc, IInv, TypeOK
<1>7. CASE \/ MarkTranscribing(w) \/ MarkCompleted(w)
           \/ BlameUpload(w) \/ MarkFailed(w)
  BY <1>7, JobStepIInv
<1>8. QED
  BY <1>1, <1>2, <1>3, <1>4, <1>5, <1>6, <1>7 DEF Step

\* Every step of the system keeps the inductive invariant.
LEMMA NextIInv ==
  ASSUME InTime, IInv, [Next]_vars
  PROVE  IInv'
<1>1. CASE \E j \in Jobs : Enqueue(j)
  BY <1>1, EnqueueIInv
<1>2. CASE \E j \in Subtitles : RemoveRow(j)
  BY <1>2, RemoveRowIInv DEF Jobs
<1>3. CASE Tick
  BY <1>3, TickIInv
<1>4. ASSUME NEW w \in Workers, Step(w)
      PROVE  IInv'
  BY <1>4, StepIInv
<1>5. ASSUME NEW w \in Workers, ClaimConflict(w)
      PROVE  IInv'
  <2>1. ~ Holding(w) /\ "sleep" \in Pc \ (Active \cup {"fail"})
    BY <1>5
    DEF ClaimConflict, Holding, Pc, Active, ActiveDownload, ActiveSubtitle
  <2>2. /\ pc' = [pc EXCEPT ![w] = "sleep"]
        /\ UNCHANGED <<rows, held>>
        /\ faults' \in 0..MaxFaults
    BY <1>5, QueueAssumption DEF ClaimConflict, Fault, IInv, TypeOK
  <2>3. QED
    BY <2>1, <2>2, MoveIInv
<1>6. ASSUME NEW w \in Workers, Crash(w)
      PROVE  IInv'
  BY <1>6, DieIInv, QueueAssumption DEF Crash, Fault, IInv, TypeOK
<1>7. CASE UNCHANGED vars
  BY <1>7
  DEF vars, IInv, TypeOK, HeldRowMatches, HeldInTime, HeldByOne, Holding,
      AtMostOneActive, ClaimTimeMatches, NoOvertaking
<1>8. QED
  BY <1>1, <1>2, <1>3, <1>4, <1>5, <1>6, <1>7 DEF Next

\* The invariant behind the theorems below: types, one active row, claim
\* times, FIFO, and that a worker and the row it holds agree.
THEOREM InductiveInvariant == ASSUME InTime PROVE Spec => []IInv
<1>1. Init => IInv
  BY InitIInv
<1>2. IInv /\ [Next]_vars => IInv'
  BY NextIInv
<1>3. QED
  BY <1>1, <1>2, PTL DEF Spec

\* Every variable keeps its type: in particular createdAt never exceeds the
\* last stamp handed out.
THEOREM TypeCorrect == ASSUME InTime PROVE Spec => []TypeOK
  BY InductiveInvariant, PTL DEF IInv

\* "worker는 한 번에 하나의 queued job을 FIFO로 처리한다": however many workers
\* run, crash and restore, at most one row is in progress.
THEOREM OneJobAtATime == ASSUME InTime PROVE Spec => []AtMostOneActive
  BY InductiveInvariant, PTL DEF IInv

\* The FIFO half of the same sentence: no claim, restore or late insert puts
\* a job ahead of one that was queued strictly before it.
THEOREM FirstComeFirstServed == ASSUME InTime PROVE Spec => []NoOvertaking
  BY InductiveInvariant, PTL DEF IInv

\* Every row in progress can be found by restoreStuckJobs.
THEOREM RestoreSeesEveryActiveRow ==
  ASSUME InTime PROVE Spec => []ClaimTimeMatches
  BY InductiveInvariant, PTL DEF IInv

-----------------------------------------------------------------------------
\* No restore, no claim and no late update changes a row its user has seen
\* completed or failed; only the cleanup deletes it, and only the catch of a
\* job's own completed update writes failed over it.
THEOREM SettledRowsAreFinal == ASSUME InTime PROVE Spec => SettledIsFinal
<1> DEFINE Final ==
      \A j \in Jobs : status[j] \in Settled =>
        \/ status'[j] \in {status[j], "removed"}
        \/ status[j] = "completed" /\ InCatch(j) /\ status'[j] = "failed"
<1>1. ASSUME IInv, [Next]_vars
      PROVE  Final
  <2> USE DEF Active, ActiveDownload, ActiveSubtitle, Settled
  <2>1. CASE \E j \in Jobs : Enqueue(j)
    BY <1>1, <2>1 DEF Enqueue, IInv, TypeOK
  <2>2. CASE \E j \in Subtitles : RemoveRow(j)
    BY <1>1, <2>2 DEF RemoveRow, IInv, TypeOK
  <2>3. CASE Tick \/ UNCHANGED vars
    BY <2>3 DEF Tick, vars
  <2>4. ASSUME NEW w \in Workers, RestoreDownloads(w) \/ RestoreSubtitles(w)
        PROVE  Final
    BY <2>4 DEF RestoreDownloads, RestoreSubtitles, Restore, Stuck, Jobs
  <2>5. ASSUME NEW w \in Workers, NEW j \in Jobs, Claim(w, j)
        PROVE  Final
    BY <1>1, <2>5 DEF Claim, IsNext, Queued, IInv, TypeOK
  <2>6. ASSUME NEW w \in Workers,
               \/ MarkTranscribing(w) \/ MarkCompleted(w)
               \/ BlameUpload(w) \/ MarkFailed(w)
        PROVE  Final
    <3>1. Holding(w) /\ held[w] \in Jobs
      BY <1>1, <2>6
      DEF MarkTranscribing, MarkCompleted, BlameUpload, MarkFailed, Holding,
          IInv, HeldRowMatches
    <3>2. \/ status[held[w]] \in Active \cup {"removed"}
          \/ pc[w] = "fail" /\ status[held[w]] \in Settled
      BY <1>1, <3>1 DEF IInv, HeldRowMatches, Holding
    <3>3. \/ status' = status
          \/ \E value \in {"transcribing", "completed", "failed"} :
               /\ status' = [status EXCEPT ![held[w]] = value]
               /\ status[held[w]] # "removed"
               /\ pc[w] = "fail" => value = "failed"
      BY <2>6
      DEF MarkTranscribing, MarkCompleted, BlameUpload, MarkFailed, UpdateHeld,
          UpdateRejects, Write, rows
    <3>4. pc[w] = "fail" => InCatch(held[w])
      BY DEF InCatch
    <3>5. QED
      BY <1>1, <3>1, <3>2, <3>3, <3>4 DEF IInv, TypeOK
  <2>7. ASSUME NEW w \in Workers,
               \/ Start(w) \/ Wake(w) \/ ClaimNothing(w) \/ ClaimConflict(w)
               \/ Crash(w)
        PROVE  Final
    BY <2>7 DEF Start, Wake, ClaimNothing, ClaimConflict, Crash, rows
  <2>8. QED
    BY <1>1, <2>1, <2>2, <2>3, <2>4, <2>5, <2>6, <2>7 DEF Next, Step
<1>2. IInv /\ [Next]_vars => [Final]_vars
  BY <1>1
<1>3. QED
  BY <1>2, InductiveInvariant, PTL DEF Spec, SettledIsFinal

-----------------------------------------------------------------------------
(* One worker and its queue implement the FIFO server of JobLifecycle.     *)

PhaseFn == [j \in Jobs |-> Phase(j)]

\* A step that leaves every row's phase and stamp alone is a stutter.
LEMMA SamePhaseStutters ==
  ASSUME \A j \in Jobs : Phase(j)' = Phase(j), UNCHANGED <<createdAt, lastStamp>>
  PROVE  UNCHANGED Lifecycle!vars
<1>1. UNCHANGED PhaseFn
  BY DEF PhaseFn, Jobs
<1>2. QED
  BY <1>1 DEF PhaseFn, Lifecycle!vars

\* A row update outside a catch is an update of the phase.
LEMMA PhaseUpdate ==
  ASSUME TypeOK, NEW j \in Jobs, NEW value \in Status \ {"completed"},
         status' = [status EXCEPT ![j] = value],
         \A i \in Jobs : i # j => (InCatch(i)' <=> InCatch(i))
  PROVE  PhaseFn' = [PhaseFn EXCEPT ![j] =
                       IF value \in Active THEN "running"
                       ELSE IF value = "queued" THEN "waiting" ELSE value]
<1>1. \A i \in Jobs : i # j => Phase(i)' = Phase(i)
  BY DEF TypeOK, Phase
<1>2. Phase(j)' = IF value \in Active THEN "running"
                  ELSE IF value = "queued" THEN "waiting" ELSE value
  BY DEF TypeOK, Phase, Active, ActiveDownload, ActiveSubtitle
<1>3. QED
  BY <1>1, <1>2 DEF PhaseFn, Jobs

\* The insert of a queued row is a Submit.
LEMMA EnqueueSubmits ==
  ASSUME TypeOK, NEW j \in Jobs, Enqueue(j)
  PROVE  Lifecycle!Submit(j)
<1>1. PhaseFn' = [PhaseFn EXCEPT ![j] = "waiting"]
  BY PhaseUpdate
  DEF Enqueue, InCatch, Active, ActiveDownload, ActiveSubtitle, Status
<1>2. PhaseFn[j] = "absent"
  BY DEF Enqueue, PhaseFn, Phase, Active, ActiveDownload, ActiveSubtitle
<1>3. QED
  BY <1>1, <1>2 DEF Enqueue, Lifecycle!Submit, PhaseFn

\* The cleanup of a subtitle row is a Remove.
LEMMA RemoveRowRemoves ==
  ASSUME TypeOK, NEW j \in Jobs, RemoveRow(j)
  PROVE  Lifecycle!Remove(j)
<1>1. PhaseFn' = [PhaseFn EXCEPT ![j] = "removed"]
  BY PhaseUpdate
  DEF RemoveRow, InCatch, Active, ActiveDownload, ActiveSubtitle, Status
<1>2. PhaseFn[j] \notin {"absent", "removed"}
  BY DEF RemoveRow, PhaseFn, Phase, Active, ActiveDownload, ActiveSubtitle
<1>3. QED
  BY <1>1, <1>2 DEF RemoveRow, Lifecycle!Remove, PhaseFn

\* A claim is a Start of the first job in line.
LEMMA ClaimStarts ==
  ASSUME OneWorker, TypeOK, NEW w \in Workers, NEW j \in Jobs, Claim(w, j)
  PROVE  Lifecycle!Start(j)
<1>1. \A i \in Jobs : ~ InCatch(i) /\ ~ InCatch(i)'
  <2>1. pc[w] # "fail" /\ pc'[w] # "fail"
    BY DEF Claim, TypeOK
  <2>2. QED
    BY <2>1 DEF OneWorker, InCatch
<1>2. PhaseFn' = [PhaseFn EXCEPT ![j] = "running"]
  BY <1>1, PhaseUpdate
  DEF Claim, Active, ActiveDownload, ActiveSubtitle, Status
<1>3. /\ PhaseFn[j] = "waiting"
      /\ \A i \in Jobs : PhaseFn[i] # "running"
  BY <1>1 DEF Claim, NothingActive, IsNext, Queued, TypeOK, Status, PhaseFn,
         Phase, Active, ActiveDownload, ActiveSubtitle, Settled
<1>4. \A i \in Jobs : PhaseFn[i] = "waiting" => ~ Lifecycle!Before(i, j)
  BY DEF Claim, IsNext, Queued, Before, Lifecycle!Before, TypeOK, Status,
         PhaseFn, Phase, Active, ActiveDownload, ActiveSubtitle, Settled
<1>5. QED
  BY <1>2, <1>3, <1>4 DEF Claim, Lifecycle!Start, PhaseFn

\* A restore gives back one row or none: there is only one in progress.
LEMMA RestoreRequeues ==
  ASSUME TypeOK, AtMostOneActive,
         NEW table \in SUBSET Jobs, NEW statuses \in SUBSET Active,
         Restore(Stuck(table, statuses)), UNCHANGED <<createdAt, lastStamp>>,
         \A i \in Jobs : InCatch(i)' <=> InCatch(i)
  PROVE  \/ \E j \in Jobs : Lifecycle!Requeue(j)
         \/ UNCHANGED Lifecycle!vars
<1>1. CASE Stuck(table, statuses) = {}
  <2>1. \A j \in Jobs : status'[j] = status[j]
    BY <1>1 DEF Restore
  <2>2. QED
    BY <2>1, SamePhaseStutters DEF Phase
<1>2. CASE Stuck(table, statuses) # {}
  <2>1. PICK j \in Jobs : Stuck(table, statuses) = {j} /\ status[j] \in Active
    BY <1>2 DEF Stuck, AtMostOneActive
  <2>2. status' = [status EXCEPT ![j] = "queued"]
    BY <2>1 DEF Restore, TypeOK
  <2>3. PhaseFn' = [PhaseFn EXCEPT ![j] = "waiting"]
    BY <2>2, PhaseUpdate
    DEF Active, ActiveDownload, ActiveSubtitle, Status
  <2>4. PhaseFn[j] = "running"
    BY <2>1 DEF PhaseFn, Phase, Active, ActiveDownload, ActiveSubtitle
  <2>5. Lifecycle!Requeue(j)
    BY <2>3, <2>4 DEF Lifecycle!Requeue, PhaseFn
  <2>6. QED
    BY <2>5
<1>3. QED
  BY <1>1, <1>2

\* A step of the only worker that touches no row but the one it holds: the
\* job goes on, it is settled, or it had been settled before.
LEMMA HeldRowStep ==
  ASSUME OneWorker, TypeOK, NEW w \in Workers, NEW j \in Jobs, held[w] = j,
         held'[w] \in {j, NoJob},
         \/ status' = status
         \/ \E value : status' = [status EXCEPT ![j] = value],
         UNCHANGED <<createdAt, lastStamp>>,
         \/ Phase(j)' = Phase(j)
         \/ Phase(j) = "running" /\ Phase(j)' \in Settled,
         \A i \in Jobs : i # NoJob
  PROVE  Lifecycle!Next \/ UNCHANGED Lifecycle!vars
<1>1. \A i \in Jobs : i # j => ~ InCatch(i) /\ ~ InCatch(i)'
  BY DEF OneWorker, InCatch
<1>2. \A i \in Jobs : i # j => status'[i] = status[i]
  BY DEF TypeOK
<1>3. \A i \in Jobs : i # j => Phase(i)' = Phase(i)
  BY <1>1, <1>2 DEF Phase
<1>4. CASE Phase(j)' = Phase(j)
  BY <1>3, <1>4, SamePhaseStutters
<1>5. CASE Phase(j) = "running" /\ Phase(j)' \in Settled
  <2>1. PhaseFn' = [PhaseFn EXCEPT ![j] = Phase(j)']
    BY <1>3 DEF PhaseFn, Jobs
  <2>2. PhaseFn[j] = "running"
    BY <1>5 DEF PhaseFn
  <2>3. Lifecycle!Settle(j)
    BY <1>5, <2>1, <2>2 DEF Lifecycle!Settle, PhaseFn, Settled
  <2>4. QED
    BY <2>3 DEF Lifecycle!Next
<1>6. QED
  BY <1>4, <1>5

\* The phase of the held job after any of the four actions that write to it,
\* and after a crash.
LEMMA JobStepImplements ==
  ASSUME OneWorker, IInv, NEW w \in Workers,
         \/ MarkTranscribing(w) \/ MarkCompleted(w)
         \/ BlameUpload(w) \/ MarkFailed(w)
         \/ Crash(w) /\ Holding(w)
  PROVE  Lifecycle!Next \/ UNCHANGED Lifecycle!vars
<1> USE DEF Active, ActiveDownload, ActiveSubtitle, Settled
<1>1. Holding(w)
  BY DEF MarkTranscribing, MarkCompleted, BlameUpload, MarkFailed, Holding
<1> PICK j \in Jobs : held[w] = j
  BY <1>1 DEF IInv, HeldRowMatches
<1>2. status[j] \in
        {"removed"} \cup IF pc[w] = "fail" THEN Active \cup Settled ELSE {pc[w]}
  BY <1>1 DEF IInv, HeldRowMatches
<1>3. /\ pc'[w] = "fail" => held'[w] = j
      /\ held'[w] \in {j, NoJob}
      /\ UNCHANGED <<createdAt, lastStamp>>
  BY DEF MarkTranscribing, MarkCompleted, BlameUpload, MarkFailed, Crash,
         UpdateHeld, UpdateRejects, Write, rows, GoTo, LeaveJob, Die, IInv,
         TypeOK
<1>4. /\ InCatch(j) <=> pc[w] = "fail"
      /\ InCatch(j)' <=> pc'[w] = "fail"
  BY <1>3 DEF OneWorker, InCatch
<1>5. \/ status' = status
      \/ \E value : status' = [status EXCEPT ![j] = value]
  BY DEF MarkTranscribing, MarkCompleted, BlameUpload, MarkFailed, Crash,
         UpdateHeld, UpdateRejects, Write, rows
<1>6. \/ status'[j] = status[j] /\ (pc'[w] = "fail" \/ pc[w] # "fail")
      \/ status'[j] = status[j] /\ pc[w] = "fail" /\ pc'[w] = "down"
      \/ /\ status[j] = "extracting_audio" /\ status'[j] = "transcribing"
      \/ status[j] \in Active /\ status'[j] = "completed"
      \/ status[j] \in Active /\ status'[j] = "failed"
      \/ pc[w] = "fail" /\ status[j] \in Settled /\ status'[j] = "failed"
  BY <1>1, <1>2
  DEF MarkTranscribing, MarkCompleted, BlameUpload, MarkFailed, Crash,
      UpdateHeld, UpdateRejects, Write, rows, GoTo, LeaveJob, Die, IInv,
      TypeOK, Holding
<1>7. \/ Phase(j)' = Phase(j)
      \/ Phase(j) = "running" /\ Phase(j)' \in Settled
  BY <1>1, <1>2, <1>4, <1>6 DEF Phase, Holding
<1>8. \A i \in Jobs : i # NoJob
  BY QueueAssumption DEF Jobs, NoJob
<1>9. QED
  BY <1>3, <1>5, <1>7, <1>8, HeldRowStep DEF IInv

\* Each step of the queue is a step of the server, or none.
LEMMA StepImplements ==
  ASSUME OneWorker, IInv, [Next]_vars
  PROVE  [Lifecycle!Next]_(Lifecycle!vars)
<1> USE DEF Lifecycle!Next
<1>1. CASE \E j \in Jobs : Enqueue(j)
  BY <1>1, EnqueueSubmits DEF IInv
<1>2. CASE \E j \in Subtitles : RemoveRow(j)
  BY <1>2, RemoveRowRemoves DEF IInv, Jobs
<1>3. CASE Tick \/ UNCHANGED vars
  BY <1>3, SamePhaseStutters DEF Tick, vars, Phase, InCatch
<1>4. ASSUME NEW w \in Workers, NEW j \in Jobs, Claim(w, j)
      PROVE  Lifecycle!Next
  BY <1>4, ClaimStarts DEF IInv
<1>5. ASSUME NEW w \in Workers, RestoreDownloads(w) \/ RestoreSubtitles(w)
      PROVE  [Lifecycle!Next]_(Lifecycle!vars)
  <2>1. \A i \in Jobs : InCatch(i)' <=> InCatch(i)
    <3>1. pc[w] # "fail" /\ pc'[w] # "fail"
      BY <1>5 DEF RestoreDownloads, RestoreSubtitles, IInv, TypeOK
    <3>2. QED
      BY <3>1 DEF OneWorker, InCatch
  <2>2. CASE RestoreDownloads(w)
    BY <2>1, <2>2, RestoreRequeues DEF RestoreDownloads, IInv, Jobs, Active
  <2>3. CASE RestoreSubtitles(w)
    BY <2>1, <2>3, RestoreRequeues DEF RestoreSubtitles, IInv, Jobs, Active
  <2>4. QED
    BY <1>5, <2>2, <2>3
<1>6. ASSUME NEW w \in Workers,
             \/ MarkTranscribing(w) \/ MarkCompleted(w)
             \/ BlameUpload(w) \/ MarkFailed(w)
             \/ Crash(w) /\ Holding(w)
      PROVE  [Lifecycle!Next]_(Lifecycle!vars)
  BY <1>6, JobStepImplements
<1>7. ASSUME NEW w \in Workers,
             \/ Start(w) \/ Wake(w) \/ ClaimNothing(w) \/ ClaimConflict(w)
             \/ Crash(w) /\ ~ Holding(w)
      PROVE  UNCHANGED Lifecycle!vars
  <2>1. UNCHANGED rows /\ pc[w] # "fail" /\ pc'[w] # "fail"
    BY <1>7 DEF Start, Wake, ClaimNothing, ClaimConflict, Crash, Die, Holding,
                rows, IInv, TypeOK
  <2>2. \A i \in Jobs : InCatch(i)' <=> InCatch(i)
    BY <2>1 DEF OneWorker, InCatch
  <2>3. QED
    BY <2>1, <2>2, SamePhaseStutters DEF rows, Phase
<1>8. QED
  BY <1>1, <1>2, <1>3, <1>4, <1>5, <1>6, <1>7 DEF Next, Step

\* The job tables and their worker are one first-come first-served server
\* that runs a job at a time and settles it once, where a completed update
\* that reports an error leaves the job to the catch.
THEOREM QueueImplementsLifecycle ==
  ASSUME OneWorker PROVE Spec => ImplementsLifecycle
<1>1. Init => Lifecycle!Init
  BY DEF Init, Lifecycle!Init, Phase, Active, ActiveDownload, ActiveSubtitle
<1>2. IInv /\ [Next]_vars => [Lifecycle!Next]_(Lifecycle!vars)
  BY StepImplements
<1>3. InTime
  BY DEF OneWorker, InTime
<1>4. QED
  BY <1>1, <1>2, <1>3, InductiveInvariant, PTL
  DEF Spec, ImplementsLifecycle, Lifecycle!Spec
=============================================================================

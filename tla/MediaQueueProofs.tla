--------------------------- MODULE MediaQueueProofs ---------------------------
(***************************************************************************)
(* The limit, the files and the cancels of the in-memory queue, for any    *)
(* jobs and direct requests and any limits.                                *)
(*                                                                         *)
(* The argument is what the status of a job says about its download, and   *)
(* the other way round: nothing but that keeps a cancel, a delivery and a  *)
(* late end of a download apart, which all write to the same record.       *)
(***************************************************************************)
EXTENDS MediaQueue, SequenceTheorems, FiniteSetTheorems, TLAPS

Statuses == {"none", "queued", "running", "ready", "failed", "canceled",
             "expired", "removed"}

InProgress == {x \in Downloads : run[x] \in {"downloading", "rejecting"}}

RecordsOK ==
  /\ status \in [Jobs -> Statuses]
  /\ run \in [Downloads -> {"none", "refused", "downloading", "rejecting"}]
  /\ queue \in Seq(Jobs)
  /\ artifact \subseteq Jobs
  /\ file \subseteq Downloads /\ delivering \subseteq Downloads

\* The counter is within the limit; beside the downloads in progress it counts
\* those that never began, for each of which one place of the limit is lost.
CounterExact ==
  /\ dirFailures \in Nat
  /\ activeDownloads = Cardinality(InProgress) + dirFailures
  /\ Limit > 0 => activeDownloads <= Limit

\* What a status says about the download of the job, and a delivery about both.
RunMatches ==
  /\ \A j \in Jobs :
       /\ status[j] \in {"none", "queued", "ready"} => run[j] = "none"
       /\ status[j] = "running" => run[j] # "none"
       /\ status[j] = "canceled" => run[j] # "downloading"
       /\ j \in delivering =>
            j \in consumed /\ status[j] \notin {"none", "queued", "running"}
  /\ \A x \in delivering : run[x] = "none"

IInv == RecordsOK /\ RunMatches

-----------------------------------------------------------------------------
(* The records.                                                            *)

LEMMA RecordsInit == Init => RecordsOK
  BY DEF Init, RecordsOK, Statuses

LEMMA RecordsStep == RecordsOK /\ [Next]_vars => RecordsOK'
<1> SUFFICES ASSUME RecordsOK, [Next]_vars PROVE RecordsOK'
  OBVIOUS
<1> USE DEF RecordsOK, Statuses, Downloads, downloadVars, queueVars, deliveryVars
<1>1. CASE Drain
  <2>1. CASE runningCount < Slots /\ queue # <<>>
    <3>1. Head(queue) \in Jobs /\ Tail(queue) \in Seq(Jobs)
      BY <2>1, HeadTailProperties
    <3>2. queue' = Tail(queue) /\ UNCHANGED <<artifact, delivering>>
      BY <1>1, <2>1 DEF Drain
    <3>3. CASE status[Head(queue)] = "queued"
      BY <1>1, <2>1, <3>1, <3>2, <3>3 DEF Drain, Mark, Begin
    <3>4. CASE status[Head(queue)] # "queued"
      BY <1>1, <2>1, <3>1, <3>2, <3>4 DEF Drain
    <3>5. QED
      BY <3>3, <3>4
  <2>2. CASE ~(runningCount < Slots /\ queue # <<>>)
    BY <1>1, <2>2 DEF Drain
  <2>3. QED
    BY <2>1, <2>2
<1>2. ASSUME NEW j \in Jobs, RunRejected(j) PROVE RecordsOK'
  BY <1>2 DEF RunRejected, End, FreeSlot, Mark
<1>3. ASSUME NEW d \in Direct, DirectRejected(d) PROVE RecordsOK'
  BY <1>3 DEF DirectRejected, End
<1>4. ASSUME NEW x \in Downloads, Fail(x) PROVE RecordsOK'
  BY <1>4 DEF Fail
<1>5. ASSUME NEW j \in Jobs, Create(j) PROVE RecordsOK'
  <2>1. Append(queue, j) \in Seq(Jobs)
    BY AppendProperties
  <2>2. QED
    BY <1>5, <2>1 DEF Create, Mark
<1>6. ASSUME NEW j \in Jobs, Cancel(j) PROVE RecordsOK'
  <2>1. queue' \in Seq(Jobs)
    <3>1. CASE UNCHANGED queue
      BY <3>1
    <3>2. CASE RemoveQueuedJob(j)
      <4>1. PICK i \in DOMAIN queue :
              queue' = SubSeq(queue, 1, i - 1) \o SubSeq(queue, i + 1, Len(queue))
        BY <3>2 DEF RemoveQueuedJob
      <4>2. i \in 1..Len(queue) /\ Len(queue) \in Nat
        BY <4>1, LenProperties
      <4>3. SubSeq(queue, 1, i - 1) \in Seq(Jobs)
            /\ SubSeq(queue, i + 1, Len(queue)) \in Seq(Jobs)
        BY <4>2, SubSeqProperties
      <4>4. QED
        BY <4>1, <4>3, ConcatProperties
    <3>3. QED
      BY <1>6, <3>1, <3>2 DEF Cancel
  <2>2. QED
    BY <1>6, <2>1 DEF Cancel, Mark
<1>7. ASSUME NEW j \in Jobs, RunReady(j) PROVE RecordsOK'
  BY <1>7 DEF RunReady, FreeSlot, Mark
<1>8. ASSUME NEW j \in Jobs, ConsumeReadyArtifact(j) PROVE RecordsOK'
  BY <1>8 DEF ConsumeReadyArtifact
<1>9. ASSUME NEW j \in Jobs, Delivered(j) PROVE RecordsOK'
  BY <1>9 DEF Delivered, Mark
<1>10. ASSUME NEW j \in Jobs, Age(j) PROVE RecordsOK'
  BY <1>10 DEF Age
<1>11. ASSUME NEW d \in Direct, DirectRequest(d) PROVE RecordsOK'
  BY <1>11 DEF DirectRequest, Begin
<1>12. ASSUME NEW d \in Direct, DirectReady(d) PROVE RecordsOK'
  BY <1>12 DEF DirectReady
<1>13. ASSUME NEW d \in Direct, DirectDelivered(d) PROVE RecordsOK'
  BY <1>13 DEF DirectDelivered
<1>14. CASE Sweep
  BY <1>14 DEF Sweep
<1>15. CASE UNCHANGED vars
  BY <1>15 DEF vars
<1>16. QED
  BY <1>1, <1>2, <1>3, <1>4, <1>5, <1>6, <1>7, <1>8, <1>9, <1>10, <1>11, <1>12,
     <1>13, <1>14, <1>15 DEF Next, Microtask

-----------------------------------------------------------------------------
(* Status and download of a job.                                           *)

LEMMA RunMatchesInit == Init => RunMatches
  BY MediaAssumption DEF Init, RunMatches, Downloads

\* No turn of drain touches a job that is not queued.
LEMMA DrainStarts ==
  ASSUME RecordsOK, Drain
  PROVE  /\ UNCHANGED <<consumed, delivering, artifact>>
         /\ \/ UNCHANGED <<status, run, activeDownloads, file, dirFailures>>
            \/ \E j \in Jobs :
                 /\ status[j] = "queued"
                 /\ status' = [status EXCEPT ![j] = "running"]
                 /\ Begin(j)
<1>1. CASE runningCount < Slots /\ queue # <<>>
  <2>1. Head(queue) \in Jobs
    BY <1>1, HeadTailProperties DEF RecordsOK
  <2>2. QED
    BY <1>1, <2>1 DEF Drain, Mark, deliveryVars, downloadVars
<1>2. CASE ~(runningCount < Slots /\ queue # <<>>)
  BY <1>2 DEF Drain, deliveryVars, downloadVars
<1>3. QED
  BY <1>1, <1>2

\* What Quiet and the sets of requests mean for one of them.
LEMMA QuietMeansIdle ==
  ASSUME Quiet, NEW x \in Downloads PROVE run[x] \notin {"refused", "rejecting"}
  BY DEF Quiet, Settling

LEMMA BeginSets ==
  ASSUME RecordsOK, NEW x \in Downloads, Begin(x)
  PROVE  \/ run' = [run EXCEPT ![x] = "refused"]
         \/ run' = [run EXCEPT ![x] = "downloading"]
  BY DEF Begin

LEMMA RunMatchesStep == RecordsOK /\ RunMatches /\ [Next]_vars => RunMatches'
<1> SUFFICES ASSUME RecordsOK, RunMatches, [Next]_vars PROVE RunMatches'
  OBVIOUS
<1> USE MediaAssumption
    DEF RecordsOK, RunMatches, Statuses, Downloads, downloadVars, queueVars,
        deliveryVars
<1>1. CASE Drain
  <2>1. CASE UNCHANGED <<status, run>>
    BY <1>1, <2>1, DrainStarts
  <2>2. ASSUME NEW j \in Jobs, status[j] = "queued",
               status' = [status EXCEPT ![j] = "running"], Begin(j)
        PROVE  RunMatches'
    <3>1. UNCHANGED <<consumed, delivering>> /\ j \notin delivering
      BY <1>1, <2>2, DrainStarts
    <3>2. QED
      BY <2>2, <3>1, BeginSets
  <2>3. QED
    BY <1>1, <2>1, <2>2, DrainStarts
<1>2. ASSUME NEW j \in Jobs, RunRejected(j) PROVE RunMatches'
  <2>1. run' = [run EXCEPT ![j] = "none"] /\ UNCHANGED <<consumed, delivering>>
    BY <1>2 DEF RunRejected, End
  <2>2. run[j] # "none" /\ j \notin delivering
    BY <1>2 DEF RunRejected, Settling
  <2>3. IF status[j] = "canceled" THEN status' = status
        ELSE status' = [status EXCEPT ![j] = "failed"]
    BY <1>2 DEF RunRejected, Mark
  <2>4. QED
    BY <2>1, <2>2, <2>3
<1>3. ASSUME NEW d \in Direct, DirectRejected(d) PROVE RunMatches'
  <2>1. run' = [run EXCEPT ![d] = "none"]
        /\ UNCHANGED <<status, consumed, delivering>>
    BY <1>3 DEF DirectRejected, End
  <2>2. QED
    BY <2>1
<1>4. ASSUME NEW x \in Downloads, Fail(x) PROVE RunMatches'
  BY <1>4 DEF Fail
<1>5. ASSUME NEW j \in Jobs, Create(j) PROVE RunMatches'
  BY <1>5 DEF Create, Mark
<1>6. ASSUME NEW j \in Jobs, Cancel(j) PROVE RunMatches'
  <2>1. /\ status' = [status EXCEPT ![j] = "canceled"]
        /\ UNCHANGED <<consumed, delivering>>
        /\ status[j] \notin {"none", "removed", "failed", "expired"}
    BY <1>6 DEF Cancel, Mark, Known
  <2>2. \/ status[j] = "running" /\ run' = [run EXCEPT ![j] = "rejecting"]
        \/ status[j] # "running" /\ run' = run
    BY <1>6 DEF Cancel
  <2>3. run'[j] # "downloading" /\ (j \in delivering => run'[j] = "none")
    BY <2>1, <2>2
  <2>4. j \in delivering => status[j] # "queued"
    OBVIOUS
  <2>5. QED
    BY <2>1, <2>2, <2>3, <2>4
<1>7. ASSUME NEW j \in Jobs, RunReady(j) PROVE RunMatches'
  BY <1>7 DEF RunReady, Mark
<1>8. ASSUME NEW j \in Jobs, ConsumeReadyArtifact(j) PROVE RunMatches'
  BY <1>8 DEF ConsumeReadyArtifact
<1>9. ASSUME NEW j \in Jobs, Delivered(j) PROVE RunMatches'
  BY <1>9 DEF Delivered, Mark
<1>10. ASSUME NEW j \in Jobs, Age(j) PROVE RunMatches'
  BY <1>10 DEF Age
<1>11. ASSUME NEW d \in Direct, DirectRequest(d) PROVE RunMatches'
  BY <1>11, BeginSets DEF DirectRequest
<1>12. ASSUME NEW d \in Direct, DirectReady(d) PROVE RunMatches'
  BY <1>12 DEF DirectReady
<1>13. ASSUME NEW d \in Direct, DirectDelivered(d) PROVE RunMatches'
  BY <1>13 DEF DirectDelivered
<1>14. CASE Sweep
  BY <1>14 DEF Sweep
<1>15. CASE UNCHANGED vars
  BY <1>15 DEF vars
<1>16. QED
  BY <1>1, <1>2, <1>3, <1>4, <1>5, <1>6, <1>7, <1>8, <1>9, <1>10, <1>11, <1>12,
     <1>13, <1>14, <1>15 DEF Next, Microtask

-----------------------------------------------------------------------------
(* The counter.  Only four kinds of step touch it or the set it counts.    *)

LEMMA OneMoreOrLess ==
  ASSUME NEW S, IsFiniteSet(S), NEW x
  PROVE  /\ Cardinality(S) \in Nat
         /\ x \notin S => /\ IsFiniteSet(S \cup {x})
                          /\ Cardinality(S \cup {x}) = Cardinality(S) + 1
         /\ x \in S => /\ IsFiniteSet(S \ {x})
                       /\ Cardinality(S \ {x}) = Cardinality(S) - 1
<1>1. Cardinality(S) \in Nat
  BY FS_CardinalityType
<1>2. x \notin S => /\ IsFiniteSet(S \cup {x})
                    /\ Cardinality(S \cup {x}) = Cardinality(S) + 1
  BY FS_AddElement
<1>3. x \in S => /\ IsFiniteSet(S \ {x})
                 /\ Cardinality(S \ {x}) = Cardinality(S) - 1
  BY FS_RemoveElement
<1>4. QED
  BY <1>1, <1>2, <1>3

LEMMA SetsAreFinite ==
  /\ IsFiniteSet(Downloads) /\ IsFiniteSet(InProgress) /\ IsFiniteSet(InProgress')
  /\ Cardinality(InProgress) \in Nat
<1>1. IsFiniteSet(Downloads)
  BY MediaAssumption, FS_Union DEF Downloads
<1>2. IsFiniteSet(InProgress) /\ IsFiniteSet(InProgress')
  BY <1>1, FS_Subset DEF InProgress
<1>3. QED
  BY <1>1, <1>2, FS_CardinalityType

\* A download begins.
LEMMA CounterBegins ==
  ASSUME RecordsOK, CounterExact, NEW x \in Downloads, run[x] = "none", Begin(x)
  PROVE  CounterExact'
<1> USE MediaAssumption, SetsAreFinite
<1>1. x \notin InProgress
  BY DEF InProgress
<1>2. CASE run' = [run EXCEPT ![x] = "refused"]
  <2>1. InProgress' = InProgress
    BY <1>1, <1>2 DEF RecordsOK, InProgress
  <2>2. \/ UNCHANGED <<activeDownloads, dirFailures>>
        \/ /\ Limit = 0 \/ activeDownloads < Limit
           /\ activeDownloads' = activeDownloads + 1
           /\ dirFailures' = dirFailures + 1
    BY <1>2 DEF Begin, RecordsOK
  <2>3. QED
    BY <2>1, <2>2 DEF CounterExact
<1>3. CASE run' = [run EXCEPT ![x] = "downloading"]
  <2>1. InProgress' = InProgress \cup {x}
    BY <1>3 DEF RecordsOK, InProgress
  <2>2. Cardinality(InProgress') = Cardinality(InProgress) + 1
    BY <1>1, <2>1, OneMoreOrLess
  <2>3. /\ Limit = 0 \/ activeDownloads < Limit
        /\ activeDownloads' = activeDownloads + 1 /\ UNCHANGED dirFailures
    BY <1>3 DEF Begin, RecordsOK
  <2>4. QED
    BY <2>2, <2>3 DEF CounterExact
<1>4. QED
  BY <1>2, <1>3, BeginSets

\* A download that was in progress ends.
LEMMA CounterEnds ==
  ASSUME RecordsOK, CounterExact, NEW x \in InProgress,
         run' = [run EXCEPT ![x] = "none"],
         activeDownloads' = activeDownloads - 1, UNCHANGED dirFailures
  PROVE  CounterExact'
<1>1. InProgress' = InProgress \ {x}
  BY DEF RecordsOK, InProgress
<1>2. Cardinality(InProgress') = Cardinality(InProgress) - 1
  BY <1>1, SetsAreFinite, OneMoreOrLess
<1>3. QED
  BY <1>2, SetsAreFinite, MediaAssumption DEF CounterExact

\* Every other step leaves both alone.
LEMMA CounterStays ==
  ASSUME CounterExact, InProgress' = InProgress,
         UNCHANGED <<activeDownloads, dirFailures>>
  PROVE  CounterExact'
  BY DEF CounterExact

\* End, whether the download was refused or failed.
LEMMA CounterAfterEnd ==
  ASSUME RecordsOK, CounterExact, NEW x \in Settling, End(x)
  PROVE  CounterExact'
<1>1. CASE run[x] = "refused"
  <2>1. InProgress' = InProgress /\ UNCHANGED <<activeDownloads, dirFailures>>
    BY <1>1 DEF End, InProgress, RecordsOK, Settling
  <2>2. QED
    BY <2>1, CounterStays
<1>2. CASE run[x] = "rejecting"
  <2>1. x \in InProgress
    BY <1>2 DEF InProgress, Settling
  <2>2. /\ run' = [run EXCEPT ![x] = "none"]
        /\ activeDownloads' = activeDownloads - 1 /\ UNCHANGED dirFailures
    BY <1>2 DEF End
  <2>3. QED
    BY <2>1, <2>2, CounterEnds
<1>3. QED
  BY <1>1, <1>2 DEF Settling

LEMMA CounterStep ==
  RecordsOK /\ RunMatches /\ CounterExact /\ [Next]_vars => CounterExact'
<1> SUFFICES ASSUME RecordsOK, RunMatches, CounterExact, [Next]_vars
             PROVE  CounterExact'
  OBVIOUS
<1> USE DEF downloadVars, queueVars, deliveryVars
<1>1. CASE Drain
  <2>1. CASE UNCHANGED downloadVars
    BY <2>1, CounterStays DEF InProgress
  <2>2. ASSUME NEW j \in Jobs, status[j] = "queued", Begin(j) PROVE CounterExact'
    BY <2>2, CounterBegins DEF Downloads, RunMatches
  <2>3. QED
    BY <1>1, <2>1, <2>2, DrainStarts
<1>2. ASSUME NEW j \in Jobs, RunRejected(j) PROVE CounterExact'
  BY <1>2, CounterAfterEnd DEF RunRejected
<1>3. ASSUME NEW d \in Direct, DirectRejected(d) PROVE CounterExact'
  BY <1>3, CounterAfterEnd DEF DirectRejected
<1>4. ASSUME NEW x \in Downloads, Fail(x) PROVE CounterExact'
  <2>1. InProgress' = InProgress /\ UNCHANGED <<activeDownloads, dirFailures>>
    BY <1>4 DEF Fail, InProgress, RecordsOK
  <2>2. QED
    BY <2>1, CounterStays
<1>5. ASSUME NEW j \in Jobs, Cancel(j) PROVE CounterExact'
  <2>1. UNCHANGED <<activeDownloads, dirFailures>>
    BY <1>5 DEF Cancel
  <2>2. CASE run' = run
    BY <2>1, <2>2, CounterStays DEF InProgress
  <2>3. CASE status[j] = "running" /\ run' = [run EXCEPT ![j] = "rejecting"]
    <3>1. run[j] = "downloading"
      BY <1>5, <2>3, QuietMeansIdle DEF Cancel, RunMatches, RecordsOK, Downloads
    <3>2. InProgress' = InProgress
      BY <2>3, <3>1 DEF InProgress, RecordsOK
    <3>3. QED
      BY <2>1, <3>2, CounterStays
  <2>4. QED
    BY <1>5, <2>2, <2>3 DEF Cancel
<1>6. ASSUME NEW x \in Downloads, run[x] = "downloading",
             run' = [run EXCEPT ![x] = "none"],
             activeDownloads' = activeDownloads - 1, UNCHANGED dirFailures
      PROVE  CounterExact'
  BY <1>6, CounterEnds DEF InProgress
<1>7. ASSUME NEW j \in Jobs, RunReady(j) PROVE CounterExact'
  BY <1>6, <1>7 DEF RunReady, Downloads
<1>8. ASSUME NEW d \in Direct, DirectReady(d) PROVE CounterExact'
  BY <1>6, <1>8 DEF DirectReady, Downloads
<1>9. ASSUME NEW d \in Direct, DirectRequest(d) PROVE CounterExact'
  BY <1>9, CounterBegins DEF DirectRequest, Downloads
<1>10. CASE UNCHANGED <<run, activeDownloads, dirFailures>>
  BY <1>10, CounterStays DEF InProgress
<1>11. ASSUME NEW j \in Jobs,
              Create(j) \/ ConsumeReadyArtifact(j) \/ Delivered(j) \/ Age(j)
       PROVE  UNCHANGED <<run, activeDownloads, dirFailures>>
  BY <1>11 DEF Create, ConsumeReadyArtifact, Delivered, Age
<1>12. ASSUME NEW d \in Direct, DirectDelivered(d)
       PROVE  UNCHANGED <<run, activeDownloads, dirFailures>>
  BY <1>12 DEF DirectDelivered
<1>13. Sweep \/ UNCHANGED vars => UNCHANGED <<run, activeDownloads, dirFailures>>
  BY DEF Sweep, vars
<1>14. QED
  BY <1>1, <1>2, <1>3, <1>4, <1>5, <1>7, <1>8, <1>9, <1>10, <1>11, <1>12, <1>13
     DEF Next, Microtask

-----------------------------------------------------------------------------
(* The invariant, and the limit.                                           *)

LEMMA Invariant == Spec => [](IInv /\ CounterExact)
<1>1. Init => IInv /\ CounterExact
  <2>1. Init => InProgress = {}
    BY DEF Init, InProgress
  <2>2. Cardinality({}) = 0
    BY FS_EmptySet
  <2>3. Init => Cardinality(InProgress) = 0
    BY <2>1, <2>2, Zenon
  <2>4. Init => CounterExact
    BY <2>3, MediaAssumption DEF Init, CounterExact
  <2>5. QED
    BY <2>4, RecordsInit, RunMatchesInit DEF IInv
<1>2. IInv /\ CounterExact /\ [Next]_vars => (IInv /\ CounterExact)'
  BY RecordsStep, RunMatchesStep, CounterStep DEF IInv
<1>3. QED
  BY <1>1, <1>2, PTL DEF Spec

\* However requests, cancels and ends interleave, the downloads of the queue
\* and of the direct endpoints together stay within MEDIA_DOWNLOAD_CONCURRENCY.
THEOREM LimitIsKept == Spec => []ConcurrencyLimitHolds
<1>1. CounterExact => ConcurrencyLimitHolds
  BY SetsAreFinite, MediaAssumption DEF CounterExact, ConcurrencyLimitHolds, InProgress
<1>2. QED
  BY <1>1, Invariant, PTL

\* What the failures to make a work directory cost: the counter is wrong by
\* exactly their number, so each takes one place of the limit away for good,
\* and when there were Limit of them nothing is downloaded any more
\* (media-download.service.ts, the increment before the try).
LeaksTakePlaces ==
  /\ activeDownloads = Cardinality(InProgress) + dirFailures
  /\ Limit > 0 => Cardinality(InProgress) <= Limit - dirFailures
  /\ Limit > 0 /\ dirFailures = Limit => InProgress = {}

\* Nothing but a failed mkdtemp makes the counter drift, whatever is canceled,
\* refused or aborted, and this is what it leads to.
THEOREM CounterDriftIsExplained == Spec => []LeaksTakePlaces
<1>1. CounterExact => LeaksTakePlaces
  <2> SUFFICES ASSUME CounterExact PROVE LeaksTakePlaces
    OBVIOUS
  <2>1. Limit > 0 => Cardinality(InProgress) <= Limit - dirFailures
    BY SetsAreFinite, MediaAssumption DEF CounterExact
  <2>2. Limit > 0 /\ dirFailures = Limit => Cardinality(InProgress) = 0
    BY <2>1, SetsAreFinite, MediaAssumption DEF CounterExact
  <2>3. Cardinality(InProgress) = 0 => InProgress = {}
    BY SetsAreFinite, FS_EmptySet
  <2>4. QED
    BY <2>1, <2>2, <2>3 DEF LeaksTakePlaces, CounterExact
<1>2. QED
  BY <1>1, Invariant, PTL

-----------------------------------------------------------------------------
(* Files and cancels.                                                      *)

LEMMA NoFileLeaksStep == IInv /\ NoFileLeaks /\ [Next]_vars => NoFileLeaks'
<1> SUFFICES ASSUME RecordsOK, RunMatches, NoFileLeaks, [Next]_vars
             PROVE  NoFileLeaks'
  BY DEF IInv
<1> USE MediaAssumption
    DEF RecordsOK, NoFileLeaks, Known, Statuses, Downloads, downloadVars,
        queueVars, deliveryVars
<1>1. CASE Drain
  <2>1. CASE UNCHANGED <<status, run, activeDownloads, file>>
    BY <1>1, <2>1, DrainStarts
  <2>2. ASSUME NEW j \in Jobs, status[j] = "queued",
               status' = [status EXCEPT ![j] = "running"], Begin(j)
        PROVE  NoFileLeaks'
    <3>1. UNCHANGED <<consumed, delivering, artifact>>
      BY <1>1, DrainStarts
    <3>2. run[j] = "none"
      BY <2>2 DEF RunMatches
    <3>3. QED
      BY <2>2, <3>1, <3>2 DEF Begin
  <2>3. QED
    BY <1>1, <2>1, <2>2, DrainStarts
<1>2. ASSUME NEW j \in Jobs, RunRejected(j) PROVE NoFileLeaks'
  BY <1>2 DEF RunRejected, End, Mark, Settling
<1>3. ASSUME NEW d \in Direct, DirectRejected(d) PROVE NoFileLeaks'
  BY <1>3 DEF DirectRejected, End, Settling
<1>4. ASSUME NEW x \in Downloads, Fail(x) PROVE NoFileLeaks'
  BY <1>4 DEF Fail
<1>5. ASSUME NEW j \in Jobs, Create(j) PROVE NoFileLeaks'
  BY <1>5 DEF Create, Mark
<1>6. ASSUME NEW j \in Jobs, Cancel(j) PROVE NoFileLeaks'
  <2>1. status' = [status EXCEPT ![j] = "canceled"] /\ UNCHANGED delivering
    BY <1>6 DEF Cancel, Mark
  <2>2. CASE UNCHANGED <<run, file, artifact>>
    BY <2>1, <2>2
  <2>3. CASE run' = [run EXCEPT ![j] = "rejecting"] /\ UNCHANGED <<file, artifact>>
    BY <2>1, <2>3
  <2>4. CASE file' = file \ {j} /\ artifact' = artifact \ {j} /\ UNCHANGED run
    BY <2>1, <2>4
  <2>5. QED
    BY <1>6, <2>2, <2>3, <2>4 DEF Cancel
<1>7. ASSUME NEW j \in Jobs, RunReady(j) PROVE NoFileLeaks'
  BY <1>7 DEF RunReady, Mark
<1>8. ASSUME NEW j \in Jobs, ConsumeReadyArtifact(j) PROVE NoFileLeaks'
  BY <1>8 DEF ConsumeReadyArtifact
<1>9. ASSUME NEW j \in Jobs, Delivered(j) PROVE NoFileLeaks'
  BY <1>9 DEF Delivered, Mark
<1>10. ASSUME NEW j \in Jobs, Age(j) PROVE NoFileLeaks'
  BY <1>10 DEF Age
<1>11. ASSUME NEW d \in Direct, DirectRequest(d) PROVE NoFileLeaks'
  BY <1>11 DEF DirectRequest, Begin
<1>12. ASSUME NEW d \in Direct, DirectReady(d) PROVE NoFileLeaks'
  BY <1>12 DEF DirectReady
<1>13. ASSUME NEW d \in Direct, DirectDelivered(d) PROVE NoFileLeaks'
  BY <1>13 DEF DirectDelivered
<1>14. CASE Sweep
  BY <1>14 DEF Sweep
<1>15. CASE UNCHANGED vars
  BY <1>15 DEF vars
<1>16. QED
  BY <1>1, <1>2, <1>3, <1>4, <1>5, <1>6, <1>7, <1>8, <1>9, <1>10, <1>11, <1>12,
     <1>13, <1>14, <1>15 DEF Next, Microtask

\* Every work directory on disk has a download, a delivery or a record the
\* sweep comes to, which removes it.
THEOREM FilesAreAccountedFor == Spec => []NoFileLeaks
<1>1. Init => NoFileLeaks
  BY DEF Init, NoFileLeaks
<1>2. QED
  BY <1>1, NoFileLeaksStep, Invariant, PTL DEF Spec

\* A cancel is the last word on a job, but for its delivery and the sweep: no
\* late end of its download overwrites it.
THEOREM CancelIsKept == Spec => CanceledStaysCanceled
<1> DEFINE Kept == \A j \in Jobs : status[j] = "canceled"
                     => status'[j] \in {"canceled", "expired", "removed"}
<1>1. IInv /\ [Next]_vars => Kept
  <2> SUFFICES ASSUME RecordsOK, RunMatches, [Next]_vars,
                      NEW j \in Jobs, status[j] = "canceled"
               PROVE  status'[j] \in {"canceled", "expired", "removed"}
    BY DEF IInv
  <2> USE DEF RecordsOK, Statuses, downloadVars, queueVars, deliveryVars
  <2>1. CASE Drain
    BY <2>1, DrainStarts
  <2>2. ASSUME NEW k \in Jobs, RunRejected(k)
        PROVE  status'[j] \in {"canceled", "expired", "removed"}
    BY <2>2 DEF RunRejected, Mark
  <2>3. ASSUME NEW k \in Jobs, Create(k) \/ Cancel(k) \/ Delivered(k)
        PROVE  status'[j] \in {"canceled", "expired", "removed"}
    BY <2>3 DEF Create, Cancel, Delivered, Mark
  <2>4. ASSUME NEW k \in Jobs, RunReady(k)
        PROVE  status'[j] \in {"canceled", "expired", "removed"}
    <3>1. k # j
      BY <2>4 DEF RunReady, RunMatches
    <3>2. QED
      BY <2>4, <3>1 DEF RunReady, Mark
  <2>5. CASE Sweep
    BY <2>5 DEF Sweep
  <2>6. ASSUME NEW k \in Jobs, ConsumeReadyArtifact(k) \/ Age(k)
        PROVE  UNCHANGED status
    BY <2>6 DEF ConsumeReadyArtifact, Age
  <2>7. ASSUME NEW d \in Direct,
               \/ DirectRequest(d) \/ DirectReady(d)
               \/ DirectRejected(d) \/ DirectDelivered(d)
        PROVE  UNCHANGED status
    BY <2>7 DEF DirectRequest, DirectReady, DirectRejected, DirectDelivered
  <2>8. ASSUME NEW x \in Downloads, Fail(x) PROVE UNCHANGED status
    BY <2>8 DEF Fail
  <2>9. UNCHANGED vars => UNCHANGED status
    BY DEF vars
  <2>10. QED
    BY <2>1, <2>2, <2>3, <2>4, <2>5, <2>6, <2>7, <2>8, <2>9 DEF Next, Microtask
<1>2. QED
  BY <1>1, Invariant, PTL DEF Spec, CanceledStaysCanceled

\* A file being sent is taken away by the sweep at most.
THEOREM DeliveryIsCutBySweepOnly == Spec => OnlySweepCutsDelivery
<1> DEFINE Whole == \A x \in delivering \cap file :
              x \in delivering' => x \in file' \/ (x \in old /\ status'[x] = "removed")
<1>1. IInv /\ [Next]_vars => Whole
  <2> SUFFICES ASSUME RecordsOK, RunMatches, [Next]_vars,
                      NEW x \in delivering, x \in file, x \in delivering', x \notin file'
               PROVE  x \in old /\ status'[x] = "removed"
    BY DEF IInv
  <2> USE MediaAssumption
      DEF RecordsOK, RunMatches, Downloads, downloadVars, queueVars, deliveryVars
  <2>0. x \in Downloads /\ run[x] = "none"
    OBVIOUS
  <2>1. ~Drain
    BY DrainStarts DEF Begin
  <2>2. ASSUME NEW y \in Settling, End(y) PROVE FALSE
    BY <2>0, <2>2 DEF End, Settling
  <2>3. ASSUME NEW j \in Jobs, RunRejected(j) PROVE FALSE
    BY <2>2, <2>3 DEF RunRejected
  <2>4. ASSUME NEW d \in Direct, DirectRejected(d) PROVE FALSE
    BY <2>2, <2>4 DEF DirectRejected
  <2>5. ASSUME NEW j \in Jobs, Cancel(j) PROVE FALSE
    BY <2>5 DEF Cancel
  <2>6. ASSUME NEW j \in Jobs, Delivered(j) PROVE FALSE
    BY <2>6 DEF Delivered
  <2>7. ASSUME NEW d \in Direct, DirectDelivered(d) PROVE FALSE
    BY <2>7 DEF DirectDelivered
  <2>8. ASSUME NEW d \in Direct, DirectRequest(d) PROVE FALSE
    BY <2>8 DEF DirectRequest, Begin
  <2>9. ASSUME NEW j \in Jobs,
               Create(j) \/ RunReady(j) \/ ConsumeReadyArtifact(j) \/ Age(j)
        PROVE  file' = file
    BY <2>9 DEF Create, RunReady, ConsumeReadyArtifact, Age
  <2>10. ASSUME NEW y \in Downloads, Fail(y) PROVE file' = file
    BY <2>10 DEF Fail
  <2>11. ASSUME NEW d \in Direct, DirectReady(d) PROVE file' = file
    BY <2>11 DEF DirectReady
  <2>12. CASE Sweep
    BY <2>12 DEF Sweep
  <2>13. UNCHANGED vars => file' = file
    BY DEF vars
  <2>14. QED
    BY <2>1, <2>3, <2>4, <2>5, <2>6, <2>7, <2>8, <2>9, <2>10, <2>11, <2>12, <2>13
       DEF Next, Microtask
<1>2. QED
  BY <1>1, Invariant, PTL DEF Spec, OnlySweepCutsDelivery

-----------------------------------------------------------------------------
(* The queue and its slots.  No wakeup is lost: what would let a job in    *)
(* schedules drain, and drain stops at full slots or an empty queue only.  *)

UnderWay == {j \in Jobs : run[j] # "none"}

\* The queue has the jobs that are queued, each once.
QueueOK ==
  /\ \A i \in DOMAIN queue : status[queue[i]] = "queued"
  /\ \A i, k \in DOMAIN queue : queue[i] = queue[k] => i = k
  /\ \A j \in Jobs : status[j] = "queued" => \E i \in DOMAIN queue : queue[i] = j

SlotsOK ==
  /\ runningCount = Cardinality(UnderWay) /\ runningCount <= Slots
  /\ queue # <<>> /\ runningCount < Slots => drainScheduled

LEMMA QueueStays ==
  ASSUME RecordsOK, QueueOK, UNCHANGED queue,
         \A j \in Jobs : status'[j] = "queued" <=> status[j] = "queued"
  PROVE  QueueOK'
<1>1. \A i \in DOMAIN queue : queue[i] \in Jobs
  BY LenProperties, ElementOfSeq DEF RecordsOK
<1>2. QED
  BY <1>1 DEF QueueOK

\* A job comes in at the end, or leaves from its place.
LEMMA QueueGrows ==
  ASSUME RecordsOK, QueueOK, NEW j \in Jobs, status[j] = "none",
         queue' = Append(queue, j), status' = [status EXCEPT ![j] = "queued"]
  PROVE  QueueOK'
<1>1. /\ Len(queue) \in Nat /\ DOMAIN queue = 1..Len(queue)
      /\ \A i \in DOMAIN queue : queue[i] \in Jobs
  BY LenProperties, ElementOfSeq DEF RecordsOK
<1>2. /\ DOMAIN queue' = 1..(Len(queue) + 1)
      /\ \A i \in DOMAIN queue : queue'[i] = queue[i]
      /\ queue'[Len(queue) + 1] = j
  BY <1>1 DEF RecordsOK
<1>3. \A i \in DOMAIN queue : queue[i] # j
  BY DEF QueueOK
<1>4. status' \in [Jobs -> Statuses] /\ status'[j] = "queued"
      /\ \A k \in Jobs \ {j} : status'[k] = status[k]
  BY DEF RecordsOK, Statuses
<1>5. \A i \in DOMAIN queue' : i \in DOMAIN queue \/ i = Len(queue) + 1
  BY <1>1, <1>2
<1>6. \A i \in DOMAIN queue' : status'[queue'[i]] = "queued"
  BY <1>1, <1>2, <1>3, <1>4, <1>5 DEF QueueOK
<1>7. \A i, k \in DOMAIN queue' : queue'[i] = queue'[k] => i = k
  BY <1>2, <1>3, <1>5 DEF QueueOK
<1>8. ASSUME NEW k \in Jobs, status'[k] = "queued"
      PROVE  \E i \in DOMAIN queue' : queue'[i] = k
  <2>1. CASE k = j
    BY <1>1, <1>2, <2>1
  <2>2. CASE k # j
    <3>1. PICK i \in DOMAIN queue : queue[i] = k
      BY <1>4, <1>8, <2>2 DEF QueueOK
    <3>2. i \in DOMAIN queue' /\ queue'[i] = k
      BY <1>1, <1>2, <3>1
    <3>3. QED
      BY <3>2
  <2>3. QED
    BY <2>1, <2>2
<1>9. QED
  BY <1>6, <1>7, <1>8 DEF QueueOK

LEMMA QueueShrinks ==
  ASSUME RecordsOK, QueueOK, NEW p \in DOMAIN queue, NEW s \in Statuses,
         s # "queued", status' = [status EXCEPT ![queue[p]] = s],
         DOMAIN queue' = 1..(Len(queue) - 1),
         \A i \in DOMAIN queue' :
           queue'[i] = IF i < p THEN queue[i] ELSE queue[i + 1]
  PROVE  QueueOK'
<1>1. /\ Len(queue) \in Nat /\ DOMAIN queue = 1..Len(queue)
      /\ \A i \in DOMAIN queue : queue[i] \in Jobs
  BY LenProperties, ElementOfSeq DEF RecordsOK
<1> DEFINE at(i) == IF i < p THEN i ELSE i + 1
<1>2. \A i \in DOMAIN queue' : at(i) \in DOMAIN queue \ {p} /\ queue'[i] = queue[at(i)]
  BY <1>1
<1>3. \A i, k \in DOMAIN queue' : at(i) = at(k) => i = k
  BY <1>1
<1>4. \A k \in DOMAIN queue \ {p} : \E i \in DOMAIN queue' : at(i) = k
  <2> SUFFICES ASSUME NEW k \in DOMAIN queue \ {p}
               PROVE  \E i \in DOMAIN queue' : at(i) = k
    OBVIOUS
  <2>1. CASE k < p
    BY <1>1, <2>1
  <2>2. CASE k > p
    <3>1. k - 1 \in DOMAIN queue' /\ at(k - 1) = k
      BY <1>1, <2>2
    <3>2. QED
      BY <3>1
  <2>3. QED
    BY <1>1, <2>1, <2>2
<1>5. \A k \in DOMAIN queue \ {p} : queue[k] # queue[p]
  BY DEF QueueOK
<1>6. \A j \in Jobs \ {queue[p]} : status'[j] = status[j]
  BY DEF RecordsOK
<1>7. status'[queue[p]] # "queued"
  BY <1>1 DEF RecordsOK
<1> HIDE DEF at
<1>8. \A i \in DOMAIN queue' : status'[queue'[i]] = "queued"
  BY <1>1, <1>2, <1>5, <1>6 DEF QueueOK
<1>9. \A i, k \in DOMAIN queue' : queue'[i] = queue'[k] => i = k
  BY <1>2, <1>3 DEF QueueOK
<1>10. ASSUME NEW j \in Jobs, status'[j] = "queued"
       PROVE  \E i \in DOMAIN queue' : queue'[i] = j
  <2>1. j # queue[p] /\ status[j] = "queued"
    BY <1>6, <1>7, <1>10
  <2>2. PICK k \in DOMAIN queue : queue[k] = j
    BY <2>1 DEF QueueOK
  <2>3. k \in DOMAIN queue \ {p}
    BY <2>1, <2>2
  <2>4. PICK i \in DOMAIN queue' : at(i) = k
    BY <1>4, <2>3
  <2>5. QED
    BY <1>2, <2>2, <2>4
<1>11. QED
  BY <1>8, <1>9, <1>10 DEF QueueOK

\* The first leaves by drain, any by a cancel.
LEMMA TailShrinks ==
  ASSUME RecordsOK, queue # <<>>
  PROVE  /\ 1 \in DOMAIN queue /\ Head(queue) = queue[1]
         /\ DOMAIN Tail(queue) = 1..(Len(queue) - 1)
         /\ \A i \in DOMAIN Tail(queue) :
              Tail(queue)[i] = IF i < 1 THEN queue[i] ELSE queue[i + 1]
  BY DEF RecordsOK

LEMMA SpliceShrinks ==
  ASSUME RecordsOK, NEW p \in DOMAIN queue
  PROVE  LET rest == SubSeq(queue, 1, p - 1) \o SubSeq(queue, p + 1, Len(queue))
         IN  /\ DOMAIN rest = 1..(Len(queue) - 1)
             /\ \A i \in DOMAIN rest :
                  rest[i] = IF i < p THEN queue[i] ELSE queue[i + 1]
<1> DEFINE a == SubSeq(queue, 1, p - 1)
           b == SubSeq(queue, p + 1, Len(queue))
<1>1. Len(queue) \in Nat /\ p \in 1..Len(queue)
      /\ \A i \in 1..Len(queue) : queue[i] \in Jobs
  BY LenProperties, ElementOfSeq DEF RecordsOK
<1>2. /\ a \in Seq(Jobs) /\ Len(a) = p - 1
      /\ \A i \in 1..(p - 1) : a[i] = queue[i]
  <2>1. \A i \in 1..(p - 1) : queue[i] \in Jobs
    BY <1>1
  <2>2. /\ a \in Seq(Jobs)
        /\ Len(a) = IF 1 <= p - 1 THEN (p - 1) - 1 + 1 ELSE 0
        /\ \A i \in 1..((p - 1) - 1 + 1) : a[i] = queue[1 + i - 1]
    BY <1>1, <2>1, SubSeqProperties
  <2> HIDE DEF a
  <2>3. QED
    BY <1>1, <2>2
<1>3. /\ b \in Seq(Jobs) /\ Len(b) = Len(queue) - p
      /\ \A i \in 1..(Len(queue) - p) : b[i] = queue[p + i]
  <2>1. \A i \in (p + 1)..Len(queue) : queue[i] \in Jobs
    BY <1>1
  <2>2. /\ b \in Seq(Jobs)
        /\ Len(b) = IF p + 1 <= Len(queue) THEN Len(queue) - (p + 1) + 1 ELSE 0
        /\ \A i \in 1..(Len(queue) - (p + 1) + 1) : b[i] = queue[p + 1 + i - 1]
    BY <1>1, <2>1, SubSeqProperties
  <2> HIDE DEF b
  <2>3. QED
    BY <1>1, <2>2
<1> HIDE DEF a, b
<1>4. /\ a \o b \in Seq(Jobs) /\ Len(a \o b) = Len(queue) - 1
      /\ \A i \in 1..(Len(queue) - 1) :
           (a \o b)[i] = IF i <= p - 1 THEN a[i] ELSE b[i - (p - 1)]
  <2>1. /\ a \o b \in Seq(Jobs) /\ Len(a \o b) = Len(a) + Len(b)
        /\ \A i \in 1..(Len(a) + Len(b)) :
             (a \o b)[i] = IF i <= Len(a) THEN a[i] ELSE b[i - Len(a)]
    BY <1>2, <1>3, ConcatProperties
  <2>2. Len(a) + Len(b) = Len(queue) - 1
    BY <1>1, <1>2, <1>3
  <2>3. QED
    BY <1>2, <2>1, <2>2
<1>5. DOMAIN (a \o b) = 1..(Len(queue) - 1)
  BY <1>4, LenProperties
<1>6. ASSUME NEW i \in 1..(Len(queue) - 1)
      PROVE  (a \o b)[i] = IF i < p THEN queue[i] ELSE queue[i + 1]
  <2>1. CASE i < p
    <3>1. i \in 1..(p - 1)
      BY <1>1, <2>1
    <3>2. QED
      BY <1>1, <1>2, <1>4, <2>1, <3>1
  <2>2. CASE ~(i < p)
    <3>1. i - (p - 1) \in 1..(Len(queue) - p) /\ p + (i - (p - 1)) = i + 1
          /\ ~(i <= p - 1)
      BY <1>1, <2>2
    <3>2. QED
      BY <1>3, <1>4, <2>2, <3>1
  <2>3. QED
    BY <2>1, <2>2
<1>7. QED
  BY <1>5, <1>6 DEF a, b

LEMMA QueueStep ==
  RecordsOK /\ RunMatches /\ QueueOK /\ [Next]_vars => QueueOK'
<1> SUFFICES ASSUME RecordsOK, RunMatches, QueueOK, [Next]_vars PROVE QueueOK'
  OBVIOUS
<1> USE DEF queueVars, downloadVars, deliveryVars, Mark
<1>0. ASSUME UNCHANGED <<queue, status>> PROVE QueueOK'
  BY <1>0, QueueStays
<1>s. ASSUME NEW j \in Jobs, status[j] # "queued", NEW s \in Statuses,
             s # "queued", status' = [status EXCEPT ![j] = s], UNCHANGED queue
      PROVE  QueueOK'
  <2>1. \A k \in Jobs : status'[k] = "queued" <=> status[k] = "queued"
    BY <1>s DEF RecordsOK
  <2>2. QED
    BY <1>s, <2>1, QueueStays
<1>1. CASE Drain
  <2>1. CASE runningCount < Slots /\ queue # <<>>
    <3>1. 1 \in DOMAIN queue /\ Head(queue) = queue[1] /\ status[queue[1]] = "queued"
      BY <2>1, TailShrinks DEF QueueOK
    <3>2. queue' = Tail(queue) /\ status' = [status EXCEPT ![queue[1]] = "running"]
      BY <1>1, <2>1, <3>1 DEF Drain
    <3>3. QED
      BY <2>1, <3>1, <3>2, TailShrinks, QueueShrinks DEF Statuses
  <2>2. CASE ~(runningCount < Slots /\ queue # <<>>)
    BY <1>0, <1>1, <2>2 DEF Drain
  <2>3. QED
    BY <2>1, <2>2
<1>2. ASSUME NEW j \in Jobs, RunRejected(j) PROVE QueueOK'
  <2>1. status[j] # "queued"
    BY <1>2 DEF RunRejected, Settling, RunMatches
  <2>2. \/ UNCHANGED <<queue, status>>
        \/ UNCHANGED queue /\ status' = [status EXCEPT ![j] = "failed"]
    BY <1>2 DEF RunRejected, FreeSlot
  <2>3. QED
    BY <1>0, <1>s, <2>1, <2>2 DEF Statuses
<1>3. ASSUME NEW j \in Jobs, Create(j) PROVE QueueOK'
  BY <1>3, QueueGrows DEF Create
<1>4. ASSUME NEW j \in Jobs, Cancel(j) PROVE QueueOK'
  <2>1. status' = [status EXCEPT ![j] = "canceled"]
    BY <1>4 DEF Cancel
  <2>2. CASE status[j] # "queued"
    BY <1>4, <1>s, <2>1, <2>2 DEF Cancel, Statuses
  <2>3. CASE status[j] = "queued"
    <3>1. RemoveQueuedJob(j)
      BY <1>4, <2>3 DEF Cancel
    <3>2. PICK p \in DOMAIN queue :
            /\ queue[p] = j
            /\ queue' = SubSeq(queue, 1, p - 1) \o SubSeq(queue, p + 1, Len(queue))
      BY <3>1 DEF RemoveQueuedJob
    <3>3. /\ DOMAIN queue' = 1..(Len(queue) - 1)
          /\ \A i \in DOMAIN queue' :
               queue'[i] = IF i < p THEN queue[i] ELSE queue[i + 1]
      BY <3>2, SpliceShrinks
    <3>4. QED
      BY <2>1, <3>2, <3>3, QueueShrinks DEF Statuses
  <2>4. QED
    BY <2>2, <2>3
<1>5. ASSUME NEW j \in Jobs, RunReady(j) PROVE QueueOK'
  <2>1. status[j] # "queued"
    BY <1>5 DEF RunReady, RunMatches
  <2>2. UNCHANGED queue /\ status' = [status EXCEPT ![j] = "ready"]
    BY <1>5 DEF RunReady, FreeSlot
  <2>3. QED
    BY <1>s, <2>1, <2>2 DEF Statuses
<1>6. ASSUME NEW j \in Jobs, Delivered(j) PROVE QueueOK'
  <2>1. status[j] # "queued"
    BY <1>6 DEF Delivered, RunMatches
  <2>2. \/ UNCHANGED <<queue, status>>
        \/ UNCHANGED queue /\ status' = [status EXCEPT ![j] = "expired"]
    BY <1>6 DEF Delivered
  <2>3. QED
    BY <1>0, <1>s, <2>1, <2>2 DEF Statuses
<1>7. CASE Sweep
  <2>1. UNCHANGED queue
        /\ \A j \in Jobs : status'[j] = "queued" <=> status[j] = "queued"
    BY <1>7 DEF Sweep, RecordsOK
  <2>2. QED
    BY <2>1, QueueStays
<1>8. ASSUME NEW j \in Jobs, ConsumeReadyArtifact(j) \/ Age(j)
      PROVE  UNCHANGED <<queue, status>>
  BY <1>8 DEF ConsumeReadyArtifact, Age
<1>9. ASSUME NEW d \in Direct,
             \/ DirectRequest(d) \/ DirectReady(d)
             \/ DirectRejected(d) \/ DirectDelivered(d)
      PROVE  UNCHANGED <<queue, status>>
  BY <1>9 DEF DirectRequest, DirectReady, DirectRejected, DirectDelivered
<1>10. ASSUME NEW x \in Downloads, Fail(x) PROVE UNCHANGED <<queue, status>>
  BY <1>10 DEF Fail
<1>11. UNCHANGED vars => UNCHANGED <<queue, status>>
  BY DEF vars
<1>12. QED
  BY <1>0, <1>1, <1>2, <1>3, <1>4, <1>5, <1>6, <1>7, <1>8, <1>9, <1>10, <1>11
     DEF Next, Microtask

-----------------------------------------------------------------------------
(* The slots.                                                              *)

LEMMA JobsFinite ==
  /\ IsFiniteSet(UnderWay) /\ Cardinality(UnderWay) \in Nat
  /\ Slots \in Nat \ {0}
<1>1. IsFiniteSet(UnderWay)
  BY MediaAssumption, FS_Subset DEF UnderWay
<1>2. QED
  BY <1>1, FS_CardinalityType, MediaAssumption DEF Slots

\* A job that ends frees its slot and wakes drain up.
LEMMA SlotIsFreed ==
  ASSUME RecordsOK, SlotsOK, NEW j \in UnderWay,
         run' = [run EXCEPT ![j] = "none"], FreeSlot
  PROVE  SlotsOK'
<1>1. UnderWay' = UnderWay \ {j}
  BY DEF UnderWay, RecordsOK, Downloads
<1>2. Cardinality(UnderWay') = Cardinality(UnderWay) - 1
  BY <1>1, JobsFinite, OneMoreOrLess
<1>3. QED
  BY <1>2, JobsFinite DEF SlotsOK, FreeSlot, Slots

LEMMA SlotsStay ==
  ASSUME SlotsOK, UnderWay' = UnderWay, UNCHANGED runningCount,
         UNCHANGED <<queue, drainScheduled>> \/ drainScheduled'
  PROVE  SlotsOK'
  BY DEF SlotsOK, Slots

LEMMA SlotsStep ==
  RecordsOK /\ RunMatches /\ QueueOK /\ SlotsOK /\ [Next]_vars => SlotsOK'
<1> SUFFICES ASSUME RecordsOK, RunMatches, QueueOK, SlotsOK, [Next]_vars
             PROVE  SlotsOK'
  OBVIOUS
<1> USE DEF queueVars, downloadVars, deliveryVars, Mark
<1>0. ASSUME UNCHANGED queueVars, \A j \in Jobs : run'[j] = "none" <=> run[j] = "none"
      PROVE  SlotsOK'
  BY <1>0, SlotsStay DEF UnderWay
<1>1. CASE Drain
  <2>1. CASE runningCount < Slots /\ queue # <<>>
    <3> DEFINE j == Head(queue)
    <3>1. j = queue[1] /\ j \in Jobs /\ status[j] = "queued"
      BY <2>1, TailShrinks, HeadTailProperties DEF QueueOK, RecordsOK
    <3>2. run[j] = "none"
      BY <3>1 DEF RunMatches
    <3>3. /\ runningCount' = runningCount + 1 /\ drainScheduled' = drainScheduled
          /\ Begin(j)
      BY <1>1, <2>1, <3>1 DEF Drain
    <3>4. UnderWay' = UnderWay \cup {j} /\ j \notin UnderWay
      BY <3>1, <3>2, <3>3, BeginSets DEF UnderWay, RecordsOK, Downloads
    <3>5. Cardinality(UnderWay') = Cardinality(UnderWay) + 1
      BY <3>4, JobsFinite, OneMoreOrLess
    <3>6. QED
      BY <1>1, <2>1, <3>3, <3>5, JobsFinite DEF SlotsOK, Drain, Slots
  <2>2. CASE ~(runningCount < Slots /\ queue # <<>>)
    <3>1. UNCHANGED <<run, queue, runningCount>>
      BY <1>1, <2>2 DEF Drain
    <3>2. QED
      BY <2>2, <3>1 DEF SlotsOK, UnderWay, Slots
  <2>3. QED
    BY <2>1, <2>2
<1>2. ASSUME NEW j \in Jobs, RunRejected(j) PROVE SlotsOK'
  <2>1. j \in UnderWay /\ run' = [run EXCEPT ![j] = "none"] /\ FreeSlot
    BY <1>2 DEF RunRejected, End, Settling, UnderWay
  <2>2. QED
    BY <2>1, SlotIsFreed
<1>3. ASSUME NEW j \in Jobs, RunReady(j) PROVE SlotsOK'
  <2>1. j \in UnderWay /\ run' = [run EXCEPT ![j] = "none"] /\ FreeSlot
    BY <1>3 DEF RunReady, UnderWay
  <2>2. QED
    BY <2>1, SlotIsFreed
<1>4. ASSUME NEW j \in Jobs, Create(j) PROVE SlotsOK'
  <2>1. UnderWay' = UnderWay /\ runningCount' = runningCount /\ drainScheduled'
    BY <1>4 DEF Create, UnderWay
  <2>2. QED
    BY <2>1, SlotsStay
<1>5. ASSUME NEW j \in Jobs, Cancel(j) PROVE SlotsOK'
  <2>1. UNCHANGED <<runningCount, drainScheduled>>
    BY <1>5 DEF Cancel
  <2>2. UnderWay' = UnderWay
    <3>1. \/ run' = run
          \/ status[j] = "running" /\ run' = [run EXCEPT ![j] = "rejecting"]
      BY <1>5 DEF Cancel
    <3>2. QED
      BY <3>1 DEF UnderWay, RecordsOK, RunMatches, Downloads
  <2>3. queue # <<>> \/ queue' = <<>>
    <3>1. CASE UNCHANGED queue
      BY <3>1
    <3>2. CASE RemoveQueuedJob(j)
      <4>1. PICK p \in DOMAIN queue : queue[p] = j
        BY <3>2 DEF RemoveQueuedJob
      <4>2. queue # <<>>
        BY <4>1
      <4>3. QED
        BY <4>2
    <3>3. QED
      BY <1>5, <3>1, <3>2 DEF Cancel
  <2>4. QED
    BY <2>1, <2>2, <2>3 DEF SlotsOK, Slots
<1>6. ASSUME NEW x \in Downloads, Fail(x) PROVE SlotsOK'
  <2>1. \A j \in Jobs : run'[j] = "none" <=> run[j] = "none"
    BY <1>6 DEF Fail, RecordsOK, Downloads
  <2>2. QED
    BY <1>0, <1>6, <2>1 DEF Fail
<1>7. ASSUME NEW d \in Direct,
             \/ DirectRequest(d) \/ DirectReady(d)
             \/ DirectRejected(d) \/ DirectDelivered(d)
      PROVE  SlotsOK'
  <2>1. \/ run' = run
        \/ \E s \in {"none", "refused", "downloading"} : run' = [run EXCEPT ![d] = s]
    BY <1>7, BeginSets
       DEF DirectRequest, DirectReady, DirectRejected, DirectDelivered, End,
           Downloads
  <2>2. d \notin Jobs
    BY MediaAssumption
  <2>3. \A j \in Jobs : run'[j] = run[j]
    BY <2>1, <2>2 DEF RecordsOK, Downloads
  <2>4. UNCHANGED queueVars
    BY <1>7 DEF DirectRequest, DirectReady, DirectRejected, DirectDelivered
  <2>5. QED
    BY <1>0, <2>3, <2>4
<1>8. ASSUME NEW j \in Jobs, ConsumeReadyArtifact(j) \/ Age(j) \/ Delivered(j)
      PROVE  UNCHANGED <<queueVars, run>>
  BY <1>8 DEF ConsumeReadyArtifact, Age, Delivered
<1>9. Sweep \/ UNCHANGED vars => UNCHANGED <<queueVars, run>>
  BY DEF Sweep, vars
<1>10. UNCHANGED <<queueVars, run>> => SlotsOK'
  BY <1>0
<1>11. QED
  BY <1>1, <1>2, <1>3, <1>4, <1>5, <1>6, <1>7, <1>8, <1>9, <1>10
     DEF Next, Microtask

LEMMA QueueInvariant == Spec => [](QueueOK /\ SlotsOK)
<1>1. Init => QueueOK /\ SlotsOK
  <2>1. Init => UnderWay = {}
    BY MediaAssumption DEF Init, UnderWay, Downloads
  <2>2. Cardinality({}) = 0
    BY FS_EmptySet
  <2>3. Init => Cardinality(UnderWay) = 0
    BY <2>1, <2>2, Zenon
  <2>4. QED
    BY <2>3, JobsFinite DEF Init, QueueOK, SlotsOK
<1>2. IInv /\ QueueOK /\ SlotsOK /\ [Next]_vars => (QueueOK /\ SlotsOK)'
  BY QueueStep, SlotsStep DEF IInv
<1>3. QED
  BY <1>1, <1>2, Invariant, PTL DEF Spec

\* A job waits only while drain is about to run or every slot is taken by a
\* job whose download has not ended: neither a cancel nor a download that is
\* refused, fails or is aborted leaves a slot taken or the queue asleep.
WaitsForSlots ==
  \A j \in Jobs :
    status[j] = "queued" => drainScheduled \/ Cardinality(UnderWay) = Slots

THEOREM NoWakeupIsLost == Spec => []WaitsForSlots
<1>1. QueueOK /\ SlotsOK => WaitsForSlots
  <2> SUFFICES ASSUME QueueOK, SlotsOK, NEW j \in Jobs, status[j] = "queued"
               PROVE  drainScheduled \/ Cardinality(UnderWay) = Slots
    BY DEF WaitsForSlots
  <2>1. queue # <<>>
    BY DEF QueueOK
  <2>2. QED
    BY <2>1, JobsFinite DEF SlotsOK
<1>2. QED
  BY <1>1, QueueInvariant, PTL

\* drain never meets a job that is not queued: its check of the status is
\* redundant, and no job is started twice.
THEOREM QueueHoldsQueued == Spec => []QueueOK
<1>1. QED
  BY QueueInvariant, PTL
=================================================================================

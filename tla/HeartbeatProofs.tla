--------------------------- MODULE HeartbeatProofs ---------------------------
(***************************************************************************)
(* What the sign of life of the worker is worth, for every period, limit   *)
(* and delay.                                                              *)
(*                                                                         *)
(* A dead worker is found out: every time stamp, written or under way, is  *)
(* at least as old as the death of the process that made it.               *)
(*                                                                         *)
(* A live worker is not called dead: every interval since the time stamp   *)
(* in the database has left an upsert that has failed or is under way, and *)
(* there is room for MaxLost that fail and a Delay at either end.          *)
(***************************************************************************)
EXTENDS Heartbeat, FiniteSetTheorems, TLAPS

\* What the proofs need of the constants, most of the time.
LEMMA Bounds ==
  /\ Interval \in Nat /\ Interval > 0
  /\ Delay \in Nat /\ MaxLost \in Nat /\ Stale \in Nat
  /\ Delay < Stale
<1>1. ASSUME NEW n \in Nat \ {0}, NEW k \in Nat PROVE n * (k + 1) > 0
  OBVIOUS
<1>2. Interval * (MaxLost + 1) > 0
  BY <1>1, HeartbeatAssumption
<1>3. QED
  BY <1>2, HeartbeatAssumption

-----------------------------------------------------------------------------
(* Types.                                                                  *)

\* The two flags, and the numbers.
Flags == up \in BOOLEAN /\ warm \in BOOLEAN

Ages ==
  /\ gone \in 0..(Stale + 1)
  /\ timer \in 0..Interval
  /\ flying \subseteq 0..Delay
  /\ lost \in 0..MaxLost
  /\ seen \in {NoRow} \cup 0..(Stale + 1)

LEMMA BeatTypeSplit == BeatTypeOK <=> Flags /\ Ages
  BY DEF BeatTypeOK, Flags, Ages

LEMMA BeatTypeInit == BeatInit => BeatTypeOK
<1>1. BeatInit => Flags
  BY DEF BeatInit, Flags
<1>2. BeatInit => Ages
  BY Bounds DEF BeatInit, Ages
<1>3. QED
  BY <1>1, <1>2, BeatTypeSplit

LEMMA FlagsStep == Flags /\ [BeatNext]_beatVars => Flags'
<1> USE DEF Flags
<1>1. ASSUME Flags, StartWorker PROVE Flags'
  BY <1>1 DEF StartWorker
<1>2. ASSUME Flags, StopWorker PROVE Flags'
  BY <1>2 DEF StopWorker
<1>3. ASSUME Flags, BeatStep PROVE Flags'
  BY <1>3 DEF BeatStep, Beat, Tick, Land, Lose
<1>4. ASSUME Flags, UNCHANGED beatVars PROVE Flags'
  BY <1>4 DEF beatVars
<1>5. QED
  BY <1>1, <1>2, <1>3, <1>4 DEF BeatNext

LEMMA OlderBounds ==
  ASSUME NEW age \in 0..(Stale + 1)
  PROVE  Older(age) \in 0..(Stale + 1) /\ Older(age) >= age
  BY Bounds DEF Older

LEMMA AgesStep == Ages /\ [BeatNext]_beatVars => Ages'
<1> SUFFICES ASSUME Ages, [BeatNext]_beatVars PROVE Ages'
  OBVIOUS
<1> USE Bounds DEF Ages, NoRow
<1>1. CASE StartWorker
  BY <1>1 DEF StartWorker
<1>2. CASE StopWorker
  BY <1>2 DEF StopWorker
<1>3. CASE Beat
  BY <1>3 DEF Beat
<1>4. CASE Tick
  <2>1. flying' \subseteq 0..Delay
    BY <1>4 DEF Tick
  <2>2. gone' \in 0..(Stale + 1)
    BY <1>4, OlderBounds DEF Tick
  <2>3. seen' \in {NoRow} \cup 0..(Stale + 1)
    BY <1>4, OlderBounds DEF Tick
  <2>4. timer' \in 0..Interval
    BY <1>4 DEF Tick
  <2>5. QED
    BY <1>4, <2>1, <2>2, <2>3, <2>4 DEF Tick
<1>5. ASSUME NEW age \in flying, Land(age) PROVE Ages'
  BY <1>5 DEF Land
<1>6. ASSUME NEW age \in flying, Lose(age) PROVE Ages'
  BY <1>6 DEF Lose
<1>7. CASE UNCHANGED beatVars
  BY <1>7 DEF beatVars
<1>8. QED
  BY <1>1, <1>2, <1>3, <1>4, <1>5, <1>6, <1>7 DEF BeatNext, BeatStep

LEMMA BeatTypeStep == BeatTypeOK /\ [BeatNext]_beatVars => BeatTypeOK'
  <1>1. Flags' /\ Ages' => BeatTypeOK'
    BY DEF BeatTypeOK, Flags, Ages
  <1>2. QED
    BY <1>1, BeatTypeSplit, FlagsStep, AgesStep

\* Every variable of the heartbeat keeps its type (Heartbeat, all actions).
THEOREM BeatTypeCorrect == BeatSpec => []BeatTypeOK
<1>1. QED
  BY BeatTypeInit, BeatTypeStep, PTL DEF BeatSpec

-----------------------------------------------------------------------------
(* A worker that is called available was alive within the limit.           *)

\* No time stamp, written or under way, is younger than the death of the
\* process that may have made it.
NoStampAfterDeath ==
  /\ up => gone = 0
  /\ \A age \in flying : gone <= age
  /\ seen # NoRow => gone <= seen

LEMMA NoStampInit == BeatInit => NoStampAfterDeath
  BY Bounds DEF BeatInit, NoStampAfterDeath

\* Time passes alike for the dead process and for its stamps.
LEMMA OlderMonotone ==
  ASSUME NEW a \in 0..(Stale + 1), NEW b \in 0..(Stale + 1), a <= b
  PROVE  Older(a) <= Older(b) /\ Older(a) <= a + 1
  BY Bounds DEF Older

LEMMA NoStampStep ==
  Ages /\ NoStampAfterDeath /\ [BeatNext]_beatVars => NoStampAfterDeath'
<1> SUFFICES ASSUME Ages, NoStampAfterDeath, [BeatNext]_beatVars
             PROVE  NoStampAfterDeath'
  OBVIOUS
<1> USE Bounds DEF Ages, NoStampAfterDeath, NoRow
<1>1. CASE StartWorker
  BY <1>1 DEF StartWorker
<1>2. CASE StopWorker
  BY <1>2 DEF StopWorker
<1>3. CASE Beat
  BY <1>3 DEF Beat
<1>4. CASE Tick
  <2>1. up' => gone' = 0
    BY <1>4 DEF Tick
  <2>2. ASSUME NEW later \in flying' PROVE gone' <= later
    <3>1. PICK age \in flying : later = age + 1
      BY <1>4 DEF Tick
    <3>2. gone <= age /\ age \in Nat /\ gone \in Nat
      OBVIOUS
    <3>3. gone' = gone \/ gone' = Older(gone)
      BY <1>4 DEF Tick
    <3>4. Older(gone) \in Nat /\ Older(gone) <= gone + 1
      BY OlderBounds, OlderMonotone
    <3>5. QED
      BY <3>1, <3>2, <3>3, <3>4
  <2>3. ASSUME seen' # NoRow PROVE gone' <= seen'
    <3>1. seen # NoRow /\ seen' = Older(seen)
      BY <1>4, <2>3 DEF Tick
    <3>2. gone <= seen /\ gone \in 0..(Stale + 1) /\ seen \in 0..(Stale + 1)
      BY <3>1
    <3>3. seen <= Older(seen) /\ Older(gone) <= Older(seen)
          /\ Older(seen) \in 0..(Stale + 1)
      BY <3>2, OlderBounds, OlderMonotone
    <3>4. gone' = gone \/ gone' = Older(gone)
      BY <1>4 DEF Tick
    <3>5. QED
      BY <3>1, <3>2, <3>3, <3>4
  <2>4. QED
    BY <2>1, <2>2, <2>3
<1>5. ASSUME NEW age \in flying, Land(age) PROVE NoStampAfterDeath'
  BY <1>5 DEF Land
<1>6. ASSUME NEW age \in flying, Lose(age) PROVE NoStampAfterDeath'
  BY <1>6 DEF Lose
<1>7. CASE UNCHANGED beatVars
  BY <1>7 DEF beatVars
<1>8. QED
  BY <1>1, <1>2, <1>3, <1>4, <1>5, <1>6, <1>7 DEF BeatNext, BeatStep

\* A worker that GET /health calls available has run within the stale limit,
\* although the upserts of a dead process may still arrive (Heartbeat, Land).
THEOREM DeadWorkerIsFound == BeatSpec => []AvailableMeansAlive
<1>1. BeatTypeOK /\ NoStampAfterDeath => AvailableMeansAlive
  BY Bounds DEF BeatTypeOK, NoStampAfterDeath, AvailableMeansAlive, Available, NoRow
<1>2. QED
  BY <1>1, BeatTypeCorrect, BeatTypeSplit, NoStampInit, NoStampStep, PTL DEF BeatSpec

-----------------------------------------------------------------------------
(* A worker that runs is called available.                                 *)

\* Ticks since the timer fired last, or the process started.
Since == Interval - timer

\* n times the period.  A name of its own keeps products from the provers.
Periods(n) == Interval * n

\* The upserts under way that are older than age.
Before(age) == {other \in flying : other > age}

\* No upsert is under way that was made after the timer fired last.  And what
\* has passed since the time stamp in the database has left an upsert per
\* period, which has failed or is under way: up to now, and up to any age.
OnTime ==
  up =>
    /\ \A age \in flying : Since <= age
    /\ warm =>
         /\ seen # NoRow
         /\ seen <= Delay + Since + Periods(lost + Cardinality(flying))
         /\ \A age \in 0..Delay :
              seen <= Delay + age + Periods(lost + Cardinality(Before(age)) + 1)

LEMMA PeriodsGrow ==
  ASSUME NEW m \in Nat, NEW n \in Nat, m <= n
  PROVE  /\ Periods(m) \in Nat /\ Periods(m) <= Periods(n)
         /\ Periods(m + 1) = Periods(m) + Interval
<1>1. Interval \in Nat
  BY Bounds
<1>2. Interval * m \in Nat /\ Interval * (n - m) >= 0
  BY <1>1
<1>3. Interval * n = Interval * m + Interval * (n - m)
  BY <1>1
<1>4. Interval * (m + 1) = Interval * m + Interval
  BY <1>1
<1>5. QED
  BY <1>1, <1>2, <1>3, <1>4 DEF Periods

\* flying is finite, and so are its parts.
LEMMA FlyingFinite ==
  ASSUME Ages
  PROVE  /\ IsFiniteSet(flying) /\ Cardinality(flying) \in Nat
         /\ \A age : /\ IsFiniteSet(Before(age))
                     /\ Cardinality(Before(age)) \in Nat
<1>1. IsFiniteSet(0..Delay)
  BY Bounds, FS_Interval
<1>2. IsFiniteSet(flying)
  BY <1>1, FS_Subset DEF Ages
<1>3. ASSUME NEW age PROVE IsFiniteSet(Before(age))
  BY <1>2, FS_Subset DEF Before
<1>4. QED
  BY <1>2, <1>3, FS_CardinalityType

\* Time that passes loses no upsert.
LEMMA ShiftKeepsCount ==
  ASSUME NEW S \in SUBSET Nat, IsFiniteSet(S)
  PROVE  Cardinality({n + 1 : n \in S}) = Cardinality(S)
<1> DEFINE T == {n + 1 : n \in S}
           f == [n \in S |-> n + 1]
<1>1. f \in [S -> T]
  OBVIOUS
<1>2. \A m, n \in S : f[m] = f[n] => m = n
  OBVIOUS
<1>3. \A t \in T : \E n \in S : f[n] = t
  OBVIOUS
<1>4. f \in Bijection(S, T)
  BY <1>1, <1>2, <1>3 DEF Bijection, Injection, Surjection, IsInjective
<1>5. QED
  BY <1>4, FS_Bijection DEF ExistsBijection

LEMMA OnTimeInit == BeatInit => OnTime
  BY DEF BeatInit, OnTime

\* The timer fires: the new upsert stands for the period that is over.
LEMMA OnTimeBeat == ASSUME Ages, OnTime, Beat PROVE OnTime'
<1>1. up /\ up' /\ timer = 0 /\ timer' = Interval /\ flying' = flying \cup {0}
      /\ UNCHANGED <<lost, seen, warm>>
  BY DEF Beat
<1>2. Since = Interval /\ Since' = 0
  BY <1>1, Bounds DEF Since
<1>3. 0 \notin flying /\ \A age \in flying : age \in Nat
  BY <1>1, <1>2, Bounds DEF OnTime, Ages
<1>4. \A age \in flying' : Since' <= age
  BY <1>1, <1>2, <1>3
<1>5. ASSUME warm' PROVE /\ seen' # NoRow
                        /\ seen' <= Delay + Since'
                                    + Periods(lost' + Cardinality(flying'))
                        /\ \A age \in 0..Delay :
                             seen' <= Delay + age
                               + Periods(lost' + Cardinality(Before(age)') + 1)
  <2> DEFINE count == lost + Cardinality(flying)
  <2>1. Cardinality(flying') = Cardinality(flying) + 1 /\ count \in Nat
    BY <1>1, <1>3, FlyingFinite, FS_AddElement, Bounds DEF Ages
  <2>2. Periods(count + 1) = Periods(count) + Interval /\ Periods(count) \in Nat
    BY <2>1, PeriodsGrow
  <2>3. lost' + Cardinality(flying') = count + 1
    BY <1>1, <2>1, FlyingFinite, Bounds DEF Ages
  <2>4. seen # NoRow /\ seen <= Delay + Interval + Periods(count)
    BY <1>1, <1>2, <1>5 DEF OnTime
  <2>5. seen' <= Delay + Since' + Periods(lost' + Cardinality(flying'))
    <3> HIDE DEF count
    <3>1. Periods(lost' + Cardinality(flying')) = Periods(count) + Interval
      BY <2>2, <2>3
    <3>2. seen \in Int /\ Delay \in Nat /\ Interval \in Nat
      BY Bounds DEF Ages, NoRow
    <3>3. QED
      BY <1>1, <1>2, <2>2, <2>4, <3>1, <3>2
  <2>6. ASSUME NEW age \in 0..Delay
        PROVE  seen' <= Delay + age + Periods(lost' + Cardinality(Before(age)') + 1)
    <3>1. Before(age)' = Before(age)
      BY <1>1 DEF Before
    <3>2. seen <= Delay + age + Periods(lost + Cardinality(Before(age)) + 1)
      BY <1>1, <1>5 DEF OnTime
    <3>3. QED
      BY <1>1, <3>1, <3>2
  <2>7. QED
    BY <1>1, <2>4, <2>5, <2>6
<1>6. QED
  BY <1>1, <1>4, <1>5 DEF OnTime

\* A tick ages the stamp and every upsert alike.
LEMMA OnTimeTick == ASSUME Ages, OnTime, Tick PROVE OnTime'
<1>1. /\ up' = up /\ lost' = lost /\ warm' = warm
      /\ flying' = {age + 1 : age \in flying}
  BY DEF Tick
<1>2. ASSUME up PROVE Since' = Since + 1 /\ Since' <= Interval /\ Since \in Nat
  BY <1>2, Bounds DEF Tick, Since, Ages
<1>3. ASSUME up PROVE \A age \in flying' : Since' <= age
  <2>1. SUFFICES ASSUME NEW age \in flying PROVE Since' <= age + 1
    BY <1>1
  <2>2. Since <= age /\ age \in Nat
    BY <1>3, Bounds DEF OnTime, Ages
  <2>3. QED
    BY <1>2, <1>3, <2>2
<1>4. flying \in SUBSET Nat /\ lost \in Nat
  BY Bounds DEF Ages
<1>5. Cardinality(flying') = Cardinality(flying)
  BY <1>1, <1>4, FlyingFinite, ShiftKeepsCount
<1>6. ASSUME up, warm
      PROVE  /\ seen' # NoRow
             /\ seen' <= Delay + Since' + Periods(lost' + Cardinality(flying'))
             /\ \A age \in 0..Delay :
                  seen' <= Delay + age + Periods(lost' + Cardinality(Before(age)') + 1)
  <2>1. seen # NoRow /\ seen \in Nat
    BY <1>6, Bounds DEF OnTime, Ages, NoRow
  <2>2. seen' \in Nat /\ seen' <= seen + 1
    <3>1. seen' = Older(seen) /\ seen \in 0..(Stale + 1)
      BY <2>1, Bounds DEF Tick, Ages, NoRow
    <3>2. QED
      BY <3>1, OlderBounds, OlderMonotone
  <2> DEFINE count == lost + Cardinality(flying)
  <2>3. count \in Nat /\ Periods(count) \in Nat
        /\ Periods(count + 1) = Periods(count) + Interval
    BY <1>4, FlyingFinite, PeriodsGrow
  <2>4. lost' + Cardinality(flying') = count
    BY <1>1, <1>5
  <2>5. seen <= Delay + Since + Periods(count)
    BY <1>6 DEF OnTime
  <2>6. seen' <= Delay + Since' + Periods(count)
    <3> HIDE DEF count
    <3>1. QED
      BY <1>2, <1>6, <2>1, <2>2, <2>3, <2>5, Bounds
  <2>7. ASSUME NEW age \in 0..Delay
        PROVE  seen' <= Delay + age + Periods(lost' + Cardinality(Before(age)') + 1)
    <3>1. CASE age = 0
      <4>1. Before(age)' = flying'
        <5>1. \A later \in flying' : later > age
          BY <3>1, <1>1, <1>4
        <5>2. QED
          BY <5>1 DEF Before
      <4>2. seen' <= Delay + Interval + Periods(count)
        <5> HIDE DEF count
        <5>1. QED
          BY <2>6, <2>3, <2>2, <1>2, <1>6, Bounds
      <4>3. lost' + Cardinality(Before(age)') + 1 = count + 1
        BY <4>1, <2>4
      <4>4. QED
        <5> HIDE DEF count
        <5>1. Periods(lost' + Cardinality(Before(age)') + 1) = Periods(count) + Interval
          BY <4>3, <2>3
        <5>2. QED
          BY <4>2, <5>1, <3>1, <2>3, <2>2, Bounds
    <3>2. CASE age # 0
      <4> DEFINE younger == age - 1
      <4>1. younger \in 0..Delay /\ age = younger + 1 /\ younger \in Nat
        BY <3>2, Bounds
      <4>2. Before(age)' = {other + 1 : other \in Before(younger)}
        BY <1>1, <1>4, <4>1 DEF Before
      <4>3. Before(younger) \in SUBSET Nat
        BY <1>4 DEF Before
      <4>4. Cardinality(Before(age)') = Cardinality(Before(younger))
        BY <4>2, <4>3, FlyingFinite, ShiftKeepsCount
      <4>5. seen <= Delay + younger
                    + Periods(lost + Cardinality(Before(younger)) + 1)
        BY <1>6, <4>1 DEF OnTime
      <4>6. Periods(lost + Cardinality(Before(younger)) + 1) \in Nat
        BY <1>4, FlyingFinite, PeriodsGrow
      <4> DEFINE room == Periods(lost + Cardinality(Before(younger)) + 1)
      <4>7. Periods(lost' + Cardinality(Before(age)') + 1) = room
        BY <4>4, <1>1
      <4> HIDE DEF room, younger
      <4>8. seen <= Delay + younger + room /\ room \in Nat
        BY <4>5, <4>6 DEF room
      <4>9. QED
        BY <4>1, <4>7, <4>8, <2>1, <2>2, Bounds
    <3>3. QED
      BY <3>1, <3>2
  <2>8. QED
    BY <2>2, <2>4, <2>6, <2>7 DEF NoRow
<1>7. QED
  BY <1>1, <1>3, <1>6 DEF OnTime

\* An upsert that fails counts as before, as a lost one.
LEMMA OnTimeLose ==
  ASSUME Ages, OnTime, NEW age \in flying, Lose(age) PROVE OnTime'
<1>1. /\ flying' = flying \ {age} /\ lost' = lost + 1
      /\ UNCHANGED <<up, timer, seen, warm>>
  BY DEF Lose
<1>2. lost \in Nat /\ Since' = Since
  BY <1>1, Bounds DEF Ages, Since
<1>3. \A S \in {flying} \cup {Before(other) : other \in 0..Delay} :
        /\ IsFiniteSet(S) /\ Cardinality(S) \in Nat
        /\ Cardinality(S \ {age}) \in Nat
        /\ Cardinality(S) <= Cardinality(S \ {age}) + 1
  <2>1. SUFFICES ASSUME NEW S, IsFiniteSet(S), Cardinality(S) \in Nat
                 PROVE  /\ Cardinality(S \ {age}) \in Nat
                        /\ Cardinality(S) <= Cardinality(S \ {age}) + 1
    BY FlyingFinite
  <2>2. /\ IsFiniteSet(S \ {age})
        /\ \/ Cardinality(S \ {age}) = Cardinality(S)
           \/ Cardinality(S \ {age}) = Cardinality(S) - 1
    BY <2>1, FS_RemoveElement
  <2>3. Cardinality(S \ {age}) \in Nat
    BY <2>2, FS_CardinalityType
  <2>4. QED
    BY <2>1, <2>2, <2>3
<1>4. ASSUME NEW S \in {flying} \cup {Before(other) : other \in 0..Delay}
      PROVE  /\ Periods(lost + Cardinality(S)) \in Nat
             /\ Periods(lost + Cardinality(S) + 1) \in Nat
             /\ Periods(lost' + Cardinality(S \ {age})) \in Nat
             /\ Periods(lost' + Cardinality(S \ {age}) + 1) \in Nat
             /\ Periods(lost + Cardinality(S))
                   <= Periods(lost' + Cardinality(S \ {age}))
             /\ Periods(lost + Cardinality(S) + 1)
                   <= Periods(lost' + Cardinality(S \ {age}) + 1)
  <2> DEFINE m == lost + Cardinality(S)
             n == lost' + Cardinality(S \ {age})
  <2>1. m \in Nat /\ n \in Nat /\ m <= n
    BY <1>1, <1>2, <1>3
  <2> HIDE DEF m, n
  <2>2. /\ Periods(m) \in Nat /\ Periods(n) \in Nat /\ Periods(m) <= Periods(n)
        /\ Periods(m + 1) \in Nat /\ Periods(n + 1) \in Nat
        /\ Periods(m + 1) <= Periods(n + 1)
    BY <2>1, PeriodsGrow
  <2>3. QED
    BY <2>2 DEF m, n
<1>5. ASSUME up, warm
      PROVE  /\ seen' # NoRow
             /\ seen' <= Delay + Since' + Periods(lost' + Cardinality(flying'))
             /\ \A other \in 0..Delay :
                  seen' <= Delay + other
                             + Periods(lost' + Cardinality(Before(other)') + 1)
  <2>1. seen \in Nat /\ seen # NoRow /\ Since \in Int
    BY <1>5, Bounds DEF OnTime, Ages, NoRow, Since
  <2>2. seen' <= Delay + Since' + Periods(lost' + Cardinality(flying'))
    <3>1. seen <= Delay + Since + Periods(lost + Cardinality(flying))
      BY <1>5 DEF OnTime
    <3>2. /\ Periods(lost + Cardinality(flying)) \in Nat
          /\ Periods(lost' + Cardinality(flying')) \in Nat
          /\ Periods(lost + Cardinality(flying))
               <= Periods(lost' + Cardinality(flying'))
      BY <1>1, <1>4
    <3>3. QED
      BY <1>1, <1>2, <2>1, <3>1, <3>2, Bounds
  <2>3. ASSUME NEW other \in 0..Delay
        PROVE  seen' <= Delay + other
                          + Periods(lost' + Cardinality(Before(other)') + 1)
    <3>1. seen <= Delay + other + Periods(lost + Cardinality(Before(other)) + 1)
      BY <1>5 DEF OnTime
    <3>2. Before(other)' = Before(other) \ {age}
      BY <1>1 DEF Before
    <3>3. /\ Periods(lost + Cardinality(Before(other)) + 1) \in Nat
          /\ Periods(lost' + Cardinality(Before(other)') + 1) \in Nat
          /\ Periods(lost + Cardinality(Before(other)) + 1)
               <= Periods(lost' + Cardinality(Before(other)') + 1)
      BY <3>2, <1>4
    <3>4. QED
      BY <1>1, <2>1, <3>1, <3>3, Bounds
  <2>4. QED
    BY <1>1, <2>1, <2>2, <2>3
<1>6. QED
  BY <1>1, <1>2, <1>5 DEF OnTime

\* An upsert that lands is at most Delay old, and starts the count anew.
LEMMA OnTimeLand ==
  ASSUME Ages, OnTime, NEW age \in flying, Land(age) PROVE OnTime'
<1>1. /\ flying' = flying \ {age} /\ seen' = age /\ lost' = 0
      /\ UNCHANGED <<up, timer>>
  BY DEF Land
<1>2. age \in 0..Delay /\ Since' = Since /\ Since \in Nat
  BY <1>1, Bounds DEF Ages, Since
<1>3. Cardinality(flying') \in Nat
      /\ \A other : Cardinality(Before(other)') \in Nat
  <2>1. Ages'
    BY AgesStep DEF BeatNext, BeatStep
  <2>2. /\ IsFiniteSet(flying') /\ Cardinality(flying') \in Nat
        /\ \A other : /\ IsFiniteSet(Before(other)')
                      /\ Cardinality(Before(other)') \in Nat
    <3>1. IsFiniteSet(flying')
      BY <1>1, FlyingFinite, FS_RemoveElement
    <3>2. ASSUME NEW other PROVE IsFiniteSet(Before(other)')
      BY <3>1, FS_Subset DEF Before
    <3>3. QED
      BY <3>1, <3>2, FS_CardinalityType
  <2>3. QED
    BY <2>2
<1>4. seen' <= Delay + Since' + Periods(lost' + Cardinality(flying'))
  <2>1. Periods(lost' + Cardinality(flying')) \in Nat
    BY <1>1, <1>3, PeriodsGrow
  <2>2. QED
    BY <1>1, <1>2, <2>1, Bounds
<1>5. ASSUME NEW other \in 0..Delay
      PROVE  seen' <= Delay + other
                        + Periods(lost' + Cardinality(Before(other)') + 1)
  <2>1. Periods(lost' + Cardinality(Before(other)') + 1) \in Nat
    BY <1>1, <1>3, PeriodsGrow
  <2>2. QED
    BY <1>1, <1>2, <2>1, Bounds
<1>6. QED
  BY <1>1, <1>2, <1>4, <1>5 DEF OnTime, NoRow

LEMMA OnTimeStep == Ages /\ OnTime /\ [BeatNext]_beatVars => OnTime'
<1> SUFFICES ASSUME Ages, OnTime, [BeatNext]_beatVars PROVE OnTime'
  OBVIOUS
<1>1. CASE StartWorker
  <2>1. ~warm' /\ Since' = 0 /\ flying' = flying \cup {0}
    BY <1>1, Bounds DEF StartWorker, Since
  <2>2. \A age \in flying' : Since' <= age
    BY <2>1, Bounds DEF Ages
  <2>3. QED
    BY <2>1, <2>2 DEF OnTime
<1>2. CASE StopWorker
  BY <1>2 DEF StopWorker, OnTime
<1>3. CASE UNCHANGED beatVars
  BY <1>3 DEF beatVars, OnTime, Since, Before
<1>4. QED
  BY <1>1, <1>2, <1>3, OnTimeBeat, OnTimeTick, OnTimeLand, OnTimeLose
     DEF BeatNext, BeatStep

\* A worker that runs and has been heard of is called available, whatever
\* order its upserts land in, as long as no more than MaxLost of them fail in
\* a row (Heartbeat, Land and Lose).
THEOREM LiveWorkerIsAvailable == BeatSpec => []AliveIsAvailable
<1>1. ASSUME BeatTypeOK, OnTime PROVE AliveIsAvailable
  <2>1. SUFFICES ASSUME up, warm PROVE seen # NoRow /\ seen <= Stale
    BY DEF AliveIsAvailable, Available
  <2>2. Ages
    BY <1>1, BeatTypeSplit
  <2>3. /\ seen # NoRow
        /\ seen <= Delay + Delay + Periods(lost + Cardinality(Before(Delay)) + 1)
    BY <1>1, <2>1, Bounds DEF OnTime
  <2>4. Cardinality(Before(Delay)) = 0
    <3>1. \A age \in flying : ~(age > Delay)
      BY <2>2, Bounds DEF Ages
    <3>2. Before(Delay) = {}
      BY <3>1 DEF Before
    <3>3. QED
      BY <3>2, FS_EmptySet
  <2>5. Periods(lost + 1) <= Periods(MaxLost + 1) /\ Periods(lost + 1) \in Nat
    BY <2>2, Bounds, PeriodsGrow DEF Ages
  <2>6. lost + Cardinality(Before(Delay)) + 1 = lost + 1
    BY <2>2, <2>4, Bounds DEF Ages
  <2>7. 2 * Delay + Periods(MaxLost + 1) <= Stale
    BY HeartbeatAssumption DEF Periods
  <2>8. Periods(MaxLost + 1) \in Nat
    BY Bounds, PeriodsGrow
  <2>9. seen <= Delay + Delay + Periods(lost + 1)
    BY <2>3, <2>6
  <2>10. seen \in Int
    BY <2>2, Bounds DEF Ages, NoRow
  <2>11. QED
    BY <2>3, <2>5, <2>7, <2>8, <2>9, <2>10, Bounds
<1>2. QED
  BY <1>1, BeatTypeCorrect, BeatTypeSplit, OnTimeInit, OnTimeStep, PTL DEF BeatSpec
=============================================================================

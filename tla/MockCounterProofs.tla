------------------------- MODULE MockCounterProofs --------------------------
(* For any timeline, any settings and any interleaving: the mock counter is well
   typed, implements Occupancy, its statuses are consistent and its stop is clean.

   The invariant adds how the state of the counter fits the people it shows (Fits)
   and the clock (Stay), where the thread is in the timeline, and that a thread that
   has ended stays ended. *)
EXTENDS MockCounter, TLAPS

Kinds == {"enter_region", "leave_region"}
Events == [kind : Kinds, at : 0..MaxTime, day : Days]

Stay(c, t) == IF c.occupied THEN 0 <= c.since /\ c.since <= t /\ c.total <= c.since
              ELSE c.since = Never /\ c.total <= t

(* Occupied is people > 0, always; the maximum follows within a beat. *)
Fits(c) == c.occupied <=> c.people > 0
Peaked(c) == c.people <= c.max

-----------------------------------------------------------------------------
(* TypeOK in parts. *)
ControlOK == /\ time \in 0..MaxTime /\ main \in MainPCs /\ wpc \in WorkerPCs
             /\ roi \in Rois
             /\ segment \in 1..(Len(Timeline) + 1)
             /\ began \in 0..MaxTime /\ wake \in 0..(MaxTime + Interval)
             /\ wpc \in {"while", "lock", "beat", "sleep"} => segment <= Len(Timeline)
StatusesOK == /\ snapshot \in StatusType \cup {NoStatus}
              /\ cached \in StatusType \cup {NoStatus}
StatsOK == /\ rows \in [Days -> [max : Peaks \cup {Never}, total : Never..MaxTime]]
           /\ lastSync \in Never..MaxTime
EmittedOK == emitted \in Seq(Events)

LEMMA TypeParts ==
  /\ ControlOK /\ running \in BOOLEAN /\ counting \in CountingType
  /\ StatusesOK /\ StatsOK /\ EmittedOK
  => TypeOK
  <1>1. StatusesOK => {snapshot, cached} \subseteq StatusType \cup {NoStatus}
    BY Zenon DEF StatusesOK
  <1> QED
    BY <1>1, Zenon DEF TypeOK, ControlOK, StatsOK, EmittedOK, Events, Kinds

LEMMA ConstantTypes ==
  /\ Timeline \in Seq([length : Nat \ {0}, people : Nat]) /\ Len(Timeline) \in Nat \ {0}
  /\ Interval \in Nat \ {0} /\ DayLength \in Nat \ {0}
  /\ SyncInterval \in Nat /\ MaxTime \in Nat /\ RoiInit \in Rois
  <1>1. Timeline \in Seq([length : Nat \ {0}, people : Nat]) /\ Timeline /= <<>>
    BY MockAssumption DEF MockAssumption
  <1>2. Len(Timeline) \in Nat \ {0}
    BY <1>1
  <1> QED
    BY <1>1, <1>2, MockAssumption DEF MockAssumption

LEMMA SegmentPeople ==
  /\ \A i \in 1..Len(Timeline) : Timeline[i].people \in Nat /\ Timeline[i].people \in Peaks
  /\ Peaks \subseteq Nat /\ 0 \in Peaks
  <1>1. ASSUME NEW i \in 1..Len(Timeline) PROVE Timeline[i].people \in Nat
    <2> DEFINE S == [length : Nat \ {0}, people : Nat]
    <2>1. Timeline[i] \in S
      <3>1. Timeline \in Seq(S)
        BY ConstantTypes
      <3> HIDE DEF S
      <3> QED
        BY <3>1
    <2> QED
      BY <2>1
  <1>2. DOMAIN Timeline = 1..Len(Timeline)
    BY ConstantTypes
  <1> QED
    BY <1>1, <1>2 DEF Peaks

LEMMA DayInDays ==
  ASSUME NEW t \in 0..MaxTime
  PROVE  Day(t) \in Days
  <1>1. t \in Nat /\ MaxTime \in Nat /\ t <= MaxTime /\ DayLength \in Nat \ {0}
    BY ConstantTypes
  <1>2. t \div DayLength \in Nat /\ MaxTime \div DayLength \in Nat
    BY <1>1
  <1>3. t \div DayLength <= MaxTime \div DayLength
    BY <1>1
  <1> QED
    BY <1>2, <1>3 DEF Day, Days

-----------------------------------------------------------------------------
(* Lemmas about the pure functions. *)

LEMMA NewCountingOK ==
  ASSUME NEW t \in 0..MaxTime
  PROVE  LET c == NewCounting(t)
         IN  /\ c \in CountingType /\ Fits(c) /\ Peaked(c)
             /\ \A u \in 0..MaxTime : Stay(c, u)
  <1>1. NewCounting(t) \in CountingType
    BY ConstantTypes, SegmentPeople, DayInDays DEF CountingType, NewCounting, Never
  <1>2. Fits(NewCounting(t)) /\ Peaked(NewCounting(t))
    BY DEF NewCounting, Fits, Peaked
  <1>3. \A u \in 0..MaxTime : Stay(NewCounting(t), u)
    BY ConstantTypes DEF NewCounting, Stay
  <1> QED
    BY <1>1, <1>2, <1>3

LEMMA ResetDailyOK ==
  ASSUME NEW c \in CountingType, NEW t \in 0..MaxTime
  PROVE  LET r == ResetDaily(c, t)
         IN  /\ r \in CountingType
             /\ r.occupied = c.occupied /\ r.since = c.since /\ r.people = c.people
             /\ r.total \in {c.total, 0}
             /\ \/ r = c
                \/ r.day /= c.day /\ r.total = 0
  <1> DEFINE r == ResetDaily(c, t)
  <1>1. CASE c.day = Day(t)
    <2>1. r = c
      BY <1>1 DEF ResetDaily
    <2> HIDE DEF r
    <2>2. /\ r \in CountingType /\ r.occupied = c.occupied /\ r.since = c.since
          /\ r.people = c.people /\ r.total \in {c.total, 0}
      BY <2>1
    <2> QED
      BY <2>1, <2>2 DEF r
  <1>2. CASE c.day /= Day(t)
    <2> DEFINE d == Day(t)
    <2>1. r = [c EXCEPT !.day = d, !.total = 0, !.max = 0]
      BY <1>2 DEF ResetDaily
    <2>2. d \in Days /\ c.day /= d
      BY <1>2, DayInDays
    <2>3. 0 \in 0..MaxTime /\ 0 \in Peaks
      BY ConstantTypes, SegmentPeople
    <2> HIDE DEF d, r
    <2>4. r \in CountingType
      BY <2>1, <2>2, <2>3 DEF CountingType
    <2>5. /\ r.occupied = c.occupied /\ r.since = c.since /\ r.people = c.people
          /\ r.total = 0 /\ r.day = d
      BY <2>1 DEF CountingType
    <2> QED
      BY <2>2, <2>4, <2>5 DEF r
  <1> QED
    BY <1>1, <1>2

(* A beat with n people: what becomes of the state. *)
LEMMA SetPeopleFields ==
  ASSUME NEW c \in CountingType, NEW n \in Peaks, NEW t \in 0..MaxTime, Stay(c, t)
  PROVE  LET p == SetPeople(c, n, t)
         IN  /\ p \in CountingType /\ p.people = n /\ p.day = c.day
             /\ p.occupied <=> n > 0
             /\ p.max = IF n > c.max THEN n ELSE c.max
             /\ p.occupied /\ ~c.occupied => p.since = t /\ p.total = c.total
             /\ ~p.occupied /\ c.occupied =>
                  p.since = Never /\ p.total = c.total + (t - c.since)
             /\ p.occupied = c.occupied => p.since = c.since /\ p.total = c.total
  <1> DEFINE occ == n > 0
             top == IF n > c.max THEN n ELSE c.max
             m == [c EXCEPT !.people = n, !.occupied = occ, !.max = top]
             p == SetPeople(c, n, t)
  <1>1. occ \in BOOLEAN
    OBVIOUS
  <1>2. top \in Peaks
    BY DEF CountingType
  <1>3. p = CASE m.occupied /\ ~c.occupied -> [m EXCEPT !.since = t]
              [] ~m.occupied /\ c.occupied ->
                   [m EXCEPT !.total = @ + (t - c.since), !.since = Never]
              [] OTHER -> m
    BY DEF SetPeople
  <1> HIDE DEF occ, top
  <1>4. /\ m \in CountingType /\ m.people = n /\ m.occupied = occ /\ m.max = top
        /\ m.day = c.day /\ m.since = c.since /\ m.total = c.total
    BY <1>1, <1>2 DEF CountingType
  <1> HIDE DEF m, p
  <1>5. CASE occ /\ ~c.occupied
    <2>1. p = [m EXCEPT !.since = t]
      BY <1>3, <1>4, <1>5
    <2>2. t \in Never..MaxTime
      BY ConstantTypes DEF Never
    <2>3. /\ p \in CountingType /\ p.people = n /\ p.occupied = occ /\ p.max = top
          /\ p.day = c.day /\ p.since = t /\ p.total = c.total
      BY <1>4, <2>1, <2>2 DEF CountingType
    <2> QED
      BY <1>1, <1>5, <2>3 DEF p, occ, top
  <1>6. CASE ~occ /\ c.occupied
    <2> DEFINE x == m.total + (t - c.since)
    <2>1. p = [m EXCEPT !.total = x, !.since = Never]
      BY <1>3, <1>4, <1>6
    <2>2. x \in 0..MaxTime /\ Never \in Never..MaxTime
      <3>1. c.since \in Int /\ c.total \in 0..MaxTime
        BY ConstantTypes DEF CountingType, Never
      <3>2. c.since <= t /\ c.total <= c.since
        BY <1>6 DEF Stay
      <3> QED
        BY <1>4, <3>1, <3>2, ConstantTypes DEF Never
    <2> HIDE DEF x
    <2>3. /\ p \in CountingType /\ p.people = n /\ p.occupied = occ /\ p.max = top
          /\ p.day = c.day /\ p.since = Never /\ p.total = x
      BY <1>4, <2>1, <2>2 DEF CountingType
    <2>4. x = c.total + (t - c.since)
      BY <1>4 DEF x
    <2> QED
      BY <1>1, <1>6, <2>3, <2>4 DEF p, occ, top
  <1>7. CASE occ = c.occupied
    <2>1. p = m
      BY <1>3, <1>4, <1>7
    <2>2. /\ p \in CountingType /\ p.people = n /\ p.occupied = occ /\ p.max = top
          /\ p.day = c.day /\ p.since = c.since /\ p.total = c.total
      BY <1>4, <2>1
    <2> QED
      BY <1>7, <2>2 DEF p, occ, top
  <1>8. c.occupied \in BOOLEAN
    BY DEF CountingType
  <1> QED
    BY <1>1, <1>5, <1>6, <1>7, <1>8

LEMMA SetPeopleStay ==
  ASSUME NEW c \in CountingType, NEW n \in Peaks, NEW t \in 0..MaxTime, Stay(c, t)
  PROVE  LET p == SetPeople(c, n, t) IN Stay(p, t) /\ Fits(p) /\ Peaked(p)
  <1> DEFINE p == SetPeople(c, n, t)
  <1>1. /\ p \in CountingType /\ p.people = n
        /\ p.occupied <=> n > 0
        /\ p.max = IF n > c.max THEN n ELSE c.max
        /\ p.occupied /\ ~c.occupied => p.since = t /\ p.total = c.total
        /\ ~p.occupied /\ c.occupied =>
             p.since = Never /\ p.total = c.total + (t - c.since)
        /\ p.occupied = c.occupied => p.since = c.since /\ p.total = c.total
    BY SetPeopleFields
  <1>2. /\ c.since \in Int /\ c.total \in Nat /\ c.occupied \in BOOLEAN /\ t \in Nat
        /\ c.max \in Nat /\ n \in Nat
    <2>1. /\ c.since \in Never..MaxTime /\ c.total \in 0..MaxTime
          /\ c.occupied \in BOOLEAN /\ c.max \in Peaks
      BY DEF CountingType
    <2>2. c.since \in Int /\ c.total \in Nat /\ t \in Nat
      BY <2>1, ConstantTypes DEF Never
    <2>3. c.max \in Nat /\ n \in Nat
      BY <2>1, SegmentPeople
    <2> QED
      BY <2>1, <2>2, <2>3
  <1> HIDE DEF p
  <1>3. p.occupied \in BOOLEAN
    BY <1>1 DEF CountingType
  <1>4. Stay(p, t)
    BY <1>1, <1>2, <1>3 DEF Stay
  <1>5. Fits(p) /\ Peaked(p)
    BY <1>1, <1>2 DEF Fits, Peaked
  <1> QED
    BY <1>4, <1>5 DEF p

-----------------------------------------------------------------------------
(* What a step does to the state of the counter and to its events. *)
Unmoved == /\ UNCHANGED <<counting, emitted>>
           /\ time' = time \/ (time < MaxTime /\ time' = time + 1)
Renewed == /\ counting' \in {NewCounting(time), NewCounting(0)}
           /\ emitted' = <<>> /\ UNCHANGED time
           /\ wpc' /= "beat"
DayReset == counting' = ResetDaily(counting, time) /\ UNCHANGED <<time, emitted>>
Played == Timeline[segment].people
Beaten == /\ wpc = "beat"
          /\ counting' = SetPeople(counting, Played, time)
          /\ emitted' = emitted \o Published(counting, Played, time)
          /\ UNCHANGED time

LEMMA KindsOfSteps ==
  ASSUME [Next]_vars
  PROVE  \/ Unmoved /\ (wpc = "beat" <=> wpc' = "beat")
         \/ Renewed
         \/ DayReset /\ wpc' = "beat"
         \/ Beaten
  <1>1. CASE Tick
    BY <1>1 DEF Tick, Unmoved
  <1>2. CASE Boot \/ ProcessEnds
    BY <1>2 DEF Boot, ProcessEnds, Renewed
  <1>3. CASE StopFlag \/ Join \/ StopRefresh
    BY <1>3 DEF StopFlag, Join, StopRefresh, Unmoved
  <1>4. CASE \E r \in Rois : UpdateRoi(r)
    BY <1>4 DEF UpdateRoi, Unmoved
  <1>5. CASE WorkerBegin \/ OuterLoop \/ NextSegment \/ PlaySegment \/ WakeUp
    BY <1>5 DEF WorkerBegin, OuterLoop, NextSegment, PlaySegment, WakeUp, Unmoved
  <1>6. CASE BeatReset
    BY <1>6 DEF BeatReset, DayReset
  <1>7. CASE Beat
    BY <1>7 DEF Beat, Beaten, Played
  <1>8. CASE UNCHANGED vars
    BY <1>8 DEF vars, Unmoved
  <1> QED
    BY <1>1, <1>2, <1>3, <1>4, <1>5, <1>6, <1>7, <1>8 DEF Next, Worker, Stopping

LEMMA PlayedOK ==
  ASSUME ControlOK, wpc = "beat"
  PROVE  Played \in Peaks /\ Played \in Nat
  <1>1. segment \in 1..Len(Timeline)
    BY ConstantTypes DEF ControlOK
  <1> QED
    BY <1>1, SegmentPeople DEF Played

-----------------------------------------------------------------------------
(* The invariant. *)

Counted == /\ counting \in CountingType /\ EmittedOK
           /\ Stay(counting, time) /\ Fits(counting)
           /\ wpc /= "beat" => Peaked(counting)

Consistent(s) == s.known => (s.occupied <=> s.people > 0) /\ s.people <= s.max

Threads == /\ wpc = "exited" => ~running
           /\ main = "down" => wpc = "none"
           /\ main \in {"joined", "stopped"} => wpc = "exited"
           /\ main = "stopped" => snapshot = Build(counting, roi, FALSE)

IInv == /\ ControlOK /\ running \in BOOLEAN /\ StatusesOK /\ StatsOK
        /\ Counted /\ Threads /\ StatusConsistent

LEMMA PublishedOK ==
  ASSUME NEW c \in CountingType, NEW n \in Nat, NEW t \in 0..MaxTime
  PROVE  /\ Published(c, n, t) \in Seq(Events)
         /\ (c.occupied <=> n > 0) => Published(c, n, t) = <<>>
         /\ ~c.occupied /\ n > 0 =>
              Published(c, n, t) = <<[kind |-> "enter_region", at |-> t, day |-> c.day]>>
         /\ c.occupied /\ ~(n > 0) =>
              Published(c, n, t) = <<[kind |-> "leave_region", at |-> t, day |-> c.day]>>
  <1>1. c.occupied \in BOOLEAN /\ c.day \in Days
    BY DEF CountingType
  <1>2. [kind |-> "enter_region", at |-> t, day |-> c.day] \in Events
    BY <1>1 DEF Events, Kinds
  <1>3. [kind |-> "leave_region", at |-> t, day |-> c.day] \in Events
    BY <1>1 DEF Events, Kinds
  <1>4. CASE c.occupied <=> n > 0
    <2>1. Published(c, n, t) = <<>>
      BY <1>1, <1>4 DEF Published
    <2> QED
      BY <1>4, <2>1
  <1>5. CASE ~c.occupied /\ n > 0
    <2>1. Published(c, n, t) = <<[kind |-> "enter_region", at |-> t, day |-> c.day]>>
      BY <1>1, <1>5 DEF Published
    <2> QED
      BY <1>2, <1>5, <2>1
  <1>6. CASE c.occupied /\ ~(n > 0)
    <2>1. Published(c, n, t) = <<[kind |-> "leave_region", at |-> t, day |-> c.day]>>
      BY <1>1, <1>6 DEF Published
    <2> QED
      BY <1>3, <1>6, <2>1
  <1> QED
    BY <1>1, <1>4, <1>5, <1>6

LEMMA StayLater ==
  ASSUME NEW c \in CountingType, NEW t \in 0..MaxTime, NEW u \in 0..MaxTime,
         t <= u, Stay(c, t)
  PROVE  Stay(c, u)
  <1>1. c.total \in 0..MaxTime /\ c.since \in Never..MaxTime
    BY DEF CountingType
  <1> QED
    BY <1>1, ConstantTypes DEF Stay, Never

LEMMA CountedStep ==
  ASSUME ControlOK, Counted, [Next]_vars
  PROVE  Counted'
  <1>1. time \in 0..MaxTime /\ time \in Nat /\ MaxTime \in Nat
    BY ConstantTypes DEF ControlOK
  <1>2. CASE Unmoved /\ (wpc = "beat" <=> wpc' = "beat")
    <2>1. time' \in 0..MaxTime /\ time <= time'
      BY <1>1, <1>2 DEF Unmoved
    <2>2. Stay(counting, time')
      BY <1>1, <2>1, StayLater DEF Counted
    <2> QED
      BY <1>2, <2>2 DEF Unmoved, Counted, EmittedOK
  <1>3. CASE Renewed
    <2>1. /\ counting' \in CountingType /\ Fits(counting') /\ Peaked(counting')
          /\ Stay(counting', time)
      BY <1>1, <1>3, NewCountingOK DEF Renewed
    <2> QED
      BY <1>3, <2>1 DEF Renewed, Counted, EmittedOK
  <1>4. CASE DayReset /\ wpc' = "beat"
    <2> DEFINE c == ResetDaily(counting, time)
    <2>1. /\ c \in CountingType /\ c.occupied = counting.occupied
          /\ c.since = counting.since /\ c.people = counting.people
          /\ c.total \in {counting.total, 0}
      BY <1>1, ResetDailyOK DEF Counted
    <2> HIDE DEF c
    <2>2. Stay(c, time) /\ Fits(c)
      BY <1>1, <2>1 DEF Stay, Fits, Counted
    <2>3. counting' = c /\ UNCHANGED <<time, emitted>>
      BY <1>4 DEF DayReset, c
    <2> QED
      BY <1>4, <2>1, <2>2, <2>3 DEF Counted, EmittedOK
  <1>5. CASE Beaten
    <2> DEFINE c == SetPeople(counting, Played, time)
               e == Published(counting, Played, time)
    <2>1. Played \in Peaks /\ Played \in Nat
      BY <1>5, PlayedOK DEF Beaten
    <2>2. c \in CountingType /\ Stay(c, time) /\ Fits(c) /\ Peaked(c)
      BY <1>1, <2>1, SetPeopleFields, SetPeopleStay DEF Counted
    <2>3. e \in Seq(Events)
      BY <1>1, <2>1, PublishedOK DEF Counted
    <2>4. counting' = c /\ emitted' = emitted \o e /\ UNCHANGED time
      BY <1>5 DEF Beaten
    <2> HIDE DEF c, e
    <2> QED
      BY <2>2, <2>3, <2>4 DEF Counted, EmittedOK
  <1> QED
    BY <1>2, <1>3, <1>4, <1>5, KindsOfSteps

LEMMA ControlStep ==
  ASSUME ControlOK, [Next]_vars
  PROVE  ControlOK'
  <1> USE ConstantTypes DEF ControlOK, MainPCs, WorkerPCs, play
  <1>1. CASE Tick
    BY <1>1 DEF Tick
  <1>2. CASE Boot \/ ProcessEnds
    <2>1. /\ UNCHANGED time /\ main' \in {"serving", "down"} /\ wpc' \in {"begin", "none"}
          /\ roi' = RoiInit /\ segment' = 1 /\ began' = 0 /\ wake' = 0
      BY <1>2 DEF Boot, ProcessEnds
    <2> QED
      BY <2>1
  <1>3. CASE StopFlag \/ Join
    BY <1>3 DEF StopFlag, Join
  <1>4. CASE StopRefresh
    <2>1. /\ UNCHANGED <<time, wpc, roi, segment, began, wake>>
          /\ main' \in {"stopped", "leftover"}
      BY <1>4 DEF StopRefresh
    <2> QED
      BY <2>1
  <1>5. ASSUME NEW r \in Rois, UpdateRoi(r) PROVE ControlOK'
    <2>1. UNCHANGED <<time, main, wpc, segment, began, wake>> /\ roi' = r
      BY <1>5 DEF UpdateRoi
    <2> QED
      BY <2>1
  <1>6. CASE WorkerBegin \/ OuterLoop
    BY <1>6 DEF WorkerBegin, OuterLoop
  <1>7. CASE NextSegment
    BY <1>7 DEF NextSegment
  <1>8. CASE PlaySegment
    BY <1>8 DEF PlaySegment
  <1>9. CASE BeatReset
    BY <1>9 DEF BeatReset
  <1>10. CASE Beat
    <2>1. /\ UNCHANGED <<time, main, roi, segment, began>> /\ wake' = time + Interval
          /\ wpc = "beat" /\ wpc' = "sleep"
      BY <1>10 DEF Beat
    <2> QED
      BY <2>1
  <1>11. CASE WakeUp
    BY <1>11 DEF WakeUp
  <1>12. CASE UNCHANGED vars
    BY <1>12 DEF vars
  <1> QED
    BY <1>1, <1>2, <1>3, <1>4, <1>5, <1>6, <1>7, <1>8, <1>9, <1>10, <1>11, <1>12
       DEF Next, Worker, Stopping

(* Steps that leave the statuses alone, and those that refresh them: nobody does in
   the middle of a beat. *)
LEMMA RefreshOK ==
  ASSUME NEW c \in CountingType, Fits(c), Peaked(c), NEW r \in Rois,
         NEW run \in BOOLEAN, Refresh(Build(c, r, run)), StatusesOK, StatusConsistent
  PROVE  StatusesOK' /\ StatusConsistent'
  <1> DEFINE s == Build(c, r, run)
  <1>1. s \in StatusType
    BY DEF CountingType, StatusType, Build
  <1>2. Consistent(s)
    BY DEF Consistent, Build, Fits, Peaked
  <1>3. snapshot' = s /\ cached' \in {s, cached}
    BY DEF Refresh
  <1> HIDE DEF s
  <1>4. Consistent(cached) /\ cached \in StatusType \cup {NoStatus}
    BY DEF StatusConsistent, StatusesOK, Consistent
  <1>5. Consistent(cached') /\ Consistent(snapshot')
    BY <1>2, <1>3, <1>4
  <1>6. StatusConsistent'
    BY <1>5 DEF StatusConsistent, Consistent
  <1> QED
    BY <1>1, <1>3, <1>4, <1>6 DEF StatusesOK

LEMMA StatusesStep ==
  ASSUME ControlOK, running \in BOOLEAN, Counted, StatusesOK, StatusConsistent,
         [Next]_vars
  PROVE  StatusesOK' /\ StatusConsistent'
  <1>a. /\ counting \in CountingType /\ Fits(counting)
        /\ wpc /= "beat" => Peaked(counting)
    BY DEF Counted
  <1>b. roi \in Rois /\ RoiInit \in Rois /\ time \in 0..MaxTime /\ FALSE \in BOOLEAN
    BY ConstantTypes DEF ControlOK
  <1>1. CASE Boot
    <2>1. Refresh(Build(NewCounting(time), RoiInit, FALSE))
      BY <1>1 DEF Boot
    <2>2. /\ NewCounting(time) \in CountingType
          /\ Fits(NewCounting(time)) /\ Peaked(NewCounting(time))
      BY <1>b, NewCountingOK
    <2> QED
      BY <1>b, <2>1, <2>2, RefreshOK
  <1>2. CASE ProcessEnds
    BY <1>2 DEF ProcessEnds, StatusesOK, StatusConsistent, NoStatus
  <1>3. CASE StopRefresh
    <2>1. Refresh(Build(counting, roi, running)) /\ wpc /= "beat"
      BY <1>3 DEF StopRefresh, LockFree
    <2> QED
      BY <1>a, <1>b, <2>1, RefreshOK
  <1>4. ASSUME NEW r \in Rois, UpdateRoi(r) PROVE StatusesOK' /\ StatusConsistent'
    <2>1. Refresh(Build(counting, r, running)) /\ wpc /= "beat"
      BY <1>4 DEF UpdateRoi, LockFree
    <2> QED
      BY <1>a, <1>b, <2>1, RefreshOK
  <1>5. CASE Beat
    <2>1. Refresh(Build(counting', roi, running)) /\ wpc' = "sleep"
      BY <1>5 DEF Beat
    <2>2. counting' \in CountingType /\ Fits(counting') /\ Peaked(counting')
      BY <2>1, CountedStep DEF Counted
    <2> QED
      BY <1>b, <2>1, <2>2, RefreshOK
  <1>6. CASE UNCHANGED status
    BY <1>6 DEF status, StatusesOK, StatusConsistent
  <1>7. CASE Tick \/ StopFlag \/ Join
    BY <1>6, <1>7 DEF Tick, StopFlag, Join
  <1>8. CASE WorkerBegin \/ OuterLoop \/ NextSegment
    BY <1>6, <1>8 DEF WorkerBegin, OuterLoop, NextSegment
  <1>9. CASE PlaySegment \/ BeatReset \/ WakeUp
    BY <1>6, <1>9 DEF PlaySegment, BeatReset, WakeUp
  <1>10. CASE UNCHANGED vars
    BY <1>6, <1>10 DEF vars
  <1> QED
    BY <1>1, <1>2, <1>3, <1>4, <1>5, <1>7, <1>8, <1>9, <1>10
       DEF Next, Worker, Stopping

LEMMA StatsStep ==
  ASSUME ControlOK, Counted, StatsOK, [Next]_vars
  PROVE  StatsOK'
  <1>1. CASE Beat
    <2> DEFINE row == [max |-> counting'.max, total |-> counting'.total]
    <2>1. time \in Never..MaxTime /\ Day(time) \in Days
      BY ConstantTypes, DayInDays DEF ControlOK, Never
    <2>2. row \in [max : Peaks \cup {Never}, total : Never..MaxTime]
      <3>1. counting' \in CountingType
        BY CountedStep DEF Counted
      <3>2. /\ counting'.max \in Peaks \cup {Never}
            /\ counting'.total \in Never..MaxTime
        BY <3>1, ConstantTypes DEF CountingType, Never
      <3> QED
        BY <3>2
    <2>3. \/ UNCHANGED stats
          \/ rows' = [rows EXCEPT ![Day(time)] = row] /\ lastSync' = time
      BY <1>1 DEF Beat, SyncDailyStat, Upsert, Row
    <2> HIDE DEF row
    <2> QED
      BY <2>1, <2>2, <2>3 DEF StatsOK, stats
  <1>2. CASE Boot \/ ProcessEnds
    <2>1. UNCHANGED rows /\ lastSync' = Never
      BY <1>2 DEF Boot, ProcessEnds
    <2>2. Never \in Never..MaxTime
      BY ConstantTypes DEF Never
    <2> QED
      BY <2>1, <2>2 DEF StatsOK
  <1>3. CASE UNCHANGED stats
    BY <1>3 DEF stats, StatsOK
  <1>4. CASE Tick \/ StopFlag \/ Join \/ StopRefresh
    BY <1>3, <1>4 DEF Tick, StopFlag, Join, StopRefresh, stats
  <1>5. CASE \E r \in Rois : UpdateRoi(r)
    BY <1>3, <1>5 DEF UpdateRoi, stats
  <1>6. CASE WorkerBegin \/ OuterLoop \/ NextSegment
    BY <1>3, <1>6 DEF WorkerBegin, OuterLoop, NextSegment, stats
  <1>7. CASE PlaySegment \/ BeatReset \/ WakeUp
    BY <1>3, <1>7 DEF PlaySegment, BeatReset, WakeUp, stats
  <1>8. CASE UNCHANGED vars
    BY <1>3, <1>8 DEF vars, stats
  <1> QED
    BY <1>1, <1>2, <1>4, <1>5, <1>6, <1>7, <1>8 DEF Next, Worker, Stopping

LEMMA ThreadsStep ==
  ASSUME ControlOK, running \in BOOLEAN, Threads, [Next]_vars
  PROVE  Threads' /\ running' \in BOOLEAN
  <1>1. CASE Boot \/ ProcessEnds
    <2>1. /\ \/ wpc' = "begin" /\ main' = "serving"
             \/ wpc' = "none" /\ main' = "down"
          /\ running' = FALSE
      BY <1>1 DEF Boot, ProcessEnds
    <2> QED
      BY <2>1 DEF Threads
  <1>2. CASE StopFlag
    BY <1>2 DEF StopFlag, Threads
  <1>3. CASE Join
    BY <1>3 DEF Join, Threads
  <1>4. CASE StopRefresh
    <2>1. snapshot' = Build(counting, roi, running)
      BY <1>4 DEF StopRefresh, Refresh
    <2>2. /\ UNCHANGED <<wpc, running, counting, roi>> /\ main \in {"joined", "timedout"}
          /\ main' = IF main = "joined" THEN "stopped" ELSE "leftover"
      BY <1>4 DEF StopRefresh
    <2>3. main = "joined" => wpc = "exited" /\ running = FALSE
      BY DEF Threads
    <2> QED
      BY <2>1, <2>2, <2>3 DEF Threads
  <1>5. CASE \E r \in Rois : UpdateRoi(r)
    <2>1. main = "serving" /\ UNCHANGED <<main, wpc, running>>
      BY <1>5 DEF UpdateRoi
    <2> QED
      BY <2>1 DEF Threads
  <1>6. CASE Tick
    BY <1>6 DEF Tick, Threads, status
  <1>7. CASE Worker
    <2>1. UNCHANGED main /\ wpc \notin {"exited", "none"}
      BY <1>7 DEF Worker, WorkerBegin, OuterLoop, NextSegment, PlaySegment, BeatReset,
         Beat, WakeUp
    <2>2. (wpc' = "exited" => ~running') /\ running' \in BOOLEAN
      <3>1. CASE WorkerBegin
        BY <3>1 DEF WorkerBegin
      <3>2. CASE ~WorkerBegin
        <4>1. UNCHANGED running /\ (wpc' = "exited" => ~running)
          BY <1>7, <3>2 DEF Worker, OuterLoop, NextSegment, PlaySegment, BeatReset,
             Beat, WakeUp
        <4> QED
          BY <4>1
      <3> QED
        BY <3>1, <3>2
    <2> QED
      BY <2>1, <2>2 DEF Threads
  <1>8. CASE UNCHANGED vars
    BY <1>8 DEF vars, Threads, status
  <1> QED
    BY <1>1, <1>2, <1>3, <1>4, <1>5, <1>6, <1>7, <1>8 DEF Next, Stopping

-----------------------------------------------------------------------------
LEMMA InitIInv == Init => IInv
  <1> SUFFICES ASSUME Init PROVE IInv
    OBVIOUS
  <1>1. 0 \in 0..MaxTime /\ Never \in Never..MaxTime /\ Never \in Peaks \cup {Never}
        /\ 0 \in 0..(MaxTime + Interval) /\ 1 \in 1..(Len(Timeline) + 1)
    BY ConstantTypes DEF Never
  <1>2. ControlOK
    BY <1>1, ConstantTypes DEF Init, ControlOK, MainPCs, WorkerPCs
  <1>3. StatusesOK /\ StatusConsistent
    BY DEF Init, StatusesOK, StatusConsistent, NoStatus
  <1>4. StatsOK
    BY <1>1 DEF Init, StatsOK, NoRow
  <1>5. Counted
    <2>1. /\ counting \in CountingType /\ Fits(counting) /\ Peaked(counting)
          /\ Stay(counting, 0)
      BY <1>1, NewCountingOK DEF Init
    <2> QED
      BY <2>1 DEF Init, Counted, EmittedOK
  <1>6. Threads /\ running \in BOOLEAN
    BY DEF Init, Threads
  <1> QED
    BY <1>2, <1>3, <1>4, <1>5, <1>6 DEF IInv

LEMMA StepIInv == IInv /\ [Next]_vars => IInv'
  BY ControlStep, StatusesStep, StatsStep, CountedStep, ThreadsStep DEF IInv

-----------------------------------------------------------------------------
(* Every reachable state is well typed. *)
THEOREM TypeCorrect == Spec => []TypeOK
  <1>1. IInv => TypeOK
    BY TypeParts DEF IInv, Counted
  <1> QED
    BY <1>1, InitIInv, StepIInv, PTL DEF Spec

(* A status with nobody in the region is idle, and never shows more people than the
   maximum of its day: the beat resets and refreshes under one lock. *)
THEOREM StatusConsistentAlways == Spec => []StatusConsistent
  <1>1. IInv => StatusConsistent
    BY DEF IInv
  <1> QED
    BY <1>1, InitIInv, StepIInv, PTL DEF Spec

(* After a stop whose join returned because the thread was gone, the last snapshot
   is the final state of the counter. *)
THEOREM CleanStopAlways == Spec => []CleanStop
  <1>1. IInv => CleanStop
    BY DEF IInv, Threads, CleanStop
  <1> QED
    BY <1>1, InitIInv, StepIInv, PTL DEF Spec

-----------------------------------------------------------------------------
(* The end of the thread. *)

LEMMA StepsFrom ==
  /\ StepsToExit("lock") = 6 /\ StepsToExit("beat") = 5 /\ StepsToExit("sleep") = 4
  /\ StepsToExit("while") = 3 /\ StepsToExit("next") = 2 /\ StepsToExit("loop") = 1
  /\ StepsToExit("exited") = 0
  BY DEF StepsToExit

LEMMA StopAdvancesStep ==
  ASSUME Threads, [Next]_vars, ~running, wpc \notin {"begin", "none"}
  PROVE  ~running' /\ (wpc' \in {wpc, "none"} \/ StepsToExit(wpc') < StepsToExit(wpc))
  <1>1. CASE Worker
    <2>1. ~running'
      BY <1>1, Zenon DEF Worker, WorkerBegin, OuterLoop, NextSegment, PlaySegment,
         BeatReset, Beat, WakeUp
    <2>2. \/ wpc = "lock" /\ wpc' = "beat"
          \/ wpc = "beat" /\ wpc' = "sleep"
          \/ wpc = "sleep" /\ wpc' = "while"
          \/ wpc = "while" /\ wpc' = "next"
          \/ wpc = "next" /\ wpc' = "loop"
          \/ wpc = "loop" /\ wpc' = "exited"
      BY <1>1 DEF Worker, WorkerBegin, OuterLoop, NextSegment, PlaySegment, BeatReset,
         Beat, WakeUp
    <2>3. StepsToExit(wpc') < StepsToExit(wpc)
      BY <2>2, StepsFrom
    <2> QED
      BY <2>1, <2>3
  <1>2. CASE Tick
    BY <1>2, Zenon DEF Tick
  <1>3. CASE Boot
    BY <1>3 DEF Boot, Threads
  <1>4. CASE StopFlag
    BY <1>4, Zenon DEF StopFlag
  <1>5. CASE Join
    BY <1>5, Zenon DEF Join
  <1>6. CASE StopRefresh
    BY <1>6, Zenon DEF StopRefresh
  <1>7. CASE ProcessEnds
    BY <1>7, Zenon DEF ProcessEnds
  <1>8. CASE \E r \in Rois : UpdateRoi(r)
    <2>1. running' = running /\ wpc' = wpc
      BY <1>8 DEF UpdateRoi
    <2> QED
      BY <2>1, Zenon
  <1>9. CASE UNCHANGED vars
    BY <1>9, Zenon DEF vars
  <1> QED
    BY <1>1, <1>2, <1>3, <1>4, <1>5, <1>6, <1>7, <1>8, <1>9 DEF Next, Stopping

(* A mock that is told to stop breaks out of the timeline: one beat more at most, and
   the flag stays as stop has left it. *)
THEOREM StopAdvancesAlways == Spec => StopAdvances
  <1>1. IInv /\ [Next]_vars =>
          [~running /\ wpc \notin {"begin", "none"} =>
             ~running' /\ (wpc' \in {wpc, "none"} \/ StepsToExit(wpc') < StepsToExit(wpc))]_vars
    BY StopAdvancesStep DEF IInv
  <1> QED
    BY <1>1, InitIInv, StepIInv, PTL DEF Spec, StopAdvances

-----------------------------------------------------------------------------
(* Every step of the mock is a step of Occupancy, or none. *)
LEMMA OccupancyStep == IInv /\ [Next]_vars => [Occ!OccupancyNext]_Occ!occupancyVars
  <1> SUFFICES ASSUME IInv, [Next]_vars
               PROVE  Occ!OccupancyNext \/ UNCHANGED Occ!occupancyVars
    BY DEF Occ!occupancyVars
  <1>1. /\ time \in 0..MaxTime /\ counting \in CountingType /\ Stay(counting, time)
        /\ emitted \in Seq(Events)
    BY DEF IInv, ControlOK, Counted, EmittedOK
  <1>2. CASE Unmoved
    BY <1>2 DEF Unmoved, Occ!OccupancyNext, Occ!Pass, Occ!occupancyVars
  <1>3. CASE Renewed
    <2>1. /\ counting'.occupied = FALSE /\ counting'.since = -1 /\ counting'.total = 0
          /\ emitted' = <<>> /\ UNCHANGED time
      BY <1>3 DEF Renewed, NewCounting, Never
    <2> QED
      BY <2>1 DEF Occ!OccupancyNext, Occ!Restart, Occ!Nobody
  <1>4. CASE DayReset
    <2> DEFINE c == ResetDaily(counting, time)
    <2>1. /\ c.occupied = counting.occupied /\ c.since = counting.since
          /\ \/ c = counting
             \/ c.day /= counting.day /\ c.total = 0
      BY <1>1, ResetDailyOK
    <2>2. counting' = c /\ UNCHANGED <<time, emitted>>
      BY <1>4 DEF DayReset
    <2> HIDE DEF c
    <2> QED
      BY <2>1, <2>2 DEF Occ!OccupancyNext, Occ!NewDay, Occ!occupancyVars
  <1>5. CASE Beaten
    <2> DEFINE n == Played
               p == SetPeople(counting, n, time)
    <2>1. n \in Peaks /\ n \in Nat
      BY <1>5, PlayedOK DEF Beaten, IInv
    <2> HIDE DEF n
    <2>2. /\ p \in CountingType /\ p.day = counting.day
          /\ p.occupied <=> n > 0
          /\ p.occupied /\ ~counting.occupied => p.since = time /\ p.total = counting.total
          /\ ~p.occupied /\ counting.occupied =>
               /\ p.since = Never
               /\ p.total = counting.total + (time - counting.since)
          /\ p.occupied = counting.occupied =>
               p.since = counting.since /\ p.total = counting.total
      BY <1>1, <2>1, SetPeopleFields
    <2>3. counting' = p /\ emitted' = emitted \o Published(counting, n, time)
          /\ UNCHANGED time
      BY <1>5 DEF Beaten, n
    <2> HIDE DEF p
    <2>4. p.occupied \in BOOLEAN /\ counting.occupied \in BOOLEAN
      BY <1>1, <2>2 DEF CountingType
    <2>5. CASE ~counting.occupied /\ n > 0
      <3> DEFINE e == [kind |-> "enter_region", at |-> time, day |-> counting.day]
      <3>0. Published(counting, n, time) = <<e>>
        BY <1>1, <2>1, <2>5, PublishedOK
      <3>1. emitted' = Append(emitted, e)
        <4> HIDE DEF e
        <4> QED
          BY <1>1, <2>3, <3>0
      <3> QED
        BY <2>2, <2>3, <2>4, <2>5, <3>1 DEF Occ!OccupancyNext, Occ!Enter, Occ!Publish
    <2>6. CASE counting.occupied /\ ~(n > 0)
      <3> DEFINE e == [kind |-> "leave_region", at |-> time, day |-> counting.day]
      <3>0. Published(counting, n, time) = <<e>>
        BY <1>1, <2>1, <2>6, PublishedOK
      <3>1. emitted' = Append(emitted, e)
        <4> HIDE DEF e
        <4> QED
          BY <1>1, <2>3, <3>0
      <3> QED
        BY <2>2, <2>3, <2>4, <2>6, <3>1
           DEF Occ!OccupancyNext, Occ!Leave, Occ!Publish, Occ!Nobody, Never
    <2>7. CASE counting.occupied <=> n > 0
      <3>1. UNCHANGED emitted
        BY <1>1, <2>1, <2>3, <2>7, PublishedOK
      <3>2. p.occupied = counting.occupied
        BY <2>2, <2>4, <2>7
      <3> QED
        BY <2>2, <2>3, <3>1, <3>2 DEF Occ!occupancyVars
    <2> QED
      BY <2>4, <2>5, <2>6, <2>7
  <1> QED
    BY <1>2, <1>3, <1>4, <1>5, KindsOfSteps

(* The mock keeps the promise the real counter keeps (BaseCounter). *)
THEOREM OccupancyImplemented == Spec => ImplementsOccupancy
  <1>1. Init => Occ!OccupancyInit
    <2>1. 0 \div DayLength = 0
      BY ConstantTypes
    <2> QED
      BY <2>1 DEF Init, NewCounting, Day, Never, Occ!OccupancyInit, Occ!Nobody
  <1> QED
    BY <1>1, InitIInv, StepIInv, OccupancyStep, PTL
       DEF Spec, ImplementsOccupancy, Occ!OccupancySpec
=============================================================================

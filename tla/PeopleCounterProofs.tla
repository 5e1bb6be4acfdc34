------------------------ MODULE PeopleCounterProofs -------------------------
(* For any settings, any number of people and any interleaving: the counter is
   well typed, implements Occupancy, lets no stay be shorter than the grace, shows
   its occupancy in every snapshot, and releases the camera when it stops.

   The invariant adds to what the properties say how the occupancy state and the
   events belong together (Stay), and what the threads hold for each other: the
   snapshot that the reconnect path has built, and a thread that has ended. *)
EXTENDS PeopleCounter, TLAPS, WellFoundedInduction

Kinds == {"enter_region", "leave_region"}
Events == [kind : Kinds, at : 0..MaxTime, day : Days]

(* The state c of the counter and the events s at time t: the last event is the
   beginning of the stay, which was confirmed at lastSeen, and the day's total fits
   between its stays. *)
Stay(c, s, t) ==
  IF c.occupied
    THEN /\ s /= <<>> /\ s[Len(s)].kind = "enter_region" /\ s[Len(s)].at = c.since
         /\ 0 <= c.since /\ c.since <= c.lastSeen /\ c.lastSeen <= t
         /\ c.total <= c.since
    ELSE /\ s = <<>> \/ s[Len(s)].kind = "leave_region"
         /\ c.since = Never /\ c.total <= t

(* Enter and leave events take turns, beginning with enter. *)
Alternate(s) ==
  /\ s /= <<>> => s[1].kind = "enter_region"
  /\ \A i \in 2..Len(s) : s[i].kind /= s[i - 1].kind

Outlast(s) == \A i \in 2..Len(s) :
                 s[i].kind = "leave_region" => s[i].at - s[i - 1].at >= LeaveSeconds

EventsAlternate == Alternate(emitted)

(* The events s end with the list of c, and no other is of its day unless the list
   is full. *)
Listed(c, s) ==
  LET n == Len(c.events)
      older == Len(s) - n
  IN  /\ older >= 0
      /\ \A k \in 1..n : s[older + k].day = c.day /\ c.events[k] = s[older + k].kind
      /\ n < EventsKept => \A i \in 1..older : s[i].day /= c.day

(* Neither the events nor the counter are ahead of the clock. *)
Dated(c, s, t) == c.day <= Day(t) /\ \A i \in 1..Len(s) : s[i].day <= c.day

-----------------------------------------------------------------------------
(* TypeOK in parts. *)
ControlOK == /\ time \in 0..MaxTime /\ main \in MainPCs /\ wpc \in WorkerPCs
             /\ cap \in {"none", "open", "closed"} /\ roi \in Rois
             /\ seen \in 0..MaxPeople
FlagsOK == running \in BOOLEAN /\ camera_ok \in BOOLEAN /\ detector_ok \in BOOLEAN
CountingOK(c) == c \in CountingType /\ Len(c.events) <= EventsKept
StatusesOK == /\ built \in StatusType \cup {NoStatus}
              /\ snapshot \in StatusType \cup {NoStatus}
              /\ cached \in StatusType \cup {NoStatus}
StatsOK == /\ rows \in [Days -> [max : Never..MaxPeople, total : Never..MaxTime]]
           /\ lastSync \in Never..MaxTime
EmittedOK == emitted \in Seq(Events)

LEMMA TypeParts ==
  TypeOK <=> /\ ControlOK /\ FlagsOK /\ CountingOK(counting) /\ StatusesOK
             /\ StatsOK /\ EmittedOK
  <1>1. {running, camera_ok, detector_ok} \subseteq BOOLEAN <=> FlagsOK
    BY Zenon DEF FlagsOK
  <1>2. {built, snapshot, cached} \subseteq StatusType \cup {NoStatus} <=> StatusesOK
    BY Zenon DEF StatusesOK
  <1> QED
    BY <1>1, <1>2, Zenon DEF TypeOK, ControlOK, CountingOK, StatsOK, EmittedOK,
       Events, Kinds

LEMMA ConstantTypes ==
  /\ EnterFrames \in Nat \ {0} /\ LeaveSeconds \in Nat /\ MaxPeople \in Nat
  /\ MaxTime \in Nat /\ EventsKept \in Nat \ {0} /\ DayLength \in Nat \ {0}
  /\ RoiInit \in Rois
  BY CounterAssumption DEF CounterAssumption

LEMMA DayInDays ==
  ASSUME NEW t \in 0..MaxTime
  PROVE  Day(t) \in Days
  <1>1. t \in Nat /\ MaxTime \in Nat /\ t <= MaxTime /\ DayLength \in Nat \ {0}
    BY ConstantTypes
  <1>2. t \div DayLength \in Nat /\ MaxTime \div DayLength \in Nat
    BY <1>1
  <1>3. t \div DayLength <= MaxTime \div DayLength
    BY <1>1
  <1> QED
    BY <1>2, <1>3 DEF Day, Days

LEMMA DayMonotone ==
  ASSUME NEW t \in 0..MaxTime, NEW u \in 0..MaxTime, t <= u
  PROVE  Day(t) <= Day(u)
  <1>1. t \in Nat /\ u \in Nat /\ DayLength \in Nat \ {0}
    BY ConstantTypes
  <1> QED
    BY <1>1 DEF Day

-----------------------------------------------------------------------------
(* Lemmas about the pure functions. *)

LEMMA NewCountingOK ==
  ASSUME NEW t \in 0..MaxTime
  PROVE  /\ CountingOK(NewCounting(t))
         /\ \A u \in 0..MaxTime : Stay(NewCounting(t), <<>>, u)
  <1>1. CountingOK(NewCounting(t))
    BY ConstantTypes, DayInDays DEF CountingOK, CountingType, NewCounting, Never
  <1>2. \A u \in 0..MaxTime : Stay(NewCounting(t), <<>>, u)
    BY ConstantTypes DEF Stay, NewCounting, Never
  <1> QED
    BY <1>1, <1>2

LEMMA ResetDailyOK ==
  ASSUME NEW c, CountingOK(c), NEW t \in 0..MaxTime
  PROVE  /\ CountingOK(ResetDaily(c, t))
         /\ ResetDaily(c, t).occupied = c.occupied
         /\ ResetDaily(c, t).since = c.since
         /\ ResetDaily(c, t).lastSeen = c.lastSeen
         /\ ResetDaily(c, t).people = c.people
         /\ ResetDaily(c, t).total \in {c.total, 0}
         /\ \/ ResetDaily(c, t) = c
            \/ ResetDaily(c, t).day /= c.day /\ ResetDaily(c, t).total = 0
  <1>1. CASE c.day = Day(t)
    <2> DEFINE r == ResetDaily(c, t)
    <2>1. r = c
      BY <1>1 DEF ResetDaily
    <2> HIDE DEF r
    <2>2. /\ CountingOK(r) /\ r.occupied = c.occupied /\ r.since = c.since
          /\ r.lastSeen = c.lastSeen /\ r.people = c.people /\ r.total \in {c.total, 0}
      BY <2>1
    <2> QED
      BY <2>1, <2>2 DEF r
  <1>2. CASE c.day /= Day(t)
    <2> DEFINE d == Day(t)
               r == [c EXCEPT !.day = d, !.total = 0, !.max = 0, !.events = <<>>]
    <2>1. ResetDaily(c, t) = r
      BY <1>2 DEF ResetDaily
    <2>2. d \in Days /\ c.day /= d
      BY <1>2, DayInDays
    <2> HIDE DEF d
    <2>3. r \in CountingType
      <3>1. c \in CountingType /\ 0 \in 0..MaxTime /\ 0 \in 0..MaxPeople
        BY ConstantTypes DEF CountingOK
      <3>2. <<>> \in Seq({"enter_region", "leave_region"})
        OBVIOUS
      <3> QED
        BY <2>2, <3>1, <3>2 DEF CountingType
    <2>4. /\ r.occupied = c.occupied /\ r.since = c.since /\ r.lastSeen = c.lastSeen
          /\ r.people = c.people /\ r.total = 0 /\ r.day = d /\ r.events = <<>>
      BY DEF CountingOK, CountingType
    <2>5. Len(<<>>) <= EventsKept
      BY ConstantTypes
    <2> HIDE DEF r
    <2> QED
      BY <2>1, <2>2, <2>3, <2>4, <2>5 DEF CountingOK
  <1> QED
    BY <1>1, <1>2

LEMMA Append100OK ==
  ASSUME NEW s \in Seq(Kinds), Len(s) <= EventsKept, NEW e \in Kinds
  PROVE  /\ Append100(s, e) \in Seq(Kinds)
         /\ Len(Append100(s, e)) <= EventsKept
  BY ConstantTypes DEF Append100

LEMMA ObserveOK ==
  ASSUME NEW c, CountingOK(c), NEW n \in 0..MaxPeople, NEW t \in 0..MaxTime
  PROVE  /\ CountingOK(Observe(c, n, t))
         /\ Observe(c, n, t).people = n
         /\ Observe(c, n, t).occupied = c.occupied
         /\ Observe(c, n, t).since = c.since
         /\ Observe(c, n, t).total = c.total
         /\ Observe(c, n, t).day = c.day
         /\ Observe(c, n, t).events = c.events
         /\ Observe(c, n, t).lastSeen = IF n > 0 THEN t ELSE c.lastSeen
  <1> DEFINE m == [c EXCEPT !.people = n, !.max = IF n > @ THEN n ELSE @]
  <1>1. /\ m \in CountingType /\ m.people = n /\ m.inside = c.inside
        /\ m.occupied = c.occupied /\ m.since = c.since /\ m.total = c.total
        /\ m.day = c.day /\ m.events = c.events /\ m.lastSeen = c.lastSeen
    BY ConstantTypes DEF CountingOK, CountingType
  <1>2. Observe(c, n, t) =
          IF n > 0
            THEN [m EXCEPT !.lastSeen = t,
                           !.inside = IF @ < EnterFrames THEN @ + 1 ELSE @]
            ELSE [m EXCEPT !.inside = 0]
    BY DEF Observe
  <1> HIDE DEF m
  <1>3. CASE n > 0
    <2> DEFINE i == IF m.inside < EnterFrames THEN m.inside + 1 ELSE m.inside
               o == [m EXCEPT !.lastSeen = t, !.inside = i]
    <2>1. o \in CountingType
      <3>1. m.inside \in 0..EnterFrames
        BY <1>1 DEF CountingType
      <3>2. i \in 0..EnterFrames /\ t \in Never..MaxTime
        BY <3>1, ConstantTypes DEF Never
      <3> HIDE DEF i
      <3> QED
        BY <1>1, <3>2 DEF CountingType
    <2>2. /\ o.people = n /\ o.occupied = c.occupied /\ o.since = c.since
          /\ o.total = c.total /\ o.day = c.day /\ o.events = c.events
          /\ o.lastSeen = t
      BY <1>1 DEF CountingType
    <2>3. Observe(c, n, t) = o
      BY <1>2, <1>3
    <2> HIDE DEF o
    <2> QED
      BY <1>3, <2>1, <2>2, <2>3 DEF CountingOK
  <1>4. CASE ~(n > 0)
    <2> DEFINE o == [m EXCEPT !.inside = 0]
    <2>1. o \in CountingType
      BY <1>1, ConstantTypes DEF CountingType
    <2>2. /\ o.people = n /\ o.occupied = c.occupied /\ o.since = c.since
          /\ o.total = c.total /\ o.day = c.day /\ o.events = c.events
          /\ o.lastSeen = c.lastSeen
      BY <1>1 DEF CountingType
    <2> HIDE DEF o
    <2>3. Observe(c, n, t) = o
      BY <1>2, <1>4 DEF o
    <2> QED
      BY <1>4, <2>1, <2>2, <2>3 DEF CountingOK
  <1> QED
    BY <1>3, <1>4

(* The three outcomes of a frame. *)
LEMMA UpdateStateOutcomes ==
  ASSUME NEW c, NEW n \in 0..MaxPeople, NEW t
  PROVE  /\ ~(Enters(c, n) /\ Leaves(c, n, t))
         /\ Enters(c, n) =>
              UpdateState(c, n, t) =
                [Observe(c, n, t) EXCEPT
                   !.occupied = TRUE, !.since = t,
                   !.events = Append100(@, "enter_region")]
         /\ Leaves(c, n, t) =>
              UpdateState(c, n, t) =
                [Observe(c, n, t) EXCEPT
                   !.total = @ + (t - c.since),
                   !.occupied = FALSE, !.since = Never,
                   !.events = Append100(@, "leave_region")]
         /\ ~Enters(c, n) /\ ~Leaves(c, n, t) =>
              UpdateState(c, n, t) = Observe(c, n, t)
  <1>1. ~(Enters(c, n) /\ Leaves(c, n, t))
    BY ConstantTypes DEF Enters, Leaves
  <1> QED
    BY <1>1 DEF UpdateState

-----------------------------------------------------------------------------
(* What a step does to the state of the counter and to its events: nothing, a new
   counter, the reset of the day, or a frame. *)
Unmoved == /\ UNCHANGED <<counting, emitted>>
           /\ time' = time \/ (time < MaxTime /\ time' = time + 1)
Renewed == /\ counting' \in {NewCounting(time), NewCounting(0)}
           /\ emitted' = <<>> /\ UNCHANGED time
DayReset == counting' = ResetDaily(counting, time) /\ UNCHANGED <<time, emitted>>
Frame == /\ counting' = UpdateState(counting, seen, time)
         /\ emitted' = emitted \o Published(counting, seen, time)
         /\ UNCHANGED time

LEMMA KindsOfSteps ==
  ASSUME [Next]_vars
  PROVE  Unmoved \/ Renewed \/ DayReset \/ Frame
  <1>1. CASE Tick
    BY <1>1 DEF Tick, Unmoved
  <1>2. CASE Boot \/ ProcessEnds
    BY <1>2 DEF Boot, ProcessEnds, Renewed
  <1>3. CASE StopFlag \/ Stopping
    BY <1>3 DEF StopFlag, Stopping, Join, StopRefresh, Unmoved
  <1>4. CASE \E r \in Rois : UpdateRoi(r)
    BY <1>4 DEF UpdateRoi, Unmoved
  <1>5. CASE WorkerBegin \/ WorkerOpen \/ WorkerExit
    BY <1>5 DEF WorkerBegin, WorkerOpen, WorkerExit, Unmoved
  <1>6. CASE CameraGone \/ ReadFails \/ ReadFrame
    BY <1>6 DEF CameraGone, ReadFails, ReadFrame, TopOfLoop, DayReset
  <1>7. CASE Reopen \/ BuildUnlocked \/ InstallUnlocked \/ StoreUnlocked
    BY <1>7 DEF Reopen, BuildUnlocked, InstallUnlocked, StoreUnlocked, Unmoved
  <1>8. CASE Detect \/ DetectRaises \/ HandleException
    BY <1>8 DEF Detect, DetectRaises, HandleException, Unmoved
  <1>9. CASE CountFrame
    BY <1>9 DEF CountFrame, Frame
  <1>10. CASE UNCHANGED vars
    BY <1>10 DEF vars, Unmoved
  <1> QED
    BY <1>1, <1>2, <1>3, <1>4, <1>5, <1>6, <1>7, <1>8, <1>9, <1>10 DEF Next, Worker

-----------------------------------------------------------------------------
(* A frame, in parts: the type of the state, the events, and the stay. *)

LEMMA FrameCountingOK ==
  ASSUME NEW c, CountingOK(c), NEW s, NEW n \in 0..MaxPeople, NEW t \in 0..MaxTime,
         Stay(c, s, t)
  PROVE  CountingOK(UpdateState(c, n, t))
  <1> DEFINE o == Observe(c, n, t)
             u == UpdateState(c, n, t)
  <1>1. /\ o \in CountingType /\ Len(o.events) <= EventsKept /\ o.total = c.total
        /\ o.events \in Seq(Kinds)
    BY ObserveOK DEF CountingOK, CountingType, Kinds
  <1> HIDE DEF o
  <1>2. CASE Enters(c, n)
    <2> DEFINE e == Append100(o.events, "enter_region")
    <2>1. e \in Seq({"enter_region", "leave_region"}) /\ Len(e) <= EventsKept
      BY <1>1, Append100OK DEF Kinds
    <2>2. u = [o EXCEPT !.occupied = TRUE, !.since = t, !.events = e]
      BY <1>2, UpdateStateOutcomes DEF o
    <2>3. t \in Never..MaxTime
      BY ConstantTypes DEF Never
    <2> HIDE DEF e, u
    <2>4. u \in CountingType /\ u.events = e
      BY <1>1, <2>1, <2>2, <2>3 DEF CountingType
    <2> QED
      BY <2>1, <2>4 DEF u, CountingOK
  <1>3. CASE Leaves(c, n, t)
    <2> DEFINE e == Append100(o.events, "leave_region")
               x == o.total + (t - c.since)
    <2>1. e \in Seq({"enter_region", "leave_region"}) /\ Len(e) <= EventsKept
      BY <1>1, Append100OK DEF Kinds
    <2>2. x \in 0..MaxTime
      <3>1. c.occupied /\ c.total \in 0..MaxTime /\ c.since \in Int /\ c.lastSeen \in Int
        BY <1>3, ConstantTypes DEF Leaves, CountingOK, CountingType, Never
      <3>2. c.since <= t /\ c.total <= c.since
        BY <3>1, ConstantTypes DEF Stay
      <3>3. c.total + (t - c.since) \in 0..MaxTime
        BY <3>1, <3>2, ConstantTypes
      <3> QED
        BY <1>1, <3>3
    <2>3. u = [o EXCEPT !.total = x, !.occupied = FALSE, !.since = Never, !.events = e]
      BY <1>3, UpdateStateOutcomes DEF o
    <2>4. Never \in Never..MaxTime
      BY ConstantTypes DEF Never
    <2> HIDE DEF e, u, x
    <2>5. u \in CountingType /\ u.events = e
      BY <1>1, <2>1, <2>2, <2>3, <2>4 DEF CountingType
    <2> QED
      BY <2>1, <2>5 DEF u, CountingOK
  <1>4. CASE ~Enters(c, n) /\ ~Leaves(c, n, t)
    <2>1. u = o
      BY <1>4, UpdateStateOutcomes DEF o
    <2> HIDE DEF u
    <2>2. CountingOK(u)
      BY <1>1, <2>1 DEF CountingOK
    <2> QED
      BY <2>2 DEF u
  <1> QED
    BY <1>2, <1>3, <1>4

(* What the rest of the argument needs to know of a frame. *)
LEMMA FrameFields ==
  ASSUME NEW c, CountingOK(c), NEW n \in 0..MaxPeople, NEW t \in 0..MaxTime
  PROVE  LET u == UpdateState(c, n, t)
         IN  /\ u.people = n /\ u.day = c.day
             /\ u.lastSeen = IF n > 0 THEN t ELSE c.lastSeen
             /\ Enters(c, n) => u.occupied /\ u.since = t /\ u.total = c.total
             /\ Leaves(c, n, t) => /\ ~u.occupied /\ u.since = Never
                                   /\ u.total = c.total + (t - c.since)
             /\ ~Enters(c, n) /\ ~Leaves(c, n, t) =>
                  u.occupied = c.occupied /\ u.since = c.since /\ u.total = c.total
  <1> DEFINE o == Observe(c, n, t)
             u == UpdateState(c, n, t)
  <1>1. /\ o \in CountingType /\ o.people = n /\ o.day = c.day
        /\ o.occupied = c.occupied /\ o.since = c.since /\ o.total = c.total
        /\ o.lastSeen = IF n > 0 THEN t ELSE c.lastSeen
    BY ObserveOK DEF CountingOK
  <1>2. ~(Enters(c, n) /\ Leaves(c, n, t))
    BY UpdateStateOutcomes
  <1>3. CASE Enters(c, n)
    <2>1. u = [o EXCEPT !.occupied = TRUE, !.since = t,
                        !.events = Append100(@, "enter_region")]
      BY <1>3, UpdateStateOutcomes
    <2> HIDE DEF o, u
    <2>2. /\ u.people = o.people /\ u.day = o.day /\ u.lastSeen = o.lastSeen
          /\ u.occupied = TRUE /\ u.since = t /\ u.total = o.total
      BY <1>1, <2>1 DEF CountingType
    <2> QED
      BY <1>1, <1>2, <1>3, <2>2 DEF u
  <1>4. CASE Leaves(c, n, t)
    <2>1. u = [o EXCEPT !.total = @ + (t - c.since), !.occupied = FALSE,
                        !.since = Never, !.events = Append100(@, "leave_region")]
      BY <1>4, UpdateStateOutcomes
    <2> HIDE DEF o, u
    <2>2. /\ u.people = o.people /\ u.day = o.day /\ u.lastSeen = o.lastSeen
          /\ u.occupied = FALSE /\ u.since = Never
          /\ u.total = o.total + (t - c.since)
      BY <1>1, <2>1 DEF CountingType
    <2> QED
      BY <1>1, <1>2, <1>4, <2>2 DEF u
  <1>5. CASE ~Enters(c, n) /\ ~Leaves(c, n, t)
    <2>1. u = o
      BY <1>5, UpdateStateOutcomes
    <2> HIDE DEF o, u
    <2> QED
      BY <1>1, <1>5, <2>1 DEF u
  <1> QED
    BY <1>3, <1>4, <1>5

(* ... and of its list. *)
LEMMA FrameEvents ==
  ASSUME NEW c, CountingOK(c), NEW n \in 0..MaxPeople, NEW t \in 0..MaxTime
  PROVE  LET u == UpdateState(c, n, t)
         IN  /\ Enters(c, n) => u.events = Append100(c.events, "enter_region")
             /\ Leaves(c, n, t) => u.events = Append100(c.events, "leave_region")
             /\ ~Enters(c, n) /\ ~Leaves(c, n, t) => u.events = c.events
  <1> DEFINE o == Observe(c, n, t)
             u == UpdateState(c, n, t)
  <1>1. o \in CountingType /\ o.events = c.events
    BY ObserveOK DEF CountingOK
  <1>2. CASE Enters(c, n)
    <2>1. u = [o EXCEPT !.occupied = TRUE, !.since = t,
                        !.events = Append100(@, "enter_region")]
      BY <1>2, UpdateStateOutcomes
    <2> HIDE DEF o, u
    <2>2. u.events = Append100(o.events, "enter_region")
      BY <1>1, <2>1 DEF CountingType
    <2>3. ~Leaves(c, n, t)
      BY <1>2, UpdateStateOutcomes
    <2> QED
      BY <1>1, <1>2, <2>2, <2>3 DEF u
  <1>3. CASE Leaves(c, n, t)
    <2>1. u = [o EXCEPT !.total = @ + (t - c.since), !.occupied = FALSE,
                        !.since = Never, !.events = Append100(@, "leave_region")]
      BY <1>3, UpdateStateOutcomes
    <2> HIDE DEF o, u
    <2>2. u.events = Append100(o.events, "leave_region")
      BY <1>1, <2>1 DEF CountingType
    <2>3. ~Enters(c, n)
      BY <1>3, UpdateStateOutcomes
    <2> QED
      BY <1>1, <1>3, <2>2, <2>3 DEF u
  <1>4. CASE ~Enters(c, n) /\ ~Leaves(c, n, t)
    <2>1. u = o
      BY <1>4, UpdateStateOutcomes
    <2> QED
      BY <1>1, <1>4, <2>1
  <1> QED
    BY <1>2, <1>3, <1>4

(* The list that an event of the day is appended to. *)
LEMMA AppendListed ==
  ASSUME NEW c, CountingOK(c), NEW s \in Seq(Events), Listed(c, s),
         NEW e \in Events, e.day = c.day, NEW v, v = Append(s, e),
         NEW u, CountingOK(u), u.day = c.day, u.events = Append100(c.events, e.kind)
  PROVE  Listed(u, v)
  <1> DEFINE l == c.events
             n == Len(l)
             w == Append(l, e.kind)
             m == u.events
  <1>1. l \in Seq(Kinds) /\ n \in Nat /\ n <= EventsKept /\ EventsKept \in Nat \ {0}
    BY ConstantTypes DEF CountingOK, CountingType, Kinds
  <1>2. e.kind \in Kinds
    BY DEF Events
  <1>3. /\ w \in Seq(Kinds) /\ Len(w) = n + 1 /\ w[n + 1] = e.kind
        /\ \A k \in 1..n : w[k] = l[k]
    BY <1>1, <1>2
  <1>4. /\ Len(s) \in Nat /\ Len(v) = Len(s) + 1 /\ v[Len(s) + 1] = e
        /\ \A i \in 1..Len(s) : v[i] = s[i]
    OBVIOUS
  <1>5. /\ n <= Len(s)
        /\ \A k \in 1..n : s[Len(s) - n + k].day = c.day /\ l[k] = s[Len(s) - n + k].kind
        /\ n < EventsKept => \A i \in 1..(Len(s) - n) : s[i].day /= c.day
    <2>1. Len(s) - n >= 0
      BY DEF Listed
    <2>2. \A k \in 1..n : s[Len(s) - n + k].day = c.day /\ l[k] = s[Len(s) - n + k].kind
      BY Zenon DEF Listed
    <2>3. n < EventsKept => \A i \in 1..(Len(s) - n) : s[i].day /= c.day
      BY Zenon DEF Listed
    <2>4. n <= Len(s)
      BY <1>1, <1>4, <2>1
    <2> QED
      BY <2>2, <2>3, <2>4
  <1>6. m = IF Len(w) <= EventsKept THEN w ELSE Tail(w)
    BY DEF Append100
  <1> HIDE DEF l, n, w, m
  <1>7. CASE n < EventsKept
    <2>1. m = w
      BY <1>1, <1>3, <1>6, <1>7
    <2>2. Len(m) = n + 1 /\ Len(v) - Len(m) = Len(s) - n
      <3>1. Len(m) = n + 1
        BY <1>3, <2>1
      <3>2. n \in Nat /\ Len(s) \in Nat /\ Len(v) = Len(s) + 1
        BY <1>1, <1>4
      <3> QED
        BY <3>1, <3>2
    <2>3. ASSUME NEW k \in 1..Len(m)
          PROVE  /\ v[Len(v) - Len(m) + k].day = u.day
                 /\ m[k] = v[Len(v) - Len(m) + k].kind
      <3>1. CASE k = n + 1
        <4>1. n \in Nat /\ Len(s) \in Nat
          BY <1>1, <1>4
        <4>2. Len(v) - Len(m) + k = Len(s) + 1
          BY <2>2, <3>1, <4>1
        <4>3. v[Len(v) - Len(m) + k] = e
          BY <1>4, <4>2
        <4>4. m[k] = e.kind
          BY <1>3, <2>1, <3>1
        <4> QED
          BY <4>3, <4>4
      <3>2. CASE k /= n + 1
        <4>1. k \in 1..n /\ Len(s) - n + k \in 1..Len(s)
          BY <1>1, <1>4, <1>5, <2>2, <3>2
        <4>2. v[Len(v) - Len(m) + k] = s[Len(s) - n + k] /\ m[k] = l[k]
          BY <1>3, <1>4, <2>1, <2>2, <4>1
        <4> QED
          BY <1>5, <4>1, <4>2
      <3> QED
        BY <3>1, <3>2
    <2>4. ASSUME NEW i \in 1..(Len(v) - Len(m)) PROVE v[i].day /= u.day
      <3>1. i \in 1..(Len(s) - n) /\ i \in 1..Len(s)
        BY <1>1, <1>4, <2>2
      <3> QED
        BY <1>4, <1>5, <1>7, <3>1
    <2>5. Len(v) - Len(m) >= 0
      BY <1>1, <1>4, <1>5, <2>2
    <2> QED
      BY <2>3, <2>4, <2>5 DEF Listed, m
  <1>8. CASE ~(n < EventsKept)
    <2>1. n = EventsKept /\ m = Tail(w)
      BY <1>1, <1>3, <1>6, <1>8
    <2>2. /\ Len(m) = n /\ Len(v) - Len(m) = Len(s) - n + 1
          /\ \A k \in 1..n : m[k] = w[k + 1]
      <3>1. n \in Nat /\ Len(s) \in Nat /\ Len(v) = Len(s) + 1 /\ Len(w) = n + 1
        BY <1>1, <1>3, <1>4
      <3>2. w \in Seq(Kinds) /\ w /= <<>>
        BY <1>3, <3>1
      <3>3. Len(Tail(w)) = n /\ \A k \in 1..n : Tail(w)[k] = w[k + 1]
        BY <3>1, <3>2
      <3>4. Len(m) = n /\ \A k \in 1..n : m[k] = w[k + 1]
        BY <2>1, <3>3, Zenon
      <3>5. Len(v) - n = Len(s) - n + 1
        BY <3>1
      <3> QED
        BY <3>4, <3>5, Zenon
    <2>3. ASSUME NEW k \in 1..Len(m)
          PROVE  /\ v[Len(v) - Len(m) + k].day = u.day
                 /\ m[k] = v[Len(v) - Len(m) + k].kind
      <3>1. CASE k = n
        <4>1. v[Len(v) - Len(m) + k] = e /\ m[k] = e.kind
          BY <1>1, <1>3, <1>4, <2>2, <3>1
        <4> QED
          BY <4>1
      <3>2. CASE k /= n
        <4>1. k + 1 \in 1..n /\ Len(s) - n + (k + 1) \in 1..Len(s)
          BY <1>1, <1>4, <1>5, <2>2, <3>2
        <4>2. v[Len(v) - Len(m) + k] = s[Len(s) - n + (k + 1)] /\ m[k] = l[k + 1]
          <5>1. Len(v) - Len(m) + k = Len(s) - n + (k + 1)
            BY <1>1, <1>4, <2>2
          <5>2. m[k] = l[k + 1]
            BY <1>1, <1>3, <2>2, <4>1
          <5> QED
            BY <1>4, <4>1, <5>1, <5>2
        <4> QED
          BY <1>5, <4>1, <4>2
      <3> QED
        BY <3>1, <3>2
    <2>4. Len(v) - Len(m) >= 0 /\ ~(Len(m) < EventsKept)
      BY <1>1, <1>4, <1>5, <2>1, <2>2
    <2> QED
      BY <2>3, <2>4 DEF Listed, m
  <1> QED
    BY <1>7, <1>8

(* An event that fits the last one. *)
LEMMA AppendEvent ==
  ASSUME NEW s \in Seq(Events), NEW e \in Events, Alternate(s), Outlast(s),
         s = <<>> => e.kind = "enter_region",
         s /= <<>> => e.kind /= s[Len(s)].kind,
         e.kind = "leave_region" => e.at - s[Len(s)].at >= LeaveSeconds,
         NEW v, v = Append(s, e)
  PROVE  Alternate(v) /\ Outlast(v)
  <1>1. /\ Len(s) \in Nat /\ Len(v) = Len(s) + 1 /\ v[Len(s) + 1] = e
        /\ \A i \in 1..Len(s) : v[i] = s[i]
        /\ s = <<>> <=> Len(s) = 0
    OBVIOUS
  <1>2. v[1].kind = "enter_region"
    <2>1. CASE s = <<>>
      BY <1>1, <2>1
    <2>2. CASE s /= <<>>
      BY <1>1, <2>2 DEF Alternate
    <2> QED
      BY <2>1, <2>2
  <1>3. ASSUME NEW i \in 2..Len(v)
        PROVE  /\ v[i].kind /= v[i - 1].kind
               /\ v[i].kind = "leave_region" => v[i].at - v[i - 1].at >= LeaveSeconds
    <2>1. CASE i = Len(s) + 1
      <3>1. v[i] = e /\ v[i - 1] = s[Len(s)] /\ s /= <<>>
        BY <1>1, <2>1
      <3> QED
        BY <3>1
    <2>2. CASE i /= Len(s) + 1
      <3>1. i \in 2..Len(s) /\ v[i] = s[i] /\ v[i - 1] = s[i - 1]
        BY <1>1, <2>2
      <3> QED
        BY <3>1 DEF Alternate, Outlast
    <2> QED
      BY <2>1, <2>2
  <1> QED
    BY <1>2, <1>3 DEF Alternate, Outlast

(* A frame that appends e to s keeps the stay, the alternation and the grace. *)
LEMMA FrameStay ==
  ASSUME NEW c, CountingOK(c), NEW s \in Seq(Events), NEW n \in 0..MaxPeople,
         NEW t \in 0..MaxTime, Stay(c, s, t), Alternate(s), Outlast(s)
  PROVE  LET v == s \o Published(c, n, t)
         IN  /\ v \in Seq(Events) /\ Alternate(v) /\ Outlast(v)
             /\ Stay(UpdateState(c, n, t), v, t)
  <1> DEFINE u == UpdateState(c, n, t)
             v == s \o Published(c, n, t)
  <1>1. /\ c.total \in Nat /\ c.since \in Int /\ c.lastSeen \in Int
        /\ c.occupied \in BOOLEAN /\ c.day \in Days /\ t \in Nat /\ n \in Nat
        /\ Len(s) \in Nat
    BY ConstantTypes DEF CountingOK, CountingType, Never
  <1>2. /\ u.people = n /\ u.day = c.day
        /\ u.lastSeen = IF n > 0 THEN t ELSE c.lastSeen
        /\ Enters(c, n) => u.occupied /\ u.since = t /\ u.total = c.total
        /\ Leaves(c, n, t) => /\ ~u.occupied /\ u.since = Never
                              /\ u.total = c.total + (t - c.since)
        /\ ~Enters(c, n) /\ ~Leaves(c, n, t) =>
             u.occupied = c.occupied /\ u.since = c.since /\ u.total = c.total
    BY FrameFields
  <1>3. ~(Enters(c, n) /\ Leaves(c, n, t))
    BY UpdateStateOutcomes
  <1> HIDE DEF u
  <1>4. CASE ~Enters(c, n) /\ ~Leaves(c, n, t)
    <2>1. v = s
      BY <1>4 DEF Published
    <2>2. Stay(u, s, t)
      BY <1>1, <1>2, <1>4 DEF Stay
    <2> QED
      BY <2>1, <2>2 DEF u
  <1>5. CASE Enters(c, n)
    <2> DEFINE e == [kind |-> "enter_region", at |-> t, day |-> c.day]
    <2>1. v = Append(s, e) /\ e \in Events
      BY <1>1, <1>5 DEF Published, Events, Kinds
    <2>2. ~c.occupied /\ n > 0
      BY <1>5 DEF Enters
    <2> HIDE DEF v
    <2>3. /\ v \in Seq(Events) /\ Len(v) = Len(s) + 1 /\ v[Len(v)] = e /\ v /= <<>>
          /\ \A i \in 1..Len(s) : v[i] = s[i]
      BY <1>1, <2>1
    <2>4. s /= <<>> => Len(s) >= 1 /\ s[Len(s)].kind = "leave_region"
      BY <1>1, <2>2 DEF Stay
    <2>5. e.kind = "enter_region" /\ e.at = t
      OBVIOUS
    <2> HIDE DEF e
    <2>6. v = Append(s, e) /\ e \in Events
      BY <2>1 DEF e
    <2>7. Alternate(v) /\ Outlast(v)
      BY <2>4, <2>5, <2>6, AppendEvent
    <2>8. Stay(u, v, t)
      BY <1>1, <1>2, <1>5, <2>2, <2>3, <2>5 DEF Stay
    <2> QED
      BY <2>3, <2>7, <2>8 DEF u, v
  <1>6. CASE Leaves(c, n, t)
    <2> DEFINE e == [kind |-> "leave_region", at |-> t, day |-> c.day]
    <2>1. v = Append(s, e) /\ e \in Events
      BY <1>1, <1>3, <1>6 DEF Published, Events, Kinds
    <2>2. c.occupied /\ n = 0 /\ t - c.lastSeen >= LeaveSeconds
      BY <1>6 DEF Leaves
    <2> HIDE DEF v
    <2>3. /\ v \in Seq(Events) /\ Len(v) = Len(s) + 1 /\ v[Len(v)] = e /\ v /= <<>>
          /\ \A i \in 1..Len(s) : v[i] = s[i]
      BY <1>1, <2>1
    <2>4. /\ Len(s) >= 1 /\ s[Len(s)].kind = "enter_region" /\ s[Len(s)].at = c.since
          /\ 0 <= c.since /\ c.since <= c.lastSeen /\ c.total <= c.since
      BY <1>1, <2>2 DEF Stay
    <2>5. e.kind = "leave_region" /\ e.at = t
      OBVIOUS
    <2> HIDE DEF e
    <2>6. v = Append(s, e) /\ e \in Events
      BY <2>1 DEF e
    <2>7. s /= <<>> /\ e.at - s[Len(s)].at >= LeaveSeconds
      BY <1>1, <2>2, <2>4, <2>5, ConstantTypes
    <2>9. Alternate(v) /\ Outlast(v)
      BY <2>4, <2>5, <2>6, <2>7, AppendEvent
    <2>8. Stay(u, v, t)
      BY <1>1, <1>2, <1>6, <2>3, <2>4, <2>5 DEF Stay
    <2> QED
      BY <2>3, <2>8, <2>9 DEF u, v
  <1> QED
    BY <1>4, <1>5, <1>6

(* Time passes: nothing is lost of the stay. *)
LEMMA StayLater ==
  ASSUME NEW c, CountingOK(c), NEW s, NEW t \in 0..MaxTime, NEW u \in 0..MaxTime,
         t <= u, Stay(c, s, t)
  PROVE  Stay(c, s, u)
  <1>1. /\ c.total \in Nat /\ c.lastSeen \in Int /\ t \in Nat /\ u \in Nat
    BY ConstantTypes DEF CountingOK, CountingType, Never
  <1> QED
    BY <1>1 DEF Stay

-----------------------------------------------------------------------------
(* The sums of the stays.  What holds of a recursive function is shown by looking at
   the least number for which it does not. *)

LessThan == {p \in Nat \X Nat : p[1] < p[2]}

LEMMA LessThanWellFounded == IsWellFoundedOn(LessThan, Nat)
  BY NatLessThanWellFounded DEF OpToRel, LessThan

LEMMA LeastNumber ==
  ASSUME NEW T, T \subseteq Nat, T /= {}
  PROVE  \E k \in T : \A j \in T : k <= j
  <1>1. PICK k \in T : \A j \in T : <<j, k>> \notin LessThan
    BY WFMin, LessThanWellFounded
  <1>2. ASSUME NEW j \in T
        PROVE  k <= j
    <2>1. <<j, k>> \notin LessThan
      BY <1>1
    <2>2. j \in Nat /\ k \in Nat
      OBVIOUS
    <2>3. j < k => <<j, k>> \in LessThan
      BY <2>2 DEF LessThan
    <2> QED
      BY <2>1, <2>2, <2>3
  <1> QED
    BY <1>2

(* Induction up to n, for a set instead of a predicate. *)
LEMMA UpTo ==
  ASSUME NEW n \in Nat, NEW T, 0 \in T, \A k \in 1..n : k - 1 \in T => k \in T
  PROVE  0..n \subseteq T
  <1> DEFINE rest == {k \in 0..n : k \notin T}
  <1>1. CASE rest = {}
    BY <1>1
  <1>2. CASE rest /= {}
    <2>1. rest \subseteq Nat
      OBVIOUS
    <2>2. PICK k \in rest : \A j \in rest : k <= j
      <3> HIDE DEF rest
      <3> QED
        BY <1>2, <2>1, LeastNumber
    <2>3. k \in 1..n /\ k - 1 \in 0..n /\ ~(k <= k - 1)
      OBVIOUS
    <2>4. k - 1 \in T
      BY <2>2, <2>3
    <2> QED
      BY <2>3, <2>4
  <1> QED
    BY <1>1, <1>2

LEMMA StayTimeInt ==
  ASSUME NEW s \in Seq(Events), NEW d, NEW k \in 1..Len(s)
  PROVE  /\ StayTime(s, d, k) \in Int
         /\ Outlast(s) => StayTime(s, d, k) >= 0
         /\ s[k].day /= d => StayTime(s, d, k) = 0
  <1>1. CASE k = 1
    BY <1>1 DEF StayTime
  <1>2. CASE k /= 1
    <2>1. k \in 2..Len(s) /\ k - 1 \in 1..Len(s) /\ k > 1
      BY <1>2
    <2>2. s[k] \in Events /\ s[k - 1] \in Events
      BY <2>1
    <2>3. s[k].at \in Int /\ s[k - 1].at \in Int /\ LeaveSeconds \in Nat
      BY <2>2, ConstantTypes DEF Events
    <2>4. Outlast(s) /\ s[k].kind = "leave_region" => s[k].at - s[k - 1].at >= LeaveSeconds
      BY <2>1 DEF Outlast
    <2> QED
      BY <2>1, <2>3, <2>4 DEF StayTime
  <1> QED
    BY <1>1, <1>2

(* f is a table of the sums up to n. *)
SumsUpTo(f, s, d, n) == f[0] = 0 /\ \A k \in 1..n : f[k] = f[k - 1] + StayTime(s, d, k)

LEMMA SumsExist ==
  ASSUME NEW s \in Seq(Events), NEW d
  PROVE  \E f \in [0..Len(s) -> Int] : SumsUpTo(f, s, d, Len(s))
  <1> DEFINE n == Len(s)
             T == {k \in 0..n : \E f \in [0..k -> Int] : SumsUpTo(f, s, d, k)}
  <1>1. n \in Nat
    OBVIOUS
  <1>2. 0 \in T
    <2> DEFINE f == [i \in 0..0 |-> 0]
    <2>1. f \in [0..0 -> Int] /\ SumsUpTo(f, s, d, 0)
      BY DEF SumsUpTo
    <2> QED
      BY <1>1, <2>1
  <1>3. ASSUME NEW k \in 1..n, k - 1 \in T
        PROVE  k \in T
    <2>1. PICK f \in [0..(k - 1) -> Int] : SumsUpTo(f, s, d, k - 1)
      BY <1>3
    <2> DEFINE x == f[k - 1] + StayTime(s, d, k)
               g == [i \in 0..k |-> IF i = k THEN x ELSE f[i]]
    <2>2. x \in Int
      BY <1>1, StayTimeInt
    <2>3. g[k] = x /\ g[k - 1] = f[k - 1] /\ g[0] = f[0]
      BY <1>1
    <2>4. \A i \in 1..(k - 1) : g[i] = f[i] /\ g[i - 1] = f[i - 1]
      BY <1>1
    <2>5. g \in [0..k -> Int]
      BY <1>1, <2>2
    <2> HIDE DEF g
    <2>6. SumsUpTo(g, s, d, k)
      <3>1. g[0] = 0
        BY <2>1, <2>3 DEF SumsUpTo
      <3>2. ASSUME NEW i \in 1..k
            PROVE  g[i] = g[i - 1] + StayTime(s, d, i)
        <4>1. CASE i = k
          BY <2>3, <4>1
        <4>2. CASE i /= k
          <5>1. i \in 1..(k - 1)
            BY <1>1, <4>2
          <5> QED
            BY <2>1, <2>4, <5>1 DEF SumsUpTo
        <4> QED
          BY <4>1, <4>2
      <3> QED
        BY <3>1, <3>2 DEF SumsUpTo
    <2> QED
      BY <2>5, <2>6
  <1>4. n \in T
    <2> HIDE DEF T
    <2>1. 0..n \subseteq T
      BY <1>1, <1>2, <1>3, UpTo
    <2> QED
      BY <1>1, <2>1
  <1> QED
    BY <1>4

LEMMA TotalsDef ==
  ASSUME NEW s \in Seq(Events), NEW d
  PROVE  /\ \A k \in 0..Len(s) : Totals(s, d)[k] \in Int
         /\ SumsUpTo(Totals(s, d), s, d, Len(s))
  <1> DEFINE Is(f) == f = [k \in 0..Len(s) |->
                             IF k = 0 THEN 0 ELSE f[k - 1] + StayTime(s, d, k)]
  <1>1. PICK f \in [0..Len(s) -> Int] : SumsUpTo(f, s, d, Len(s))
    BY SumsExist
  <1>2. Is(f)
    <2>1. \A k \in 0..Len(s) :
            f[k] = IF k = 0 THEN 0 ELSE f[k - 1] + StayTime(s, d, k)
      BY <1>1 DEF SumsUpTo
    <2> QED
      BY <2>1
  <1>3. Totals(s, d) = CHOOSE g : Is(g)
    BY DEF Totals
  <1>4. Is(Totals(s, d))
    <2> HIDE DEF Is
    <2> QED
      BY <1>2, <1>3
  <1> DEFINE sum == Totals(s, d)
  <1>5. SumsUpTo(sum, s, d, Len(s))
    <2> HIDE DEF sum
    <2>1. Is(sum)
      BY <1>4 DEF sum
    <2>2. \A k \in 0..Len(s) : sum[k] = IF k = 0 THEN 0 ELSE sum[k - 1] + StayTime(s, d, k)
      BY <2>1
    <2>3. Len(s) \in Nat
      OBVIOUS
    <2> QED
      BY <2>2, <2>3 DEF SumsUpTo
  <1>6. \A k \in 0..Len(s) : sum[k] \in Int
    <2> HIDE DEF sum, Is
    <2> DEFINE T == {k \in 0..Len(s) : sum[k] \in Int}
    <2>1. Len(s) \in Nat
      OBVIOUS
    <2>2. 0 \in T
      BY <1>5, <2>1 DEF SumsUpTo
    <2>3. ASSUME NEW k \in 1..Len(s), k - 1 \in T
          PROVE  k \in T
      BY <1>5, <2>1, <2>3, StayTimeInt DEF SumsUpTo
    <2> HIDE DEF T
    <2>4. 0..Len(s) \subseteq T
      BY <2>1, <2>2, <2>3, UpTo
    <2> QED
      BY <2>4 DEF T
  <1> QED
    BY <1>5, <1>6

(* The sums do not fall: a later one is no smaller than an earlier one. *)
LEMMA TotalsRise ==
  ASSUME NEW s \in Seq(Events), NEW d, Outlast(s), NEW j \in 0..Len(s)
  PROVE  Totals(s, d)[j] <= Totals(s, d)[Len(s)]
  <1> DEFINE n == Len(s)
             sum == Totals(s, d)
             T == {k \in 0..n : j <= k => sum[j] <= sum[k]}
  <1>1. n \in Nat
    OBVIOUS
  <1>2. (\A k \in 0..n : sum[k] \in Int) /\ SumsUpTo(sum, s, d, n)
    BY TotalsDef
  <1> HIDE DEF sum
  <1>3. 0 \in T
    BY <1>1, <1>2
  <1>4. ASSUME NEW k \in 1..n, k - 1 \in T
        PROVE  k \in T
    <2>1. sum[k] = sum[k - 1] + StayTime(s, d, k) /\ StayTime(s, d, k) >= 0
      BY <1>2, StayTimeInt DEF SumsUpTo
    <2>2. StayTime(s, d, k) \in Int
      BY StayTimeInt
    <2>3. sum[k] \in Int /\ sum[k - 1] \in Int /\ sum[j] \in Int
      BY <1>1, <1>2
    <2>4. j <= k - 1 => sum[j] <= sum[k - 1]
      BY <1>4
    <2>5. j = k \/ j <= k - 1 \/ ~(j <= k)
      BY <1>1
    <2> QED
      BY <1>1, <2>1, <2>2, <2>3, <2>4, <2>5
  <1>5. n \in T
    <2> HIDE DEF T
    <2>1. 0..n \subseteq T
      BY <1>1, <1>3, <1>4, UpTo
    <2> QED
      BY <1>1, <2>1
  <1> QED
    BY <1>5 DEF sum

(* A day without events has no stays. *)
LEMMA TotalsOfNoDay ==
  ASSUME NEW s \in Seq(Events), NEW d, \A i \in 1..Len(s) : s[i].day /= d
  PROVE  \A k \in 0..Len(s) : Totals(s, d)[k] = 0
  <1> DEFINE n == Len(s)
             sum == Totals(s, d)
             T == {k \in 0..n : sum[k] = 0}
  <1>1. n \in Nat
    OBVIOUS
  <1>2. SumsUpTo(sum, s, d, n)
    BY TotalsDef
  <1> HIDE DEF sum
  <1>3. 0 \in T
    BY <1>1, <1>2 DEF SumsUpTo
  <1>4. ASSUME NEW k \in 1..n, k - 1 \in T
        PROVE  k \in T
    <2>1. sum[k] = sum[k - 1] + StayTime(s, d, k)
      BY <1>2 DEF SumsUpTo
    <2>2. StayTime(s, d, k) = 0 /\ sum[k - 1] = 0
      BY <1>4, StayTimeInt
    <2> QED
      BY <1>1, <2>1, <2>2
  <1>5. 0..n \subseteq T
    <2> HIDE DEF T
    <2> QED
      BY <1>1, <1>3, <1>4, UpTo
  <1> QED
    BY <1>5 DEF sum

LEMMA TotalsOfNothing ==
  ASSUME NEW d
  PROVE  Totals(<<>>, d)[0] = 0
  <1>1. <<>> \in Seq(Events) /\ Len(<<>>) = 0
    OBVIOUS
  <1> QED
    BY <1>1, TotalsDef DEF SumsUpTo

(* An event leaves the sums before it as they were and adds the stay it ends. *)
LEMMA TotalsOfAppend ==
  ASSUME NEW s \in Seq(Events), NEW e \in Events, NEW d
  PROVE  LET v == Append(s, e)
         IN  /\ \A k \in 0..Len(s) : Totals(v, d)[k] = Totals(s, d)[k]
             /\ Totals(v, d)[Len(v)] = Totals(s, d)[Len(s)] + StayTime(v, d, Len(v))
  <1> DEFINE n == Len(s)
             v == Append(s, e)
             old == Totals(s, d)
             new == Totals(v, d)
             T == {k \in 0..n : new[k] = old[k]}
  <1>1. /\ n \in Nat /\ v \in Seq(Events) /\ Len(v) = n + 1
        /\ \A i \in 1..n : v[i] = s[i]
    OBVIOUS
  <1>2. SumsUpTo(old, s, d, n) /\ SumsUpTo(new, v, d, n + 1)
    BY <1>1, TotalsDef
  <1> HIDE DEF old, new
  <1>3. 0 \in T
    BY <1>1, <1>2 DEF SumsUpTo
  <1>4. ASSUME NEW k \in 1..n, k - 1 \in T
        PROVE  k \in T
    <2>1. StayTime(v, d, k) = StayTime(s, d, k)
      BY <1>1 DEF StayTime
    <2>2. new[k] = new[k - 1] + StayTime(v, d, k) /\ old[k] = old[k - 1] + StayTime(s, d, k)
      BY <1>1, <1>2 DEF SumsUpTo
    <2> QED
      BY <1>4, <2>1, <2>2
  <1>5. 0..n \subseteq T
    <2> HIDE DEF T
    <2> QED
      BY <1>1, <1>3, <1>4, UpTo
  <1>6. new[n] = old[n]
    BY <1>1, <1>5
  <1>7. new[n + 1] = new[n] + StayTime(v, d, n + 1)
    <2>1. n + 1 \in 1..(n + 1) /\ (n + 1) - 1 = n
      BY <1>1
    <2> QED
      BY <1>2, <2>1 DEF SumsUpTo
  <1> QED
    BY <1>1, <1>5, <1>6, <1>7 DEF old, new

-----------------------------------------------------------------------------
(* The invariant. *)

Counted == /\ CountingOK(counting) /\ EmittedOK
           /\ Stay(counting, emitted, time) /\ Alternate(emitted) /\ Outlast(emitted)

Shows(s) == s.occupied = counting.occupied /\ s.people = counting.people

Shown == /\ wpc \in {"install", "store"} => Shows(built)
         /\ main /= "down" => Shows(snapshot)
         /\ main /= "down" /\ "redis" \notin Faults => Shows(cached)

List == Listed(counting, emitted) /\ Dated(counting, emitted, time)

Threads == /\ wpc = "exited" => ~running
           /\ main \in {"joined", "stopped"} => wpc = "exited" /\ cap /= "open"
           /\ main = "stopped" => ~snapshot.running /\ ~snapshot.camera_ok
           /\ main = "down" => wpc = "none"
           /\ main = "serving" => running \/ wpc = "begin"
           /\ wpc = "install" => built.known

(* The total is the sum of the stays of the day, and the row of the day of the last
   sync, which lies in the past, lacks none that had ended before it. *)
Accounted ==
  LET sum == Totals(emitted, counting.day)
  IN  /\ counting.total = sum[Len(emitted)]
      /\ lastSync /= Never =>
           /\ lastSync <= time /\ rows[Day(lastSync)].total >= 0
           /\ Day(lastSync) = counting.day =>
                \A k \in 0..Len(emitted) : (\A i \in 1..k : emitted[i].at < lastSync) =>
                  rows[counting.day].total >= sum[k]

IInv == /\ ControlOK /\ FlagsOK /\ StatusesOK /\ StatsOK
        /\ Counted /\ List /\ Accounted /\ Shown /\ Threads

LEMMA CountedStep ==
  ASSUME ControlOK, Counted, [Next]_vars
  PROVE  Counted'
  <1>1. time \in 0..MaxTime /\ seen \in 0..MaxPeople /\ time \in Nat /\ MaxTime \in Nat
    BY ConstantTypes DEF ControlOK
  <1>2. Unmoved \/ Renewed \/ DayReset \/ Frame
    BY KindsOfSteps
  <1>3. CASE Unmoved
    <2>1. time' \in 0..MaxTime /\ time <= time'
      BY <1>1, <1>3 DEF Unmoved
    <2>2. Stay(counting, emitted, time')
      BY <1>1, <2>1, StayLater DEF Counted
    <2> QED
      BY <1>3, <2>2 DEF Unmoved, Counted, EmittedOK
  <1>4. CASE Renewed
    <2>1. CountingOK(counting') /\ Stay(counting', <<>>, time)
      BY <1>1, <1>4, NewCountingOK DEF Renewed
    <2>2. <<>> \in Seq(Events) /\ Alternate(<<>>) /\ Outlast(<<>>)
      BY DEF Alternate, Outlast
    <2> QED
      BY <1>4, <2>1, <2>2 DEF Renewed, Counted, EmittedOK
  <1>5. CASE DayReset
    <2> DEFINE c == ResetDaily(counting, time)
    <2>1. /\ CountingOK(c) /\ c.occupied = counting.occupied /\ c.since = counting.since
          /\ c.lastSeen = counting.lastSeen /\ c.total \in {counting.total, 0}
      BY <1>1, ResetDailyOK DEF Counted
    <2> HIDE DEF c
    <2>2. Stay(c, emitted, time)
      BY <1>1, <2>1 DEF Stay, Counted
    <2>3. counting' = c /\ UNCHANGED <<time, emitted>>
      BY <1>5 DEF DayReset, c
    <2> QED
      BY <2>1, <2>2, <2>3 DEF Counted, EmittedOK
  <1>6. CASE Frame
    <2> DEFINE v == emitted \o Published(counting, seen, time)
               u == UpdateState(counting, seen, time)
    <2>1. CountingOK(u)
      BY <1>1, FrameCountingOK DEF Counted
    <2>2. v \in Seq(Events) /\ Alternate(v) /\ Outlast(v) /\ Stay(u, v, time)
      BY <1>1, FrameStay DEF Counted, EmittedOK
    <2>3. counting' = u /\ emitted' = v /\ time' = time
      BY <1>6 DEF Frame
    <2> HIDE DEF u, v
    <2> QED
      BY <2>1, <2>2, <2>3 DEF Counted, EmittedOK
  <1> QED
    BY <1>2, <1>3, <1>4, <1>5, <1>6

LEMMA ListStep ==
  ASSUME ControlOK, Counted, Counted', List, [Next]_vars
  PROVE  List'
  <1>1. time \in 0..MaxTime /\ seen \in 0..MaxPeople /\ time \in Nat /\ MaxTime \in Nat
    BY ConstantTypes DEF ControlOK
  <1>2. Unmoved \/ Renewed \/ DayReset \/ Frame
    BY KindsOfSteps
  <1>3. /\ CountingOK(counting) /\ CountingOK(counting') /\ emitted \in Seq(Events)
        /\ Listed(counting, emitted) /\ Dated(counting, emitted, time)
        /\ counting.day \in Int /\ Day(time) \in Int
    <2>1. counting.day \in Days /\ Day(time) \in Days
      BY <1>1, DayInDays DEF Counted, CountingOK, CountingType
    <2> QED
      BY <2>1 DEF Counted, EmittedOK, List, Days
  <1>4. CASE Unmoved
    <2>1. time' \in 0..MaxTime /\ time <= time' /\ UNCHANGED <<counting, emitted>>
      BY <1>1, <1>4 DEF Unmoved
    <2>2. Day(time) <= Day(time') /\ Day(time') \in Int
      BY <1>1, <2>1, DayMonotone, DayInDays DEF Days
    <2>3. Dated(counting, emitted, time')
      BY <1>3, <2>2 DEF Dated
    <2> QED
      BY <1>3, <2>1, <2>3 DEF List
  <1>5. CASE Renewed
    <2>1. PICK u \in {time, 0} : counting' = NewCounting(u)
      BY <1>5 DEF Renewed
    <2>2. counting'.events = <<>> /\ counting'.day = Day(u) /\ emitted' = <<>> /\ time' = time
      BY <1>5, <2>1 DEF Renewed, NewCounting
    <2>3. Day(u) <= Day(time)
      BY <1>1, <2>1, DayMonotone
    <2>4. Listed(counting', <<>>)
      BY <2>2 DEF Listed
    <2>5. Dated(counting', <<>>, time)
      BY <2>2, <2>3 DEF Dated
    <2> QED
      BY <2>2, <2>4, <2>5 DEF List
  <1>6. CASE DayReset
    <2> DEFINE c == ResetDaily(counting, time)
    <2>1. counting' = c /\ UNCHANGED <<time, emitted>>
      BY <1>6 DEF DayReset
    <2>2. CASE counting.day = Day(time)
      <3>1. c = counting
        BY <2>2 DEF ResetDaily
      <3> QED
        BY <2>1, <3>1 DEF List
    <2>3. CASE counting.day /= Day(time)
      <3>1. c.day = Day(time) /\ c.events = <<>>
        BY <1>3, <2>3 DEF ResetDaily, CountingOK, CountingType
      <3> HIDE DEF c
      <3>2. \A i \in 1..Len(emitted) : emitted[i].day \in Int /\ emitted[i].day < c.day
        <4>1. \A i \in 1..Len(emitted) : emitted[i] \in Events
          BY <1>3
        <4> QED
          BY <1>3, <2>3, <3>1, <4>1 DEF Dated, Events, Days
      <3>3. Listed(c, emitted)
        BY <1>3, <3>1, <3>2 DEF Listed
      <3>4. Dated(c, emitted, time)
        BY <1>3, <3>1, <3>2 DEF Dated
      <3> QED
        BY <2>1, <3>3, <3>4 DEF List
    <2> QED
      BY <2>2, <2>3
  <1>7. CASE Frame
    <2> DEFINE u == UpdateState(counting, seen, time)
               v == emitted \o Published(counting, seen, time)
    <2>1. counting' = u /\ emitted' = v /\ time' = time /\ CountingOK(u)
      BY <1>3, <1>7 DEF Frame
    <2>2. u.day = counting.day
      BY <1>1, <1>3, FrameFields
    <2>3. /\ Enters(counting, seen) =>
               u.events = Append100(counting.events, "enter_region")
          /\ Leaves(counting, seen, time) =>
               u.events = Append100(counting.events, "leave_region")
          /\ ~Enters(counting, seen) /\ ~Leaves(counting, seen, time) =>
               u.events = counting.events
      BY <1>1, <1>3, FrameEvents
    <2>4. ~(Enters(counting, seen) /\ Leaves(counting, seen, time))
      BY <1>1, UpdateStateOutcomes
    <2> HIDE DEF u
    <2>5. CASE ~Enters(counting, seen) /\ ~Leaves(counting, seen, time)
      <3>1. v = emitted
        BY <1>3, <2>5 DEF Published
      <3>2. Listed(u, emitted) /\ Dated(u, emitted, time)
        BY <1>3, <2>2, <2>3, <2>5 DEF Listed, Dated
      <3> QED
        BY <2>1, <3>1, <3>2 DEF List
    <2>6. ASSUME NEW kind \in Kinds,
                 Published(counting, seen, time)
                   = <<[kind |-> kind, at |-> time, day |-> counting.day]>>,
                 u.events = Append100(counting.events, kind)
          PROVE  List'
      <3> DEFINE e == [kind |-> kind, at |-> time, day |-> counting.day]
      <3>1. e \in Events /\ e.day = counting.day /\ e.kind = kind
        BY <1>1, <1>3 DEF Events, CountingOK, CountingType
      <3>2. v = Append(emitted, e)
        BY <1>3, <2>6, <3>1
      <3> HIDE DEF e, v
      <3>3. Listed(u, v)
        BY <1>3, <2>1, <2>2, <2>6, <3>1, <3>2, AppendListed
      <3>4. /\ Len(v) = Len(emitted) + 1 /\ v[Len(emitted) + 1] = e
            /\ \A i \in 1..Len(emitted) : v[i] = emitted[i]
        BY <1>3, <3>1, <3>2
      <3>5. \A i \in 1..Len(v) : v[i].day <= u.day
        <4>1. \A i \in 1..Len(v) : i \in 1..Len(emitted) \/ i = Len(emitted) + 1
          BY <1>3, <3>4
        <4> QED
          BY <1>3, <2>2, <3>1, <3>4, <4>1 DEF Dated
      <3>6. Dated(u, v, time)
        BY <1>3, <2>2, <3>5 DEF Dated
      <3> QED
        BY <2>1, <3>3, <3>6 DEF List
    <2>7. CASE Enters(counting, seen)
      BY <2>3, <2>6, <2>7 DEF Published, Kinds
    <2>8. CASE Leaves(counting, seen, time)
      BY <2>3, <2>4, <2>6, <2>8 DEF Published, Kinds
    <2> QED
      BY <2>5, <2>7, <2>8
  <1> QED
    BY <1>2, <1>4, <1>5, <1>6, <1>7

LEMMA ControlStep ==
  ASSUME ControlOK, [Next]_vars
  PROVE  ControlOK'
  <1> USE ConstantTypes DEF ControlOK, MainPCs, WorkerPCs, device, OpenCapture
  <1>1. CASE Tick
    BY <1>1 DEF Tick
  <1>9. CASE Boot \/ ProcessEnds
    <2>1. /\ UNCHANGED time /\ main' \in {"serving", "down"} /\ wpc' \in {"begin", "none"}
          /\ cap' = "none" /\ roi' = RoiInit /\ seen' = 0
      BY <1>9 DEF Boot, ProcessEnds
    <2> QED
      BY <2>1
  <1>2. CASE StopFlag \/ Stopping
    BY <1>2 DEF StopFlag, Stopping, Join, StopRefresh
  <1>3. CASE \E r \in Rois : UpdateRoi(r)
    BY <1>3 DEF UpdateRoi
  <1>4. CASE WorkerBegin \/ WorkerOpen \/ WorkerExit
    BY <1>4 DEF WorkerBegin, WorkerOpen, WorkerExit
  <1>5. CASE CameraGone \/ ReadFails \/ ReadFrame
    BY <1>5 DEF CameraGone, ReadFails, ReadFrame, TopOfLoop
  <1>6. CASE Reopen \/ BuildUnlocked \/ InstallUnlocked \/ StoreUnlocked
    BY <1>6 DEF Reopen, BuildUnlocked, InstallUnlocked, StoreUnlocked
  <1>7. CASE Detect \/ DetectRaises
    BY <1>7 DEF Detect, DetectRaises
  <1>10. CASE HandleException \/ CountFrame
    <2>1. /\ UNCHANGED <<time, main, cap, roi>> /\ wpc' = "top" /\ seen' \in {seen, 0}
      BY <1>10 DEF HandleException, CountFrame
    <2> QED
      BY <2>1
  <1>8. CASE UNCHANGED vars
    BY <1>8 DEF vars
  <1> QED
    BY <1>1, <1>2, <1>3, <1>4, <1>5, <1>6, <1>7, <1>8, <1>9, <1>10 DEF Next, Worker

LEMMA FlagsStep ==
  ASSUME FlagsOK, [Next]_vars
  PROVE  FlagsOK'
  <1>0. \A x : Outcome(x) \subseteq BOOLEAN
    BY DEF Outcome
  <1> USE DEF FlagsOK, device
  <1>1. CASE Tick \/ StopFlag \/ Stopping
    BY <1>1 DEF Tick, StopFlag, Stopping, Join, StopRefresh
  <1>2. CASE Boot \/ ProcessEnds
    BY <1>2 DEF Boot, ProcessEnds
  <1>3. CASE \E r \in Rois : UpdateRoi(r)
    BY <1>3 DEF UpdateRoi
  <1>4. CASE WorkerBegin \/ WorkerExit
    BY <1>4 DEF WorkerBegin, WorkerExit
  <1>5. CASE WorkerOpen \/ Reopen
    BY <1>0, <1>5 DEF WorkerOpen, Reopen, OpenCapture
  <1>6. CASE CameraGone \/ ReadFails \/ ReadFrame
    BY <1>6 DEF CameraGone, ReadFails, ReadFrame, TopOfLoop
  <1>7. CASE BuildUnlocked \/ InstallUnlocked \/ StoreUnlocked
    BY <1>7 DEF BuildUnlocked, InstallUnlocked, StoreUnlocked
  <1>8. CASE Detect \/ DetectRaises \/ HandleException \/ CountFrame
    BY <1>8 DEF Detect, DetectRaises, HandleException, CountFrame
  <1>9. CASE UNCHANGED vars
    BY <1>9 DEF vars
  <1> QED
    BY <1>1, <1>2, <1>3, <1>4, <1>5, <1>6, <1>7, <1>8, <1>9 DEF Next, Worker

(* What a step does to the three copies of the status. *)
LEMMA BuildOK ==
  ASSUME NEW c, CountingOK(c), NEW r \in Rois, NEW cam \in BOOLEAN,
         NEW det \in BOOLEAN, NEW run \in BOOLEAN
  PROVE  Build(c, r, cam, det, run) \in StatusType
  BY DEF CountingOK, CountingType, StatusType, Build

LEMMA StatusesStep ==
  ASSUME ControlOK, FlagsOK, Counted, StatusesOK, [Next]_vars
  PROVE  StatusesOK'
  <1> DEFINE Status == StatusType \cup {NoStatus}
  <1>a. CountingOK(counting) /\ CountingOK(counting')
    BY CountedStep DEF Counted
  <1>b. /\ time \in 0..MaxTime /\ roi \in Rois /\ RoiInit \in Rois
        /\ running \in BOOLEAN /\ camera_ok \in BOOLEAN /\ detector_ok \in BOOLEAN
    BY ConstantTypes DEF ControlOK, FlagsOK
  <1>c. ASSUME NEW s \in StatusType, Refresh(s)
        PROVE  snapshot' \in Status /\ cached' \in Status
    BY <1>c DEF Refresh, StoreInRedis, StatusesOK
  <1>1. CASE Tick \/ StopFlag \/ Join
    BY <1>1 DEF Tick, StopFlag, Join, StatusesOK, status
  <1>2. CASE Boot
    <2>1. Build(NewCounting(time), RoiInit, FALSE, TRUE, FALSE) \in StatusType
      BY <1>b, BuildOK, NewCountingOK
    <2> QED
      BY <1>2, <1>c, <2>1 DEF Boot, StatusesOK
  <1>3. CASE StopRefresh
    <2>1. Build(counting, roi, FALSE, detector_ok, running) \in StatusType
      BY <1>a, <1>b, BuildOK
    <2> QED
      BY <1>3, <1>c, <2>1 DEF StopRefresh, StatusesOK
  <1>4. CASE ProcessEnds
    BY <1>4 DEF ProcessEnds, StatusesOK
  <1>5. ASSUME NEW r \in Rois, UpdateRoi(r)
        PROVE  StatusesOK'
    <2>1. Build(counting, r, camera_ok, detector_ok, running) \in StatusType
      BY <1>a, <1>b, BuildOK
    <2> QED
      BY <1>5, <1>c, <2>1 DEF UpdateRoi, StatusesOK
  <1>6. CASE WorkerBegin \/ WorkerOpen \/ WorkerExit
    BY <1>6 DEF WorkerBegin, WorkerOpen, WorkerExit, StatusesOK, status
  <1>7. CASE CameraGone \/ ReadFails \/ ReadFrame
    BY <1>7 DEF CameraGone, ReadFails, ReadFrame, TopOfLoop, StatusesOK, status
  <1>8. CASE Reopen \/ Detect \/ DetectRaises
    BY <1>8 DEF Reopen, Detect, DetectRaises, StatusesOK, status
  <1>9. CASE BuildUnlocked
    <2>1. Build(counting, roi, camera_ok, detector_ok, running) \in StatusType
      BY <1>a, <1>b, BuildOK
    <2> QED
      BY <1>9, <2>1 DEF BuildUnlocked, StatusesOK, status
  <1>10. CASE InstallUnlocked
    BY <1>10 DEF InstallUnlocked, StatusesOK
  <1>11. CASE StoreUnlocked
    BY <1>11 DEF StoreUnlocked, StoreInRedis, StatusesOK
  <1>12. CASE HandleException
    <2>1. Build(counting, roi, camera_ok, FALSE, running) \in StatusType
      BY <1>a, <1>b, BuildOK
    <2> QED
      BY <1>12, <1>c, <2>1 DEF HandleException, StatusesOK
  <1>13. CASE CountFrame
    <2>1. Build(counting', roi, camera_ok, detector_ok, running) \in StatusType
      BY <1>a, <1>b, BuildOK
    <2> QED
      BY <1>13, <1>c, <2>1 DEF CountFrame, StatusesOK
  <1>14. CASE UNCHANGED vars
    BY <1>14 DEF vars, StatusesOK, status
  <1> QED
    BY <1>1, <1>2, <1>3, <1>4, <1>5, <1>6, <1>7, <1>8, <1>9, <1>10, <1>11, <1>12,
       <1>13, <1>14 DEF Next, Worker, Stopping

LEMMA StatsStep ==
  ASSUME ControlOK, Counted, StatsOK, [Next]_vars
  PROVE  StatsOK'
  <1>1. CASE CountFrame
    <2> DEFINE row == [max |-> counting'.max, total |-> counting'.total]
    <2>1. time \in Never..MaxTime /\ Day(time) \in Days
      BY ConstantTypes, DayInDays DEF ControlOK, Never
    <2>2. row \in [max : Never..MaxPeople, total : Never..MaxTime]
      <3>1. CountingOK(counting')
        BY CountedStep DEF Counted
      <3>2. /\ counting'.max \in Never..MaxPeople
            /\ counting'.total \in Never..MaxTime
        BY <3>1, ConstantTypes DEF CountingOK, CountingType, Never
      <3> QED
        BY <3>2
    <2>3. \/ UNCHANGED stats
          \/ rows' = [rows EXCEPT ![Day(time)] = row] /\ lastSync' = time
      BY <1>1 DEF CountFrame, SyncDailyStat, Upsert, Row
    <2> HIDE DEF row
    <2> QED
      BY <2>1, <2>2, <2>3 DEF StatsOK, stats
  <1>2. CASE Boot \/ ProcessEnds
    <2>1. UNCHANGED rows /\ lastSync' = Never
      BY <1>2 DEF Boot, ProcessEnds
    <2>2. Never \in Never..MaxTime
      BY ConstantTypes DEF Never
    <2> QED
      BY <2>1, <2>2 DEF StatsOK
  <1>3. CASE Tick \/ StopFlag \/ Stopping
    BY <1>3 DEF Tick, StopFlag, Stopping, Join, StopRefresh, StatsOK, stats
  <1>4. CASE \E r \in Rois : UpdateRoi(r)
    BY <1>4 DEF UpdateRoi, StatsOK, stats
  <1>5. CASE WorkerBegin \/ WorkerOpen \/ WorkerExit
    BY <1>5 DEF WorkerBegin, WorkerOpen, WorkerExit, StatsOK, stats
  <1>6. CASE CameraGone \/ ReadFails \/ ReadFrame
    BY <1>6 DEF CameraGone, ReadFails, ReadFrame, TopOfLoop, StatsOK, stats
  <1>7. CASE Reopen \/ BuildUnlocked \/ InstallUnlocked \/ StoreUnlocked
    BY <1>7 DEF Reopen, BuildUnlocked, InstallUnlocked, StoreUnlocked, StatsOK, stats
  <1>8. CASE Detect \/ DetectRaises \/ HandleException
    BY <1>8 DEF Detect, DetectRaises, HandleException, StatsOK, stats
  <1>9. CASE UNCHANGED vars
    BY <1>9 DEF vars, StatsOK, stats
  <1> QED
    BY <1>1, <1>2, <1>3, <1>4, <1>5, <1>6, <1>7, <1>8, <1>9 DEF Next, Worker

-----------------------------------------------------------------------------
(* The accounting, for each kind of step. *)

(* What happens to the statistics in MySQL: nothing, the start or the end of a
   process, or a frame, which leaves them or writes the row of the day it is. *)
Synced == /\ rows' = [rows EXCEPT ![Day(time)] = Row(counting')]
          /\ lastSync' = time

LEMMA StatsOfSteps ==
  ASSUME [Next]_vars
  PROVE  \/ (Unmoved \/ DayReset) /\ UNCHANGED stats
         \/ Renewed /\ lastSync' = Never
         \/ Frame /\ (UNCHANGED stats \/ Synced)
  <1>1. CASE Tick
    BY <1>1 DEF Tick, Unmoved
  <1>2. CASE Boot \/ ProcessEnds
    BY <1>2 DEF Boot, ProcessEnds, Renewed
  <1>3. CASE StopFlag \/ Stopping
    BY <1>3 DEF StopFlag, Stopping, Join, StopRefresh, Unmoved
  <1>4. CASE \E r \in Rois : UpdateRoi(r)
    BY <1>4 DEF UpdateRoi, Unmoved
  <1>5. CASE WorkerBegin \/ WorkerOpen \/ WorkerExit
    BY <1>5 DEF WorkerBegin, WorkerOpen, WorkerExit, Unmoved
  <1>6. CASE CameraGone \/ ReadFails \/ ReadFrame
    BY <1>6 DEF CameraGone, ReadFails, ReadFrame, TopOfLoop, DayReset
  <1>7. CASE Reopen \/ BuildUnlocked \/ InstallUnlocked \/ StoreUnlocked
    BY <1>7 DEF Reopen, BuildUnlocked, InstallUnlocked, StoreUnlocked, Unmoved
  <1>8. CASE Detect \/ DetectRaises \/ HandleException
    BY <1>8 DEF Detect, DetectRaises, HandleException, Unmoved
  <1>9. CASE CountFrame
    BY <1>9 DEF CountFrame, Frame, SyncDailyStat, Upsert, Synced
  <1>10. CASE UNCHANGED vars
    BY <1>10 DEF vars, Unmoved
  <1> QED
    BY <1>1, <1>2, <1>3, <1>4, <1>5, <1>6, <1>7, <1>8, <1>9, <1>10 DEF Next, Worker

(* A frame adds the stay it ends, if any, to the total and to the sums. *)
LEMMA FrameTotals ==
  ASSUME NEW c, CountingOK(c), NEW s \in Seq(Events), NEW n \in 0..MaxPeople,
         NEW t \in 0..MaxTime, Stay(c, s, t),
         c.total = Totals(s, c.day)[Len(s)]
  PROVE  LET v == s \o Published(c, n, t)
         IN  /\ UpdateState(c, n, t).total = Totals(v, c.day)[Len(v)]
             /\ \/ v = s
                \/ \E e \in Events : e.at = t /\ v = Append(s, e)
  <1> DEFINE u == UpdateState(c, n, t)
             v == s \o Published(c, n, t)
             enter == [kind |-> "enter_region", at |-> t, day |-> c.day]
             leave == [kind |-> "leave_region", at |-> t, day |-> c.day]
  <1>1. /\ c.total \in Int /\ c.since \in Int /\ c.day \in Days /\ t \in Int
        /\ Len(s) \in Nat
    BY ConstantTypes DEF CountingOK, CountingType, Never
  <1>2. enter \in Events /\ leave \in Events
    BY <1>1 DEF Events, Kinds
  <1>3. /\ Enters(c, n) => u.total = c.total
        /\ Leaves(c, n, t) => u.total = c.total + (t - c.since)
        /\ ~Enters(c, n) /\ ~Leaves(c, n, t) => u.total = c.total
    BY FrameFields
  <1>4. ~(Enters(c, n) /\ Leaves(c, n, t))
    BY UpdateStateOutcomes
  <1> HIDE DEF u
  <1>5. CASE ~Enters(c, n) /\ ~Leaves(c, n, t)
    <2>1. v = s
      BY <1>5 DEF Published
    <2> QED
      BY <1>3, <1>5, <2>1 DEF u
  <1>6. CASE Enters(c, n)
    <2>1. v = Append(s, enter)
      BY <1>2, <1>6 DEF Published
    <2> HIDE DEF v
    <2>2. Len(v) = Len(s) + 1 /\ v[Len(v)] = enter
      BY <1>2, <2>1
    <2>3. StayTime(v, c.day, Len(v)) = 0
      BY <2>2 DEF StayTime
    <2> HIDE DEF enter
    <2>4. Totals(v, c.day)[Len(v)] = Totals(s, c.day)[Len(s)] + StayTime(v, c.day, Len(v))
      BY <1>2, <2>1, TotalsOfAppend, Zenon
    <2>5. u.total = Totals(v, c.day)[Len(v)]
      BY <1>1, <1>3, <1>6, <2>3, <2>4
    <2>6. enter.at = t
      BY DEF enter
    <2> QED
      BY <1>2, <2>1, <2>5, <2>6 DEF u, v
  <1>7. CASE Leaves(c, n, t)
    <2>1. v = Append(s, leave)
      BY <1>2, <1>4, <1>7 DEF Published
    <2> HIDE DEF v
    <2>2. c.occupied
      BY <1>7 DEF Leaves
    <2>3. s /= <<>> /\ s[Len(s)].at = c.since /\ Len(s) > 0
      BY <1>1, <2>2 DEF Stay
    <2>4. Len(v) = Len(s) + 1 /\ v[Len(v)] = leave /\ v[Len(s)] = s[Len(s)]
      BY <1>1, <1>2, <2>1, <2>3
    <2>5. StayTime(v, c.day, Len(v)) = t - c.since
      <3>1. Len(v) > 1 /\ Len(v) - 1 = Len(s)
        BY <1>1, <2>3, <2>4
      <3> QED
        BY <2>3, <2>4, <3>1 DEF StayTime
    <2> HIDE DEF leave
    <2>6. Totals(v, c.day)[Len(v)] = Totals(s, c.day)[Len(s)] + StayTime(v, c.day, Len(v))
      BY <1>2, <2>1, TotalsOfAppend, Zenon
    <2>7. u.total = Totals(v, c.day)[Len(v)]
      BY <1>1, <1>3, <1>7, <2>5, <2>6
    <2>8. leave.at = t
      BY DEF leave
    <2> QED
      BY <1>2, <2>1, <2>7, <2>8 DEF u, v
  <1> QED
    BY <1>5, <1>6, <1>7

LEMMA AccountedStep ==
  ASSUME ControlOK, Counted, Counted', List, StatsOK, Accounted, [Next]_vars
  PROVE  Accounted'
  <1> DEFINE c == counting
             s == emitted
             d == counting.day
  <1>1. /\ time \in 0..MaxTime /\ time \in Int /\ seen \in 0..MaxPeople
        /\ MaxTime \in Nat /\ Day(time) \in Days
    BY ConstantTypes, DayInDays DEF ControlOK
  <1>2. /\ CountingOK(c) /\ s \in Seq(Events) /\ Stay(c, s, time) /\ Outlast(s)
        /\ CountingOK(c') /\ s' \in Seq(Events) /\ Outlast(s')
    BY DEF Counted, EmittedOK
  <1>3. /\ rows \in [Days -> [max : Never..MaxPeople, total : Never..MaxTime]]
        /\ lastSync \in Int
    BY ConstantTypes DEF StatsOK, Never
  <1>5. CASE Unmoved /\ UNCHANGED stats
    <2>1. time <= time' /\ UNCHANGED <<counting, emitted, rows, lastSync>> /\ time' \in Int
      BY <1>1, <1>5 DEF Unmoved, stats
    <2>2. lastSync /= Never => lastSync <= time'
      BY <1>1, <1>3, <2>1 DEF Accounted
    <2> QED
      BY <2>1, <2>2 DEF Accounted
  <1>6. CASE Renewed /\ lastSync' = Never
    <2>1. c'.total = 0 /\ s' = <<>>
      BY <1>6 DEF Renewed, NewCounting
    <2>2. Totals(<<>>, d')[0] = 0
      BY TotalsOfNothing
    <2> QED
      BY <1>6, <2>1, <2>2 DEF Accounted
  <1>7. CASE DayReset /\ UNCHANGED stats
    <2>1. c' = ResetDaily(c, time) /\ UNCHANGED <<time, emitted, rows, lastSync>>
      BY <1>7 DEF DayReset, stats
    <2>2. CASE c' = c
      BY <2>1, <2>2 DEF Accounted
    <2>3. CASE c' /= c
      <3>1. c'.day /= c.day /\ c'.total = 0
        BY <1>1, <1>2, <2>1, <2>3, ResetDailyOK
      <3>2. c'.day = Day(time)
        <4>1. c.day /= Day(time)
          BY <2>1, <2>3 DEF ResetDaily
        <4> QED
          BY <1>2, <2>1, <4>1 DEF ResetDaily, CountingOK, CountingType
      <3>3. \A i \in 1..Len(s) : s[i].day /= d'
        <4>1. c.day <= Day(time) /\ \A i \in 1..Len(s) : s[i].day <= c.day
          BY DEF List, Dated
        <4>2. c.day \in Int /\ Day(time) \in Int
          BY <1>1, <1>2 DEF CountingOK, CountingType, Days
        <4>3. \A i \in 1..Len(s) : s[i].day \in Int
          <5>1. \A i \in 1..Len(s) : s[i] \in Events
            BY <1>2
          <5>2. Days \subseteq Int
            BY DEF Days
          <5> QED
            BY <5>1, <5>2 DEF Events
        <4> QED
          BY <3>1, <3>2, <4>1, <4>2, <4>3
      <3>4. \A k \in 0..Len(s) : Totals(s, d')[k] = 0
        BY <1>2, <3>3, TotalsOfNoDay
      <3>5. Len(s) \in 0..Len(s)
        BY <1>2
      <3>6. lastSync /= Never => lastSync <= time /\ rows[Day(lastSync)].total >= 0
        BY DEF Accounted
      <3> QED
        BY <2>1, <3>1, <3>4, <3>5, <3>6 DEF Accounted
    <2> QED
      BY <2>2, <2>3
  <1>8. CASE Frame /\ (UNCHANGED stats \/ Synced)
    <2> DEFINE v == s \o Published(c, seen, time)
    <2>1. c' = UpdateState(c, seen, time) /\ s' = v /\ time' = time
      BY <1>8 DEF Frame
    <2>2. c.total = Totals(s, d)[Len(s)]
      BY DEF Accounted
    <2>3. /\ UpdateState(c, seen, time).total = Totals(v, d)[Len(v)]
          /\ v = s \/ \E e \in Events : e.at = time /\ v = Append(s, e)
      BY <1>1, <1>2, <2>2, FrameTotals
    <2>4. UpdateState(c, seen, time).day = d
      BY <1>1, <1>2, FrameFields
    <2> HIDE DEF v
    <2>5. /\ c'.total = Totals(s', d')[Len(s')] /\ d' = d
          /\ s' = s \/ \E e \in Events : e.at = time /\ s' = Append(s, e)
      BY <2>1, <2>3, <2>4
    <2>6. CASE UNCHANGED stats
      <3>1. rows' = rows /\ lastSync' = lastSync
        BY <2>6 DEF stats
      <3>2. lastSync /= Never => lastSync <= time /\ rows[Day(lastSync)].total >= 0
        BY DEF Accounted
      <3>3. ASSUME lastSync /= Never, Day(lastSync) = d, NEW k \in 0..Len(s'),
                   \A i \in 1..k : s'[i].at < lastSync
            PROVE  rows[d].total >= Totals(s', d)[k]
        <4>1. \A j \in 0..Len(s) : (\A i \in 1..j : s[i].at < lastSync) =>
                rows[d].total >= Totals(s, d)[j]
          BY <3>3 DEF Accounted
        <4>2. CASE s' = s
          BY <3>3, <4>1, <4>2
        <4>3. ASSUME NEW e \in Events, e.at = time, s' = Append(s, e)
              PROVE  rows[d].total >= Totals(s', d)[k]
          <5>1. /\ Len(s) \in Nat /\ Len(s') = Len(s) + 1 /\ s'[Len(s')] = e
                /\ \A i \in 1..Len(s) : s'[i] = s[i]
            BY <1>2, <4>3
          <5>2. k /= Len(s')
            <6>1. k = Len(s') => e.at < lastSync
              BY <3>3, <5>1
            <6> QED
              BY <1>1, <1>3, <3>2, <3>3, <4>3, <6>1
          <5>3. k \in 0..Len(s)
            BY <5>1, <5>2
          <5>4. Totals(s', d)[k] = Totals(s, d)[k]
            BY <1>2, <4>3, <5>3, TotalsOfAppend, Zenon
          <5>5. \A i \in 1..k : s[i].at < lastSync
            BY <3>3, <5>1, <5>3
          <5> QED
            BY <4>1, <5>3, <5>4, <5>5
        <4> QED
          BY <2>5, <4>2, <4>3
      <3> QED
        BY <2>1, <2>5, <3>1, <3>2, <3>3 DEF Accounted
    <2>7. CASE Synced
      <3>1. /\ rows' = [rows EXCEPT ![Day(time)] = Row(c')] /\ lastSync' = time
        BY <2>7 DEF Synced
      <3>2. rows'[Day(time)].total = c'.total
        BY <1>1, <1>3, <3>1 DEF Row
      <3>3. c'.total \in Nat
        BY <1>2, ConstantTypes DEF CountingOK, CountingType
      <3>4. \A k \in 0..Len(s') : Totals(s', d')[k] <= c'.total
        BY <1>2, <2>5, TotalsRise
      <3>5. \A k \in 0..Len(s') : Totals(s', d')[k] \in Int
        BY <1>2, TotalsDef
      <3>6. \A k \in 0..Len(s') : c'.total >= Totals(s', d')[k]
        BY <3>3, <3>4, <3>5
      <3>7. lastSync' <= time' /\ rows'[Day(lastSync')].total >= 0
        BY <1>1, <2>1, <3>1, <3>2, <3>3
      <3> QED
        BY <2>1, <2>5, <3>1, <3>2, <3>6, <3>7 DEF Accounted
    <2> QED
      BY <1>8, <2>6, <2>7
  <1> QED
    BY <1>5, <1>6, <1>7, <1>8, StatsOfSteps

-----------------------------------------------------------------------------
(* Who changes what the snapshots show: only a frame, and it refreshes them. *)

LEMMA SnapshotShows ==
  ASSUME NEW r, NEW cam, NEW det, NEW run,
         Refresh(Build(counting', r, cam, det, run))
  PROVE  /\ Shows(snapshot)' /\ ("redis" \notin Faults => Shows(cached)')
         /\ snapshot' = Build(counting', r, cam, det, run)
  <1> DEFINE s == Build(counting', r, cam, det, run)
  <1>1. s.occupied = counting'.occupied /\ s.people = counting'.people
    BY DEF Build
  <1>2. snapshot' = s /\ ("redis" \notin Faults => cached' = s)
    BY DEF Refresh, StoreInRedis, Outcome
  <1> QED
    BY <1>1, <1>2 DEF Shows

LEMMA ShownStep ==
  ASSUME ControlOK, Counted, Shown, [Next]_vars
  PROVE  Shown'
  <1>1. CASE Boot
    BY <1>1, SnapshotShows DEF Boot, Shown
  <1>2. CASE CountFrame
    BY <1>2, SnapshotShows DEF CountFrame, Shown
  <1>3. CASE ProcessEnds
    BY <1>3 DEF ProcessEnds, Shown
  <1>4. CASE CameraGone \/ ReadFails \/ ReadFrame
    <2>1. /\ counting'.occupied = counting.occupied
          /\ counting'.people = counting.people
      <3>1. counting' = ResetDaily(counting, time) /\ time \in 0..MaxTime
        BY <1>4 DEF CameraGone, ReadFails, ReadFrame, TopOfLoop, ControlOK
      <3> QED
        BY <3>1, ResetDailyOK DEF Counted
    <2>2. UNCHANGED <<snapshot, cached, main>> /\ wpc' \in {"reopen", "detect"}
      BY <1>4 DEF CameraGone, ReadFails, ReadFrame, TopOfLoop, status
    <2> QED
      BY <2>1, <2>2 DEF Shown, Shows
  <1>5. CASE StopRefresh
    <2>1. UNCHANGED <<counting, wpc, built>>
      BY <1>5 DEF StopRefresh
    <2>2. Refresh(Build(counting', roi, FALSE, detector_ok, running))
      BY <1>5, <2>1 DEF StopRefresh
    <2> QED
      BY <2>1, <2>2, SnapshotShows DEF Shown, Shows
  <1>6. ASSUME NEW r \in Rois, UpdateRoi(r) PROVE Shown'
    <2>1. UNCHANGED <<counting, wpc, built>>
      BY <1>6 DEF UpdateRoi
    <2>2. Refresh(Build(counting', r, camera_ok, detector_ok, running))
      BY <1>6, <2>1 DEF UpdateRoi
    <2> QED
      BY <2>1, <2>2, SnapshotShows DEF Shown, Shows
  <1>7. CASE HandleException
    <2>1. UNCHANGED <<counting, built>> /\ wpc' = "top"
      BY <1>7 DEF HandleException
    <2>2. Refresh(Build(counting', roi, camera_ok, FALSE, running))
      BY <1>7, <2>1 DEF HandleException
    <2> QED
      BY <2>1, <2>2, SnapshotShows DEF Shown, Shows
  <1>8. CASE BuildUnlocked
    <2>1. UNCHANGED <<main, counting, snapshot, cached>>
      BY <1>8 DEF BuildUnlocked, status
    <2>2. built'.occupied = counting.occupied /\ built'.people = counting.people
      BY <1>8 DEF BuildUnlocked, Build
    <2> QED
      BY <2>1, <2>2 DEF Shown, Shows
  <1>9. CASE InstallUnlocked
    BY <1>9 DEF InstallUnlocked, Shown, Shows
  <1>10. CASE StoreUnlocked
    <2>1. "redis" \notin Faults => cached' \in {built, snapshot}
      BY <1>10 DEF StoreUnlocked, StoreInRedis, Outcome
    <2>2. wpc = "store" /\ wpc' = "top" /\ UNCHANGED <<main, counting, snapshot>>
      BY <1>10 DEF StoreUnlocked
    <2> QED
      BY <2>1, <2>2 DEF Shown, Shows
  <1>11. CASE Tick \/ StopFlag \/ Join
    BY <1>11 DEF Tick, StopFlag, Join, Shown, Shows, status
  <1>12. CASE WorkerBegin \/ WorkerOpen \/ WorkerExit
    BY <1>12 DEF WorkerBegin, WorkerOpen, WorkerExit, Shown, Shows, status
  <1>13. CASE Reopen \/ Detect \/ DetectRaises
    BY <1>13 DEF Reopen, Detect, DetectRaises, Shown, Shows, status
  <1>14. CASE UNCHANGED vars
    BY <1>14 DEF vars, Shown, Shows, status
  <1> QED
    BY <1>1, <1>2, <1>3, <1>4, <1>5, <1>6, <1>7, <1>8, <1>9, <1>10, <1>11, <1>12,
       <1>13, <1>14 DEF Next, Worker, Stopping

(* What a step of the thread does to what the threads know of each other: its own
   place, the flag, the ROI and the snapshots. *)
LEMMA WorkerMoves ==
  ASSUME Worker
  PROVE  /\ UNCHANGED <<main, roi>> /\ wpc \notin {"exited", "none"}
         /\ \/ /\ wpc = "begin" /\ wpc' = "open" /\ running' = TRUE
               /\ UNCHANGED <<built, snapshot>>
            \/ /\ wpc /= "begin" /\ UNCHANGED running
               /\ \/ /\ wpc = "open" /\ wpc' = "top" /\ UNCHANGED <<built, snapshot>>
                  \/ /\ wpc = "top" /\ ~running /\ wpc' = "exited"
                     /\ UNCHANGED <<built, snapshot>>
                  \/ /\ wpc = "top" /\ running /\ wpc' \in {"reopen", "detect"}
                     /\ UNCHANGED <<built, snapshot>>
                  \/ /\ wpc = "reopen" /\ wpc' = "build" /\ UNCHANGED <<built, snapshot>>
                  \/ /\ wpc = "build" /\ wpc' = "install" /\ UNCHANGED snapshot
                     /\ built' = Build(counting, roi, camera_ok, detector_ok, running)
                  \/ /\ wpc = "install" /\ wpc' = "store" /\ snapshot' = built
                     /\ UNCHANGED built
                  \/ /\ wpc = "store" /\ wpc' = "top" /\ UNCHANGED snapshot
                  \/ /\ wpc = "detect" /\ wpc' \in {"count", "raised"}
                     /\ UNCHANGED <<built, snapshot>>
                  \/ /\ wpc \in {"count", "raised"} /\ wpc' = "top" /\ UNCHANGED built
                     /\ \E c, det : snapshot' = Build(c, roi, camera_ok, det, running)
  <1>1. CASE WorkerBegin
    BY <1>1 DEF WorkerBegin, status
  <1>2. CASE WorkerOpen
    BY <1>2 DEF WorkerOpen, status
  <1>3. CASE WorkerExit
    BY <1>3 DEF WorkerExit, device, status
  <1>4. CASE CameraGone \/ ReadFails \/ ReadFrame
    BY <1>4 DEF CameraGone, ReadFails, ReadFrame, TopOfLoop, status
  <1>5. CASE Reopen
    BY <1>5 DEF Reopen, status
  <1>6. CASE BuildUnlocked
    BY <1>6 DEF BuildUnlocked, device, status
  <1>7. CASE InstallUnlocked
    BY <1>7 DEF InstallUnlocked, device
  <1>8. CASE StoreUnlocked
    BY <1>8 DEF StoreUnlocked, device
  <1>9. CASE Detect \/ DetectRaises
    BY <1>9 DEF Detect, DetectRaises, device, status
  <1>10. CASE HandleException
    BY <1>10 DEF HandleException, Refresh
  <1>11. CASE CountFrame
    BY <1>11 DEF CountFrame, Refresh, device
  <1> QED
    BY <1>1, <1>2, <1>3, <1>4, <1>5, <1>6, <1>7, <1>8, <1>9, <1>10, <1>11 DEF Worker

LEMMA WorkerPlaces ==
  ASSUME Worker
  PROVE  /\ wpc = "begin" => wpc' = "open"
         /\ wpc = "open" => wpc' = "top"
         /\ wpc = "top" => wpc' \in {"reopen", "detect", "exited"}
         /\ wpc = "reopen" => wpc' = "build"
         /\ wpc = "build" => wpc' = "install"
         /\ wpc = "install" => wpc' = "store"
         /\ wpc = "store" => wpc' = "top"
         /\ wpc = "detect" => wpc' \in {"count", "raised"}
         /\ wpc \in {"count", "raised"} => wpc' = "top"
         /\ wpc \in {"begin", "open", "top", "reopen", "build", "install", "store",
                    "detect", "count", "raised"}
  BY WorkerMoves

(* ... and what the other steps do to it. *)
LEMMA OtherMoves ==
  ASSUME [Next]_vars
  PROVE  \/ Worker
         \/ Tick \/ UNCHANGED vars
         \/ Boot \/ StopFlag \/ Join \/ StopRefresh \/ ProcessEnds
         \/ \E r \in Rois : UpdateRoi(r)
  BY DEF Next, Stopping

LEMMA ThreadsStep ==
  ASSUME ControlOK, FlagsOK, Threads, [Next]_vars
  PROVE  Threads'
  <1>1. CASE Boot \/ ProcessEnds
    <2>1. \/ wpc' = "begin" /\ main' = "serving"
          \/ wpc' = "none" /\ main' = "down"
      BY <1>1 DEF Boot, ProcessEnds
    <2> QED
      BY <2>1 DEF Threads
  <1>2. CASE StopFlag
    BY <1>2 DEF StopFlag, Threads
  <1>3. CASE Join
    BY <1>3 DEF Join, Threads, ControlOK, status
  <1>4. CASE StopRefresh
    <2>1. snapshot' = Build(counting, roi, FALSE, detector_ok, running)
      BY <1>4 DEF StopRefresh, Refresh
    <2>2. snapshot'.running = running /\ snapshot'.camera_ok = FALSE
      BY <2>1 DEF Build
    <2>3. /\ UNCHANGED <<wpc, running, cap, built>> /\ main \in {"joined", "timedout"}
          /\ main' = IF main = "joined" THEN "stopped" ELSE "leftover"
      BY <1>4 DEF StopRefresh
    <2> QED
      BY <2>2, <2>3 DEF Threads
  <1>5. CASE \E r \in Rois : UpdateRoi(r)
    <2>1. main = "serving" /\ UNCHANGED <<main, wpc, running, built>>
      BY <1>5 DEF UpdateRoi, device
    <2> QED
      BY <2>1 DEF Threads
  <1>6. CASE Tick
    BY <1>6 DEF Tick, Threads, device, status
  <1>7. CASE Worker
    <2>1. UNCHANGED main /\ wpc \notin {"exited", "none"}
      BY <1>7, WorkerMoves
    <2>4. wpc' = "exited" => ~running'
      BY <1>7, WorkerMoves, Zenon
    <2>5. wpc = "begin" \/ UNCHANGED running
      BY <1>7, WorkerMoves, Zenon
    <2>6. wpc = "begin" => running'
      BY <1>7, WorkerMoves, Zenon
    <2>2. /\ wpc' = "exited" => ~running'
          /\ main = "serving" => running' \/ wpc' = "begin"
      BY <2>4, <2>5, <2>6, Zenon DEF Threads
    <2>3. wpc' = "install" => built'.known
      <3>1. CASE wpc = "build"
        <4>1. built' = Build(counting, roi, camera_ok, detector_ok, running)
          BY <1>7, <3>1, WorkerMoves
        <4> QED
          BY <4>1 DEF Build
      <3>2. CASE wpc /= "build"
        BY <1>7, <3>2, WorkerMoves
      <3> QED
        BY <3>1, <3>2
    <2> QED
      BY <2>1, <2>2, <2>3 DEF Threads
  <1>8. CASE UNCHANGED vars
    BY <1>8 DEF vars, Threads, device, status
  <1> QED
    BY <1>1, <1>2, <1>3, <1>4, <1>5, <1>6, <1>7, <1>8, OtherMoves

-----------------------------------------------------------------------------
LEMMA InitIInv == Init => IInv
  <1> SUFFICES ASSUME Init PROVE IInv
    OBVIOUS
  <1>1. 0 \in 0..MaxTime /\ 0 \in 0..MaxPeople /\ Never \in Never..MaxTime
        /\ Never \in Never..MaxPeople
    BY ConstantTypes DEF Never
  <1>2. ControlOK
    BY <1>1, ConstantTypes DEF Init, ControlOK, MainPCs, WorkerPCs
  <1>3. FlagsOK
    BY Zenon DEF Init, FlagsOK
  <1>4. StatusesOK
    BY DEF Init, StatusesOK
  <1>5. StatsOK
    BY <1>1 DEF Init, StatsOK, NoRow
  <1>6. Counted
    <2>1. CountingOK(counting) /\ Stay(counting, <<>>, 0)
      BY <1>1, NewCountingOK DEF Init
    <2> QED
      BY <2>1 DEF Init, Counted, EmittedOK, Alternate, Outlast
  <1>7. Shown
    BY DEF Init, Shown
  <1>8. Threads
    BY DEF Init, Threads
  <1>9. List
    <2>1. counting.events = <<>> /\ counting.day = Day(0) /\ emitted = <<>> /\ time = 0
      BY DEF Init, NewCounting
    <2>2. Day(0) <= Day(0)
      BY <1>1, DayMonotone
    <2> QED
      BY <2>1, <2>2 DEF List, Listed, Dated
  <1>10. Accounted
    <2>1. counting.total = 0 /\ emitted = <<>> /\ lastSync = Never
      BY DEF Init, NewCounting
    <2>2. Totals(<<>>, counting.day)[0] = 0
      BY TotalsOfNothing
    <2> QED
      BY <2>1, <2>2 DEF Accounted
  <1> QED
    BY <1>2, <1>3, <1>4, <1>5, <1>6, <1>7, <1>8, <1>9, <1>10 DEF IInv

LEMMA StepIInv == IInv /\ [Next]_vars => IInv'
  BY ControlStep, FlagsStep, StatusesStep, StatsStep, CountedStep, ListStep, AccountedStep,
     ShownStep, ThreadsStep DEF IInv

-----------------------------------------------------------------------------
(* Every reachable state is well typed; in particular the total of the day stays
   within the clock, and the in-memory list within its length. *)
THEOREM TypeCorrect == Spec => []TypeOK
  <1>1. IInv => TypeOK
    BY TypeParts DEF IInv, Counted
  <1> QED
    BY <1>1, InitIInv, StepIInv, PTL DEF Spec

(* Enter and leave take turns among the events of a process (_update_state), so a
   stay is a leave event with the enter event before it. *)
THEOREM EventsAlternateAlways == Spec => []EventsAlternate
  <1>1. IInv => EventsAlternate
    BY DEF IInv, Counted, EventsAlternate
  <1> QED
    BY <1>1, InitIInv, StepIInv, PTL DEF Spec

(* No stay is shorter than leave_seconds, whatever the frames show. *)
THEOREM StaysOutlastGraceAlways == Spec => []StaysOutlastGrace
  <1>1. IInv => StaysOutlastGrace
    BY DEF IInv, Counted, Outlast, StaysOutlastGrace, Stays, Duration
  <1> QED
    BY <1>1, InitIInv, StepIInv, PTL DEF Spec

(* The total of the day is the sum of the day's stays, and its row in MySQL lacks none
   that ended before the last sync (_update_state, _reset_daily_if_needed,
   _sync_daily_stat_to_mysql), for stays of any number and length. *)
THEOREM StayAccountingAlways == Spec => []StayAccounting
  <1>1. IInv => StayAccounting
    BY DEF IInv, Accounted, StayAccounting
  <1> QED
    BY <1>1, InitIInv, StepIInv, PTL DEF Spec

(* The in-memory list is the newest events of the counter's day (_append_event,
   _reset_daily_if_needed), whenever midnight falls between two frames. *)
THEOREM EventsAreTodaysAlways == Spec => []EventsAreTodays
  <1>1. IInv => EventsAreTodays
    BY DEF IInv, List, Listed, EventsAreTodays
  <1> QED
    BY <1>1, InitIInv, StepIInv, PTL DEF Spec

(* The snapshot, and Redis while its SETs succeed, show the occupancy and the
   people the counter holds, in spite of the reconnect path's unlocked refresh. *)
THEOREM StatusFollowsOccupancyAlways == Spec => []StatusFollowsOccupancy
  <1>1. IInv => StatusFollowsOccupancy
    BY DEF IInv, Shown, Shows, StatusFollowsOccupancy
  <1> QED
    BY <1>1, InitIInv, StepIInv, PTL DEF Spec

(* A stop whose join returned because the thread was gone leaves the camera
   released and the snapshot saying so. *)
THEOREM CleanStopAlways == Spec => []CleanStop
  <1>1. IInv => CleanStop
    BY DEF IInv, Threads, CleanStop
  <1> QED
    BY <1>1, InitIInv, StepIInv, PTL DEF Spec

-----------------------------------------------------------------------------
(* Progress, without fairness: what brings the thread to its end, and the snapshot to
   the ROI, is never undone. *)

LEMMA StepsFrom ==
  /\ StepsToExit("reopen") = 5 /\ StepsToExit("build") = 4
  /\ StepsToExit("install") = 3 /\ StepsToExit("detect") = 3
  /\ StepsToExit("store") = 2 /\ StepsToExit("count") = 2
  /\ StepsToExit("raised") = 2 /\ StepsToExit("open") = 2
  /\ StepsToExit("top") = 1 /\ StepsToExit("exited") = 0
  /\ StepsToRefresh("begin") = 8 /\ StepsToRefresh("open") = 7
  /\ StepsToRefresh("store") = 7 /\ StepsToRefresh("top") = 6
  /\ StepsToRefresh("reopen") = 5 /\ StepsToRefresh("detect") = 5
  /\ StepsToRefresh("build") = 4 /\ StepsToRefresh("count") = 4
  /\ StepsToRefresh("raised") = 4 /\ StepsToRefresh("install") = 3
  <1>1. /\ StepsToExit("reopen") = 5 /\ StepsToExit("build") = 4
        /\ StepsToExit("install") = 3 /\ StepsToExit("detect") = 3
        /\ StepsToExit("store") = 2 /\ StepsToExit("count") = 2
        /\ StepsToExit("raised") = 2 /\ StepsToExit("open") = 2
        /\ StepsToExit("top") = 1 /\ StepsToExit("exited") = 0
    BY DEF StepsToExit
  <1>2. /\ StepsToRefresh("begin") = 8 /\ StepsToRefresh("open") = 7
        /\ StepsToRefresh("store") = 7 /\ StepsToRefresh("top") = 6
        /\ StepsToRefresh("reopen") = 5 /\ StepsToRefresh("detect") = 5
        /\ StepsToRefresh("build") = 4 /\ StepsToRefresh("count") = 4
        /\ StepsToRefresh("raised") = 4 /\ StepsToRefresh("install") = 3
    BY DEF StepsToRefresh
  <1> QED
    BY <1>1, <1>2

LEMMA StopAdvancesStep ==
  ASSUME Threads, [Next]_vars, ~running, wpc \notin {"begin", "none"}
  PROVE  ~running' /\ (wpc' \in {wpc, "none"} \/ StepsToExit(wpc') < StepsToExit(wpc))
  <1>1. CASE Worker
    <2>1. ~running'
      BY <1>1, WorkerMoves, Zenon
    <2>2. CASE wpc = "reopen"
      BY <1>1, <2>2, WorkerMoves, StepsFrom
    <2>3. CASE wpc = "build"
      BY <1>1, <2>3, WorkerMoves, StepsFrom
    <2>4. CASE wpc \in {"install", "detect"}
      BY <1>1, <2>1, <2>4, WorkerPlaces, StepsFrom
    <2>5. CASE wpc \in {"store", "count", "raised", "open"}
      BY <1>1, <2>1, <2>5, WorkerPlaces, StepsFrom
    <2>6. CASE wpc = "top"
      <3>1. wpc' = "exited"
        BY <1>1, <2>6, WorkerMoves, Zenon
      <3> QED
        BY <2>1, <2>6, <3>1, StepsFrom
    <2> QED
      BY <1>1, <2>1, <2>2, <2>3, <2>4, <2>5, <2>6, WorkerPlaces
  <1>2. CASE Tick \/ UNCHANGED vars
    BY <1>2 DEF Tick, vars, device
  <1>3. CASE Boot
    BY <1>3 DEF Boot, Threads
  <1>4. CASE StopFlag \/ Join \/ StopRefresh \/ ProcessEnds
    <2>1. CASE StopFlag
      BY <2>1, Zenon DEF StopFlag
    <2>2. CASE Join
      BY <2>2, Zenon DEF Join
    <2>3. CASE StopRefresh
      BY <2>3, Zenon DEF StopRefresh
    <2>4. CASE ProcessEnds
      BY <2>4 DEF ProcessEnds
    <2> QED
      BY <1>4, <2>1, <2>2, <2>3, <2>4
  <1>5. CASE \E r \in Rois : UpdateRoi(r)
    BY <1>5 DEF UpdateRoi, device
  <1> QED
    BY <1>1, <1>2, <1>3, <1>4, <1>5, OtherMoves

LEMMA RoiAdvancesStep ==
  ASSUME Threads, [Next]_vars, main = "serving", main' = "serving", roi' = roi,
         wpc \in WorkerPCs
  PROVE  /\ StepsToRoi' <= StepsToRoi
         /\ wpc' = wpc \/ StepsToRoi = 0 \/ StepsToRoi' < StepsToRoi
  <1> DEFINE shows == snapshot.known /\ snapshot.roi = roi
             older == wpc = "install" /\ built.roi /= roi
  <1>1. CASE Worker
    <2>1. CASE wpc \in {"begin", "open", "reopen", "detect", "store"}
      <3>1. ~older /\ ~older' /\ (shows' <=> shows)
        BY <1>1, <2>1, WorkerMoves
      <3> QED
        BY <1>1, <2>1, <3>1, WorkerPlaces, StepsFrom DEF StepsToRoi
    <2>2. CASE wpc = "top"
      <3>1. ~older /\ ~older' /\ (shows' <=> shows) /\ wpc' \in {"reopen", "detect"}
        BY <1>1, <2>2, WorkerMoves DEF Threads
      <3> QED
        BY <2>2, <3>1, StepsFrom DEF StepsToRoi
    <2>3. CASE wpc = "build"
      <3>1. built'.roi = roi
        <4>1. built' = Build(counting, roi, camera_ok, detector_ok, running)
          BY <1>1, <2>3, WorkerMoves
        <4> QED
          BY <4>1 DEF Build
      <3>2. ~older /\ ~older' /\ (shows' <=> shows) /\ wpc' = "install"
        BY <1>1, <2>3, <3>1, WorkerMoves
      <3> QED
        BY <2>3, <3>2, StepsFrom DEF StepsToRoi
    <2>4. CASE wpc = "install"
      <3>1. ~older' /\ wpc' = "store" /\ (shows' <=> ~older)
        BY <1>1, <2>4, WorkerMoves DEF Threads
      <3> QED
        BY <2>4, <3>1, StepsFrom DEF StepsToRoi
    <2>5. CASE wpc \in {"count", "raised"}
      <3>1. shows'
        <4>1. PICK c, det : snapshot' = Build(c, roi, camera_ok, det, running)
          BY <1>1, <2>5, WorkerMoves
        <4> QED
          BY <4>1 DEF Build
      <3>2. ~older /\ ~older' /\ wpc' = "top"
        BY <1>1, <2>5, WorkerMoves
      <3> QED
        BY <2>5, <3>1, <3>2, StepsFrom DEF StepsToRoi
    <2> QED
      BY <1>1, <2>1, <2>2, <2>3, <2>4, <2>5, WorkerMoves DEF WorkerPCs
  <1>2. ASSUME UNCHANGED <<wpc, built>>, shows' \/ (shows' <=> shows)
        PROVE  StepsToRoi' <= StepsToRoi /\ wpc' = wpc
    <2>1. (older' <=> older) /\ wpc' = wpc
      BY <1>2
    <2>2. CASE older
      <3>1. StepsToRoi = 8 /\ StepsToRoi' = 8
        BY <2>1, <2>2, Zenon DEF StepsToRoi
      <3> QED
        BY <2>1, <3>1
    <2>3. CASE ~older
      <3>1. /\ StepsToRoi = IF shows THEN 0 ELSE StepsToRefresh(wpc)
            /\ StepsToRoi' = IF shows' THEN 0 ELSE StepsToRefresh(wpc)
        BY <2>1, <2>3, Zenon DEF StepsToRoi
      <3>2. StepsToRefresh(wpc) \in Nat
        BY DEF StepsToRefresh
      <3> QED
        BY <1>2, <3>1, <3>2
    <2> QED
      BY <2>1, <2>2, <2>3
  <1>3. CASE Tick \/ UNCHANGED vars
    BY <1>2, <1>3 DEF Tick, vars, status
  <1>4. CASE Boot \/ StopFlag \/ Join \/ StopRefresh \/ ProcessEnds
    BY <1>4 DEF Boot, StopFlag, Join, StopRefresh, ProcessEnds
  <1>5. CASE \E r \in Rois : UpdateRoi(r)
    <2>1. PICK r \in Rois : UpdateRoi(r)
      BY <1>5
    <2>2. /\ snapshot' = Build(counting, r, camera_ok, detector_ok, running)
          /\ roi' = r /\ UNCHANGED <<wpc, built>>
      BY <2>1 DEF UpdateRoi, Refresh
    <2>3. shows'
      BY <2>2 DEF Build
    <2> QED
      BY <1>2, <2>2, <2>3
  <1> QED
    BY <1>1, <1>3, <1>4, <1>5, OtherMoves

(* Once running is FALSE the thread does not set it again (process_frame sets it only
   when it begins), and each of its steps brings it nearer to its end, whatever the
   devices and the other threads do: with StopIsObeyed's fairness, it ends. *)
THEOREM StopAdvancesAlways == Spec => StopAdvances
  <1>1. IInv /\ [Next]_vars =>
          [~running /\ wpc \notin {"begin", "none"} =>
             ~running' /\ (wpc' \in {wpc, "none"} \/ StepsToExit(wpc') < StepsToExit(wpc))]_vars
    BY StopAdvancesStep DEF IInv
  <1> QED
    BY <1>1, InitIInv, StepIInv, PTL DEF Spec, StopAdvances

(* While update_roi is not called with another ROI, each step of the thread brings the
   snapshot nearer to the ROI, in spite of the snapshot built before the change that the
   reconnect path may still install. *)
THEOREM RoiAdvancesAlways == Spec => RoiAdvances
  <1>1. IInv /\ [Next]_vars =>
          [main = "serving" /\ main' = "serving" /\ roi' = roi =>
             /\ StepsToRoi' <= StepsToRoi
             /\ wpc' = wpc \/ StepsToRoi = 0 \/ StepsToRoi' < StepsToRoi]_vars
    BY RoiAdvancesStep DEF IInv, ControlOK
  <1> QED
    BY <1>1, InitIInv, StepIInv, PTL DEF Spec, RoiAdvances

-----------------------------------------------------------------------------
(* Every step of the counter is a step of Occupancy, or none. *)
LEMMA OccupancyStep == IInv /\ [Next]_vars => [Occ!OccupancyNext]_Occ!occupancyVars
  <1> SUFFICES ASSUME IInv, [Next]_vars
               PROVE  Occ!OccupancyNext \/ UNCHANGED Occ!occupancyVars
    BY DEF Occ!occupancyVars
  <1>1. /\ time \in 0..MaxTime /\ seen \in 0..MaxPeople /\ CountingOK(counting)
        /\ emitted \in Seq(Events)
    BY DEF IInv, ControlOK, Counted, EmittedOK
  <1>2. Unmoved \/ Renewed \/ DayReset \/ Frame
    BY KindsOfSteps
  <1>3. CASE Unmoved
    BY <1>3 DEF Unmoved, Occ!OccupancyNext, Occ!Pass, Occ!occupancyVars
  <1>4. CASE Renewed
    <2>1. /\ counting'.occupied = FALSE /\ counting'.since = -1 /\ counting'.total = 0
          /\ emitted' = <<>> /\ UNCHANGED time
      BY <1>4 DEF Renewed, NewCounting, Never
    <2> QED
      BY <2>1 DEF Occ!OccupancyNext, Occ!Restart, Occ!Nobody
  <1>5. CASE DayReset
    <2> DEFINE c == ResetDaily(counting, time)
    <2>1. /\ c.occupied = counting.occupied /\ c.since = counting.since
          /\ \/ c = counting
             \/ c.day /= counting.day /\ c.total = 0
      BY <1>1, ResetDailyOK
    <2>2. counting' = c /\ UNCHANGED <<time, emitted>>
      BY <1>5 DEF DayReset
    <2> HIDE DEF c
    <2> QED
      BY <2>1, <2>2 DEF Occ!OccupancyNext, Occ!NewDay, Occ!occupancyVars
  <1>6. CASE Frame
    <2> DEFINE u == UpdateState(counting, seen, time)
    <2>1. /\ u.day = counting.day
          /\ Enters(counting, seen) =>
               u.occupied /\ u.since = time /\ u.total = counting.total
          /\ Leaves(counting, seen, time) =>
               /\ ~u.occupied /\ u.since = Never
               /\ u.total = counting.total + (time - counting.since)
          /\ ~Enters(counting, seen) /\ ~Leaves(counting, seen, time) =>
               /\ u.occupied = counting.occupied /\ u.since = counting.since
               /\ u.total = counting.total
      BY <1>1, FrameFields
    <2>2. /\ u.occupied \in BOOLEAN /\ counting.occupied \in BOOLEAN
      <3>1. CountingOK(u)
        BY <1>1, FrameCountingOK DEF IInv, Counted
      <3> QED
        BY <1>1, <3>1 DEF CountingOK, CountingType
    <2>3. ~(Enters(counting, seen) /\ Leaves(counting, seen, time))
      BY <1>1, UpdateStateOutcomes
    <2>4. counting' = u /\ UNCHANGED time
          /\ emitted' = emitted \o Published(counting, seen, time)
      BY <1>6 DEF Frame
    <2> HIDE DEF u
    <2>5. CASE Enters(counting, seen)
      <3>1. emitted' = Append(emitted, [kind |-> "enter_region", at |-> time,
                                        day |-> counting.day])
        BY <1>1, <2>4, <2>5 DEF Published
      <3>2. ~counting.occupied
        BY <2>5 DEF Enters
      <3> QED
        BY <2>1, <2>2, <2>4, <2>5, <3>1, <3>2
           DEF Occ!OccupancyNext, Occ!Enter, Occ!Publish
    <2>6. CASE Leaves(counting, seen, time)
      <3>1. emitted' = Append(emitted, [kind |-> "leave_region", at |-> time,
                                        day |-> counting.day])
        BY <1>1, <2>3, <2>4, <2>6 DEF Published
      <3>2. counting.occupied
        BY <2>6 DEF Leaves
      <3> QED
        BY <2>1, <2>2, <2>4, <2>6, <3>1, <3>2
           DEF Occ!OccupancyNext, Occ!Leave, Occ!Publish, Occ!Nobody, Never
    <2>7. CASE ~Enters(counting, seen) /\ ~Leaves(counting, seen, time)
      <3>1. UNCHANGED emitted
        BY <1>1, <2>4, <2>7 DEF Published
      <3> QED
        BY <2>1, <2>4, <2>7, <3>1 DEF Occ!occupancyVars
    <2> QED
      BY <2>5, <2>6, <2>7
  <1> QED
    BY <1>2, <1>3, <1>4, <1>5, <1>6

(* The counter keeps the promise of both counters (BaseCounter): what it publishes
   and adds up is what an Occupancy would. *)
THEOREM OccupancyImplemented == Spec => ImplementsOccupancy
  <1>1. Init => Occ!OccupancyInit
    <2>1. 0 \div DayLength = 0
      BY ConstantTypes
    <2> QED
      BY <2>1 DEF Init, NewCounting, Day, Never, Occ!OccupancyInit, Occ!Nobody
  <1> QED
    BY <1>1, InitIInv, StepIInv, OccupancyStep, PTL
       DEF Spec, ImplementsOccupancy, Occ!OccupancySpec
=============================================================================

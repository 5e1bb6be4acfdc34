---------------------------- MODULE MockCounter ----------------------------
(* The mock counter, app/runtime/mock_counter.py: one thread (_run_mock) plays
   a timeline of (duration, people) segments for ever instead of watching a
   camera.  Occupancy follows people > 0 without a grace period.

   The thread tests the flag and the segment's clock without the lock, then
   takes it for one beat: day reset, occupancy, statistics row, snapshot.  Time
   may pass within a beat, so the reset and the rest of the beat are two
   actions, and the lock is held in between (wpc = "beat").

   Time is a bounded clock; a day has DayLength ticks.  The in-memory list is
   handled as in PeopleCounter and left out here, like last_error, the display
   strings and camera_ok and detector_ok, which never change. *)
EXTENDS Integers, Sequences

CONSTANTS Timeline,         \* sequence of [length, people]
          Interval,         \* seconds between two beats
          SyncInterval,     \* settings.stat_sync_interval_sec
          DayLength,        \* ticks of a day
          MaxTime,          \* bound: ticks
          Rois, RoiInit,    \* the ROIs; the one in the settings
          Faults            \* which of "redis", "mysql" may fail

ASSUME MockAssumption ==
  /\ Timeline \in Seq([length : Nat \ {0}, people : Nat]) /\ Timeline /= <<>>
  /\ {Interval, DayLength} \subseteq Nat \ {0}
  /\ {SyncInterval, MaxTime} \subseteq Nat
  /\ RoiInit \in Rois
  /\ Faults \subseteq {"redis", "mysql"}

VARIABLES time,             \* the clock
          main,             \* the main thread, in lifespan and in stop
          wpc,              \* the worker thread, in _run_mock
          running, roi,
          segment, began,   \* position in the timeline and when it began
          wake,             \* end of the sleep
          counting,         \* the occupancy state and the day's statistics
          snapshot,         \* _status_snapshot
          cached,           \* Redis key occupancy:status
          rows,             \* table daily_stats, by day
          lastSync,         \* _last_stat_sync_at
          emitted           \* history: events of this process

play == <<segment, began, wake>>
status == <<snapshot, cached>>
stats == <<rows, lastSync>>
vars == <<time, main, wpc, running, roi, play, counting, status, stats, emitted>>

Never == -1
Day(t) == t \div DayLength
Days == 0..(MaxTime \div DayLength)
NoRow == [max |-> Never, total |-> Never]
NoStatus == [known |-> FALSE]
MainPCs == {"down", "serving", "joining", "joined", "timedout", "stopped",
            "leftover"}
WorkerPCs == {"none", "begin", "loop", "next", "while", "lock", "beat", "sleep",
              "exited"}

Outcome(component) == IF component \in Faults THEN BOOLEAN ELSE {TRUE}

-----------------------------------------------------------------------------
NewCounting(t) ==
  [people |-> 0, max |-> 0, total |-> 0, occupied |-> FALSE, since |-> Never,
   day |-> Day(t)]

ResetDaily(c, t) ==
  IF c.day = Day(t) THEN c
  ELSE [c EXCEPT !.day = Day(t), !.total = 0, !.max = 0]

\* Mutant: every beat with people restarts the stay.
SetPeopleRestartsStay(c, n, t) ==
  LET m == [c EXCEPT !.people = n, !.occupied = n > 0,
                     !.max = IF n > @ THEN n ELSE @]
  IN  IF n > 0 THEN [m EXCEPT !.since = t]
      ELSE IF c.occupied
             THEN [m EXCEPT !.total = @ + (t - c.since), !.since = Never]
             ELSE m

SetPeople(c, n, t) ==
  LET m == [c EXCEPT !.people = n, !.occupied = n > 0,
                     !.max = IF n > @ THEN n ELSE @]
  IN  CASE m.occupied /\ ~c.occupied -> [m EXCEPT !.since = t]
        [] ~m.occupied /\ c.occupied -> [m EXCEPT !.total = @ + (t - c.since),
                                                  !.since = Never]
        [] OTHER -> m

(* What _set_people publishes: an event when occupied changes. *)
Published(c, n, t) ==
  IF c.occupied = (n > 0) THEN <<>>
  ELSE <<[kind |-> IF n > 0 THEN "enter_region" ELSE "leave_region",
          at |-> t, day |-> c.day]>>

Build(c, r, run) ==
  [known |-> TRUE, occupied |-> c.occupied, people |-> c.people,
   max |-> c.max, total |-> c.total, roi |-> r, running |-> run]

(* A failing SET may or may not have reached Redis. *)
Refresh(s) == /\ snapshot' = s
              /\ \E ok \in Outcome("redis") :
                    cached' \in IF ok THEN {s} ELSE {s, cached}

Row(c) == [max |-> c.max, total |-> c.total]

Upsert(c) == rows' = [rows EXCEPT ![Day(time)] = Row(c)]

SyncDailyStat(c) ==
  IF lastSync /= Never /\ time - lastSync < SyncInterval
    THEN UNCHANGED stats
    ELSE \E ok \in Outcome("mysql") :
            IF ok THEN Upsert(c) /\ lastSync' = time ELSE UNCHANGED stats

-----------------------------------------------------------------------------
Init == /\ time = 0
        /\ main = "down" /\ wpc = "none"
        /\ running = FALSE
        /\ roi = RoiInit
        /\ segment = 1 /\ began = 0 /\ wake = 0
        /\ counting = NewCounting(0)
        /\ snapshot = NoStatus
        /\ cached = NoStatus
        /\ rows = [d \in Days |-> NoRow]
        /\ lastSync = Never
        /\ emitted = <<>>

Tick == /\ time < MaxTime
        /\ time' = time + 1
        /\ UNCHANGED <<main, wpc, running, roi, play, counting, status, stats,
                       emitted>>

\* Mutant: the lock is taken per call, not per beat.
LockNotHeld == TRUE

(* The worker holds the lock during a beat; everybody else waits for it. *)
LockFree == wpc /= "beat"

-----------------------------------------------------------------------------
(* The main thread. *)

(* Module import builds the counter, which refreshes its snapshot; lifespan
   then starts the worker thread. *)
Boot == /\ main = "down"
        /\ main' = "serving" /\ wpc' = "begin"
        /\ running' = FALSE
        /\ roi' = RoiInit
        /\ segment' = 1 /\ began' = 0 /\ wake' = 0
        /\ counting' = NewCounting(time)
        /\ Refresh(Build(NewCounting(time), RoiInit, FALSE))
        /\ lastSync' = Never /\ emitted' = <<>>
        /\ UNCHANGED <<time, rows>>

StopFlag == /\ main = "serving" /\ LockFree
            /\ main' = "joining"
            /\ running' = FALSE
            /\ UNCHANGED <<time, wpc, roi, play, counting, status, stats, emitted>>

(* join(timeout = 2.0); the sleep between two beats may be longer. *)
Join == /\ main = "joining"
        /\ main' = IF wpc = "exited" THEN "joined" ELSE "timedout"
        /\ UNCHANGED <<time, wpc, running, roi, play, counting, status, stats,
                       emitted>>

\* Mutant: stop leaves the last snapshot as it is.
StopNoRefresh == /\ main \in {"joined", "timedout"} /\ LockFree
                 /\ main' = IF main = "joined" THEN "stopped" ELSE "leftover"
                 /\ UNCHANGED <<time, wpc, running, roi, play, counting, status,
                                stats, emitted>>

StopRefresh == /\ main \in {"joined", "timedout"} /\ LockFree
               /\ main' = IF main = "joined" THEN "stopped" ELSE "leftover"
               /\ Refresh(Build(counting, roi, running))
               /\ UNCHANGED <<time, wpc, running, roi, play, counting, stats,
                              emitted>>

ProcessEnds == /\ main /= "down"
               /\ main' = "down" /\ wpc' = "none"
               /\ running' = FALSE
               /\ roi' = RoiInit
               /\ segment' = 1 /\ began' = 0 /\ wake' = 0
               /\ counting' = NewCounting(0)
               /\ snapshot' = NoStatus
               /\ lastSync' = Never /\ emitted' = <<>>
               /\ UNCHANGED <<time, cached, rows>>

(* API threads; reading has no effect. *)
UpdateRoi(r) == /\ main = "serving" /\ LockFree
                /\ roi' = r
                /\ Refresh(Build(counting, r, running))
                /\ UNCHANGED <<time, main, wpc, running, play, counting, stats,
                               emitted>>

-----------------------------------------------------------------------------
(* The worker thread. *)

WorkerBegin == /\ wpc = "begin"
               /\ running' = TRUE
               /\ wpc' = "loop"
               /\ UNCHANGED <<time, main, roi, play, counting, status, stats,
                              emitted>>

(* while self.running: play the timeline from its first segment. *)
OuterLoop == /\ wpc = "loop"
             /\ IF running THEN wpc' = "next" /\ segment' = 1
                           ELSE wpc' = "exited" /\ UNCHANGED segment
             /\ UNCHANGED <<time, main, running, roi, began, wake, counting,
                            status, stats, emitted>>

(* for duration, people in self.timeline. *)
NextSegment == /\ wpc = "next"
               /\ IF running /\ segment <= Len(Timeline)
                    THEN wpc' = "while" /\ began' = time
                    ELSE wpc' = "loop" /\ UNCHANGED began
               /\ UNCHANGED <<time, main, running, roi, segment, wake, counting,
                              status, stats, emitted>>

(* while running and the segment lasts. *)
PlaySegment ==
  /\ wpc = "while"
  /\ IF running /\ time - began < Timeline[segment].length
       THEN wpc' = "lock" /\ UNCHANGED segment
       ELSE wpc' = "next" /\ segment' = segment + 1
  /\ UNCHANGED <<time, main, running, roi, began, wake, counting, status,
                 stats, emitted>>

(* A beat, under the lock: the day reset and then, as time goes on, the rest. *)
BeatReset == /\ wpc = "lock"
             /\ counting' = ResetDaily(counting, time)
             /\ wpc' = "beat"
             /\ UNCHANGED <<time, main, running, roi, play, status, stats,
                            emitted>>

Beat == /\ wpc = "beat"
        /\ LET n == Timeline[segment].people
           IN  /\ counting' = SetPeople(counting, n, time)
               /\ emitted' = emitted \o Published(counting, n, time)
        /\ SyncDailyStat(counting')
        /\ Refresh(Build(counting', roi, running))
        /\ wake' = time + Interval
        /\ wpc' = "sleep"
        /\ UNCHANGED <<time, main, running, roi, segment, began>>

(* The sleep ends in time or late, or when the clock's bound is reached. *)
WakeUp == /\ wpc = "sleep"
          /\ time >= wake \/ time = MaxTime
          /\ wpc' = "while"
          /\ UNCHANGED <<time, main, running, roi, play, counting, status,
                         stats, emitted>>

Worker == \/ WorkerBegin \/ OuterLoop \/ NextSegment \/ PlaySegment
          \/ BeatReset \/ Beat \/ WakeUp

Stopping == Join \/ StopRefresh

Next == \/ Tick
        \/ Boot \/ StopFlag \/ Stopping \/ ProcessEnds
        \/ \E r \in Rois : UpdateRoi(r)
        \/ Worker

Spec == Init /\ [][Next]_vars

-----------------------------------------------------------------------------
Peaks == {0} \cup {Timeline[i].people : i \in DOMAIN Timeline}

CountingType == [people : Peaks, max : Peaks, total : 0..MaxTime,
                 occupied : BOOLEAN, since : Never..MaxTime, day : Days]

StatusType == [known : {TRUE}, occupied : BOOLEAN, people : Peaks,
               max : Peaks, total : 0..MaxTime, roi : Rois, running : BOOLEAN]

TypeOK == /\ time \in 0..MaxTime
          /\ main \in MainPCs /\ wpc \in WorkerPCs
          /\ running \in BOOLEAN /\ roi \in Rois
          /\ segment \in 1..(Len(Timeline) + 1)
          /\ began \in 0..MaxTime /\ wake \in 0..(MaxTime + Interval)
          /\ counting \in CountingType
          /\ {snapshot, cached} \subseteq StatusType \cup {NoStatus}
          /\ rows \in [Days -> [max : Peaks \cup {Never}, total : Never..MaxTime]]
          /\ lastSync \in Never..MaxTime
          /\ emitted \in Seq([kind : {"enter_region", "leave_region"},
                             at : 0..MaxTime, day : Days])

(* tests/test_cases/test_status_api.py, test_status_logic_basic: a status with
   nobody in the region is idle.  It holds for the mock, in the snapshot and in
   what any process left in Redis (the real counter's grace period breaks it).
   Nor does a status show more people than the maximum of the day, not even
   around midnight: the reset and the new maximum are written under one lock. *)
StatusConsistent ==
  \A s \in {snapshot, cached} :
     s.known => (s.occupied <=> s.people > 0) /\ s.people <= s.max

(* If stop's join returned because the thread was gone, the last snapshot is
   the final state of the counter and says that it does not run. *)
CleanStop ==
  main = "stopped" =>
    /\ wpc = "exited" /\ ~running
    /\ snapshot = Build(counting, roi, FALSE)

(* How many steps of its own the thread is from its end once running is FALSE. *)
StepsToExit(pc) ==
  CASE pc = "lock" -> 6
    [] pc = "beat" -> 5
    [] pc = "sleep" -> 4
    [] pc = "while" -> 3
    [] pc = "next" -> 2
    [] pc = "loop" -> 1
    [] OTHER -> 0

(* A thread that has begun does not set the flag again, and leaves the two loops for
   good: one beat at most is still to come, wherever in the timeline it is. *)
StopAdvances ==
  [][~running /\ wpc \notin {"begin", "none"} =>
       ~running' /\ (wpc' \in {wpc, "none"} \/ StepsToExit(wpc') < StepsToExit(wpc))]_vars

(* The mock makes the promise the real counter makes: enter and leave in turn,
   each stay added once and in full. *)
Occ == INSTANCE Occupancy WITH occupied <- counting.occupied,
                               since <- counting.since,
                               total <- counting.total,
                               day <- counting.day
ImplementsOccupancy == Occ!OccupancySpec
=============================================================================

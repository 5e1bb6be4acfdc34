--------------------------- MODULE PeopleCounter ---------------------------
(* The real counter, app/runtime/people_counter.py: one worker thread
   (process_frame) reads a camera and keeps the occupancy state, the statistics
   of the day, the status snapshot and its copy in Redis; the main thread
   starts and stops it; API threads read it and change its ROI.

   A section under the counter's lock is one action.  What the worker does
   outside the lock is split where another thread can see or disturb it: the
   day reset, reading the camera, detection, and the reconnect path's refresh,
   which builds, installs and stores the snapshot in three steps.

   Time is a bounded clock; a day has DayLength ticks.  last_error, the display
   strings and the frame itself are left out. *)
EXTENDS Integers, Sequences

CONSTANTS EnterFrames,      \* settings.enter_frames
          LeaveSeconds,     \* settings.leave_seconds
          SyncInterval,     \* settings.stat_sync_interval_sec
          EventsKept,       \* length of the in-memory list        (100)
          DayLength,        \* ticks of a day
          MaxPeople,        \* bound: people in the ROI
          MaxTime,          \* bound: ticks
          Rois, RoiInit,    \* the ROIs; the one in the settings
          Faults            \* which of "camera", "detector", "redis", "mysql"
                            \* may fail

ASSUME CounterAssumption ==
  /\ EnterFrames \in Nat \ {0}
  /\ {LeaveSeconds, SyncInterval, MaxPeople, MaxTime} \subseteq Nat
  /\ {EventsKept, DayLength} \subseteq Nat \ {0}
  /\ RoiInit \in Rois
  /\ Faults \subseteq {"camera", "detector", "redis", "mysql"}

VARIABLES time,             \* the clock
          main,             \* the main thread, in lifespan and in stop
          wpc,              \* the worker thread, in process_frame
          running, cap, camera_ok, detector_ok, roi,
          counting,         \* the occupancy state and the day's statistics
          seen,             \* people counted in the current frame
          built,            \* the snapshot the reconnect path has built
          snapshot,         \* _status_snapshot
          cached,           \* Redis key occupancy:status
          rows,             \* table daily_stats, by day
          lastSync,         \* _last_stat_sync_at
          emitted           \* history: events of this process, never trimmed

device == <<running, cap, camera_ok, detector_ok>>
status == <<snapshot, cached>>
stats == <<rows, lastSync>>
vars == <<time, main, wpc, device, roi, counting, seen, built, status,
          stats, emitted>>

Never == -1
Day(t) == t \div DayLength
Days == 0..(MaxTime \div DayLength)
NoRow == [max |-> Never, total |-> Never]
NoStatus == [known |-> FALSE]
MainPCs == {"down", "serving", "joining", "joined", "timedout", "stopped",
            "leftover"}
WorkerPCs == {"none", "begin", "open", "top", "reopen", "build", "install",
              "store", "detect", "count", "raised", "exited"}

(* Whether a call to an outside component succeeds. *)
Outcome(component) == IF component \in Faults THEN BOOLEAN ELSE {TRUE}

-----------------------------------------------------------------------------
(* The occupancy state: pure functions of the code. *)

NewCounting(t) ==
  [people |-> 0, max |-> 0, total |-> 0, occupied |-> FALSE, since |-> Never,
   lastSeen |-> Never, inside |-> 0, day |-> Day(t), events |-> <<>>]

\* Mutant: the list of the day is not emptied.
ResetDailyKeepsEvents(c, t) ==
  IF c.day = Day(t) THEN c
  ELSE [c EXCEPT !.day = Day(t), !.total = 0, !.max = 0]

\* Mutant: the stay is dropped with the day.
ResetDailyDropsStay(c, t) ==
  IF c.day = Day(t) THEN c
  ELSE [c EXCEPT !.day = Day(t), !.total = 0, !.max = 0, !.events = <<>>,
                 !.occupied = FALSE, !.since = Never]

ResetDaily(c, t) ==
  IF c.day = Day(t) THEN c
  ELSE [c EXCEPT !.day = Day(t), !.total = 0, !.max = 0, !.events = <<>>]

\* Mutant: the list is never cut.
Append100Uncut(s, e) == Append(s, e)
Append100(s, e) ==
  LET longer == Append(s, e)
  IN  IF Len(longer) <= EventsKept THEN longer ELSE Tail(longer)

Enters(c, n) == n > 0 /\ ~c.occupied /\ c.inside + 1 >= EnterFrames

\* Mutant: no grace period.
LeavesAtOnce(c, n, t) == n = 0 /\ c.occupied

Leaves(c, n, t) == /\ n = 0 /\ c.occupied /\ c.lastSeen /= Never
                   /\ t - c.lastSeen >= LeaveSeconds

(* What a frame without a transition does.  inside only matters below
   EnterFrames, so it saturates there. *)
Observe(c, n, t) ==
  LET m == [c EXCEPT !.people = n, !.max = IF n > @ THEN n ELSE @]
  IN  IF n > 0
        THEN [m EXCEPT !.lastSeen = t,
                       !.inside = IF @ < EnterFrames THEN @ + 1 ELSE @]
        ELSE [m EXCEPT !.inside = 0]

UpdateState(c, n, t) ==
  LET o == Observe(c, n, t)
  IN  CASE Enters(c, n) ->
             [o EXCEPT !.occupied = TRUE, !.since = t,
                       !.events = Append100(@, "enter_region")]
        [] Leaves(c, n, t) ->
             [o EXCEPT !.total = @ + (t - c.since),
                       !.occupied = FALSE, !.since = Never,
                       !.events = Append100(@, "leave_region")]
        [] OTHER -> o

(* Events the frame publishes: at most one. *)
Published(c, n, t) ==
  IF Enters(c, n) THEN <<[kind |-> "enter_region", at |-> t, day |-> c.day]>>
  ELSE IF Leaves(c, n, t)
         THEN <<[kind |-> "leave_region", at |-> t, day |-> c.day]>>
         ELSE <<>>

-----------------------------------------------------------------------------
(* _refresh_status_snapshot. *)

\* Mutant: the ROI of the settings is shown.
BuildInitialRoi(c, r, cam, det, run) ==
  [known |-> TRUE, occupied |-> c.occupied, people |-> c.people,
   max |-> c.max, total |-> c.total, roi |-> RoiInit,
   camera_ok |-> cam, detector_ok |-> det, running |-> run]

Build(c, r, cam, det, run) ==
  [known |-> TRUE, occupied |-> c.occupied, people |-> c.people,
   max |-> c.max, total |-> c.total, roi |-> r,
   camera_ok |-> cam, detector_ok |-> det, running |-> run]

(* Under the lock: build, install and store are not separated.  A failing SET
   may or may not have reached Redis. *)
StoreInRedis(s) == \E ok \in Outcome("redis") :
                      cached' \in IF ok THEN {s} ELSE {s, cached}

Refresh(s) == snapshot' = s /\ StoreInRedis(s)

(* _sync_daily_stat_to_mysql and upsert_today, which takes the date of the
   call and overwrites the row. *)
Row(c) == [max |-> c.max, total |-> c.total]

Upsert(c) == rows' = [rows EXCEPT ![Day(time)] = Row(c)]

\* Mutant: _last_stat_sync_at is set although the sync failed.
SyncDailyStatMarksFirst(c) ==
  IF lastSync /= Never /\ time - lastSync < SyncInterval
    THEN UNCHANGED stats
    ELSE \E ok \in Outcome("mysql") :
            lastSync' = time /\ IF ok THEN Upsert(c) ELSE UNCHANGED rows

SyncDailyStat(c) ==
  IF lastSync /= Never /\ time - lastSync < SyncInterval
    THEN UNCHANGED stats
    ELSE \E ok \in Outcome("mysql") :
            IF ok THEN Upsert(c) /\ lastSync' = time ELSE UNCHANGED stats

-----------------------------------------------------------------------------
Init == /\ time = 0
        /\ main = "down" /\ wpc = "none"
        /\ running = FALSE /\ cap = "none"
        /\ camera_ok = FALSE /\ detector_ok = FALSE
        /\ roi = RoiInit
        /\ counting = NewCounting(0)
        /\ seen = 0
        /\ built = NoStatus
        /\ snapshot = NoStatus
        /\ cached = NoStatus
        /\ rows = [d \in Days |-> NoRow]
        /\ lastSync = Never
        /\ emitted = <<>>

Tick == /\ time < MaxTime
        /\ time' = time + 1
        /\ UNCHANGED <<main, wpc, device, roi, counting, seen, built,
                       status, stats, emitted>>

-----------------------------------------------------------------------------
(* The main thread. *)

(* Module import builds the counter, which refreshes its snapshot; lifespan
   then starts the worker thread. *)
Boot == /\ main = "down"
        /\ main' = "serving" /\ wpc' = "begin"
        /\ running' = FALSE /\ cap' = "none"
        /\ camera_ok' = FALSE /\ detector_ok' = TRUE
        /\ roi' = RoiInit
        /\ counting' = NewCounting(time)
        /\ Refresh(Build(NewCounting(time), RoiInit, FALSE, TRUE, FALSE))
        /\ seen' = 0 /\ built' = NoStatus /\ emitted' = <<>>
        /\ lastSync' = Never
        /\ UNCHANGED <<time, rows>>

StopFlag == /\ main = "serving"
            /\ main' = "joining"
            /\ running' = FALSE
            /\ UNCHANGED <<time, wpc, cap, camera_ok, detector_ok, roi,
                           counting, seen, built, status, stats, emitted>>

\* Mutant: the capture is left to the thread.
JoinWithoutRelease == /\ main = "joining"
                      /\ main' = IF wpc = "exited" THEN "joined" ELSE "timedout"
                      /\ UNCHANGED <<time, wpc, device, roi, counting, seen,
                                     built, status, stats, emitted>>

(* join(timeout = 2.0), then the capture is released if it is open. *)
Join == /\ main = "joining"
        /\ main' = IF wpc = "exited" THEN "joined" ELSE "timedout"
        /\ cap' = IF cap = "open" THEN "closed" ELSE cap
        /\ UNCHANGED <<time, wpc, running, camera_ok, detector_ok, roi,
                       counting, seen, built, status, stats, emitted>>

StopRefresh == /\ main \in {"joined", "timedout"}
               /\ main' = IF main = "joined" THEN "stopped" ELSE "leftover"
               /\ camera_ok' = FALSE
               /\ Refresh(Build(counting, roi, FALSE, detector_ok, running))
               /\ UNCHANGED <<time, wpc, running, cap, detector_ok, roi,
                              counting, seen, built, stats, emitted>>

(* The process ends, after stop or without it. *)
ProcessEnds == /\ main /= "down"
               /\ main' = "down" /\ wpc' = "none"
               /\ running' = FALSE /\ cap' = "none"
               /\ camera_ok' = FALSE /\ detector_ok' = FALSE
               /\ roi' = RoiInit
               /\ counting' = NewCounting(0)
               /\ seen' = 0 /\ built' = NoStatus /\ snapshot' = NoStatus
               /\ lastSync' = Never /\ emitted' = <<>>
               /\ UNCHANGED <<time, cached, rows>>

-----------------------------------------------------------------------------
(* API threads; reading has no effect. *)

UpdateRoi(r) == /\ main = "serving"
                /\ roi' = r
                /\ Refresh(Build(counting, r, camera_ok, detector_ok, running))
                /\ UNCHANGED <<time, main, wpc, device, counting, seen,
                               built, stats, emitted>>

-----------------------------------------------------------------------------
(* The worker thread. *)

WorkerBegin == /\ wpc = "begin"
               /\ running' = TRUE
               /\ wpc' = "open"
               /\ UNCHANGED <<time, main, cap, camera_ok, detector_ok, roi,
                              counting, seen, built, status, stats, emitted>>

(* _open_capture; a capture that was open is released first. *)
OpenCapture == \E ok \in Outcome("camera") :
                  /\ cap' = IF ok THEN "open" ELSE "closed"
                  /\ camera_ok' = ok

WorkerOpen == /\ wpc = "open"
              /\ OpenCapture
              /\ wpc' = "top"
              /\ UNCHANGED <<time, main, running, detector_ok, roi,
                             counting, seen, built, status, stats, emitted>>

WorkerExit == /\ wpc = "top" /\ ~running
              /\ wpc' = "exited"
              /\ UNCHANGED <<time, main, device, roi, counting, seen, built,
                             status, stats, emitted>>

\* Mutant: reconnecting goes on whatever the flag says.
TopOfLoopWhileClosed == /\ wpc = "top" /\ (running \/ cap /= "open")
                        /\ counting' = ResetDaily(counting, time)
                        /\ UNCHANGED <<time, main, running, roi, seen, built,
                                       status, stats, emitted>>

(* Top of the loop: the day reset, without the lock, then the camera. *)
TopOfLoop == /\ wpc = "top" /\ running
             /\ counting' = ResetDaily(counting, time)
             /\ UNCHANGED <<time, main, running, roi, seen, built, status,
                            stats, emitted>>

CameraGone == /\ TopOfLoop /\ cap /= "open"
              /\ camera_ok' = FALSE
              /\ wpc' = "reopen"
              /\ UNCHANGED <<cap, detector_ok>>

ReadFails == /\ TopOfLoop /\ cap = "open" /\ FALSE \in Outcome("camera")
             /\ camera_ok' = FALSE
             /\ cap' = "closed"
             /\ wpc' = "reopen"
             /\ UNCHANGED detector_ok

ReadFrame == /\ TopOfLoop /\ cap = "open"
             /\ camera_ok' = TRUE /\ detector_ok' = TRUE
             /\ wpc' = "detect"
             /\ UNCHANGED cap

(* After the reconnect sleep: open again and refresh, without the lock. *)
Reopen == /\ wpc = "reopen"
          /\ OpenCapture
          /\ wpc' = "build"
          /\ UNCHANGED <<time, main, running, detector_ok, roi, counting,
                         seen, built, status, stats, emitted>>

BuildUnlocked == /\ wpc = "build"
                 /\ built' = Build(counting, roi, camera_ok, detector_ok, running)
                 /\ wpc' = "install"
                 /\ UNCHANGED <<time, main, device, roi, counting, seen,
                                status, stats, emitted>>

InstallUnlocked == /\ wpc = "install"
                   /\ snapshot' = built
                   /\ wpc' = "store"
                   /\ UNCHANGED <<time, main, device, roi, counting, seen,
                                  built, cached, stats, emitted>>

(* json.dumps reads self._status_snapshot after the assignment: what was installed, or
   what a locked section has put in its place since. *)
StoreUnlocked == /\ wpc = "store"
                 /\ \E s \in {built, snapshot} : StoreInRedis(s)
                 /\ built' = NoStatus
                 /\ wpc' = "top"
                 /\ UNCHANGED <<time, main, device, roi, counting, seen,
                                snapshot, stats, emitted>>

(* Tracking and counting boxes in the ROI, without the lock. *)
Detect == /\ wpc = "detect"
          /\ seen' \in 0..MaxPeople
          /\ wpc' = "count"
          /\ UNCHANGED <<time, main, device, roi, counting, built, status,
                         stats, emitted>>

DetectRaises == /\ wpc = "detect" /\ "detector" \in Faults
                /\ wpc' = "raised"
                /\ UNCHANGED <<time, main, device, roi, counting, seen,
                               built, status, stats, emitted>>

(* The except clause, under the lock. *)
HandleException ==
  /\ wpc = "raised"
  /\ detector_ok' = FALSE
  /\ Refresh(Build(counting, roi, camera_ok, FALSE, running))
  /\ wpc' = "top"
  /\ UNCHANGED <<time, main, running, cap, camera_ok, roi, counting,
                 seen, built, stats, emitted>>

\* Mutant: the snapshot is refreshed before the state is updated.
CountFrameRefreshFirst ==
  /\ wpc = "count"
  /\ counting' = UpdateState(counting, seen, time)
  /\ emitted' = emitted \o Published(counting, seen, time)
  /\ SyncDailyStat(counting')
  /\ Refresh(Build(counting, roi, camera_ok, detector_ok, running))
  /\ seen' = 0
  /\ wpc' = "top"
  /\ UNCHANGED <<time, main, device, roi, built>>

(* Update, sync and refresh, under the lock. *)
CountFrame ==
  /\ wpc = "count"
  /\ counting' = UpdateState(counting, seen, time)
  /\ emitted' = emitted \o Published(counting, seen, time)
  /\ SyncDailyStat(counting')
  /\ Refresh(Build(counting', roi, camera_ok, detector_ok, running))
  /\ seen' = 0
  /\ wpc' = "top"
  /\ UNCHANGED <<time, main, device, roi, built>>

Worker == \/ WorkerBegin \/ WorkerOpen \/ WorkerExit
          \/ CameraGone \/ ReadFails \/ ReadFrame
          \/ Reopen \/ BuildUnlocked \/ InstallUnlocked \/ StoreUnlocked
          \/ Detect \/ DetectRaises \/ HandleException \/ CountFrame

Stopping == Join \/ StopRefresh

Next == \/ Tick
        \/ Boot \/ StopFlag \/ Stopping \/ ProcessEnds
        \/ \E r \in Rois : UpdateRoi(r)
        \/ Worker

Spec == Init /\ [][Next]_vars

(* Threads are scheduled and calls return; join takes at most 2 s. *)
FairSpec == Spec /\ WF_vars(Worker) /\ WF_vars(Stopping)

-----------------------------------------------------------------------------
CountingType ==
  [people : 0..MaxPeople, max : 0..MaxPeople, total : 0..MaxTime,
   occupied : BOOLEAN, since : Never..MaxTime, lastSeen : Never..MaxTime,
   inside : 0..EnterFrames, day : Days,
   events : Seq({"enter_region", "leave_region"})]

StatusType ==
  [known : {TRUE}, occupied : BOOLEAN, people : 0..MaxPeople,
   max : 0..MaxPeople, total : 0..MaxTime, roi : Rois,
   camera_ok : BOOLEAN, detector_ok : BOOLEAN, running : BOOLEAN]

TypeOK == /\ time \in 0..MaxTime
          /\ main \in MainPCs /\ wpc \in WorkerPCs
          /\ {running, camera_ok, detector_ok} \subseteq BOOLEAN
          /\ cap \in {"none", "open", "closed"} /\ roi \in Rois
          /\ counting \in CountingType /\ Len(counting.events) <= EventsKept
          /\ seen \in 0..MaxPeople
          /\ {built, snapshot, cached} \subseteq StatusType \cup {NoStatus}
          /\ rows \in [Days -> [max : Never..MaxPeople, total : Never..MaxTime]]
          /\ lastSync \in Never..MaxTime
          /\ emitted \in Seq([kind : {"enter_region", "leave_region"},
                             at : 0..MaxTime, day : Days])

(* A stay is an enter event and the leave event after it. *)
Stays == {i \in 2..Len(emitted) : emitted[i].kind = "leave_region"}
Duration(i) == emitted[i].at - emitted[i - 1].at

(* The counter implements the promise the mock implements too. *)
Occ == INSTANCE Occupancy WITH occupied <- counting.occupied,
                               since <- counting.since,
                               total <- counting.total,
                               day <- counting.day
ImplementsOccupancy == Occ!OccupancySpec

(* No stay is shorter than leave_seconds, whatever the frames show: whoever
   entered was seen then, and leaving needs leave_seconds without anybody. *)
StaysOutlastGrace == \A i \in Stays : Duration(i) >= LeaveSeconds

(* What the stays of day d among the first k events of s took, for every k. *)
StayTime(s, d, k) ==
  IF k > 1 /\ s[k].kind = "leave_region" /\ s[k].day = d
    THEN s[k].at - s[k - 1].at ELSE 0

Totals(s, d) ==
  LET sum[k \in 0..Len(s)] == IF k = 0 THEN 0 ELSE sum[k - 1] + StayTime(s, d, k)
  IN  sum

(* today_total_occupied_sec is the sum of the stays that ended on the counter's
   day: each is added once, in full, however resets and frames interleave.  The
   row of that day lacks none that ended before its last sync, whatever the throttle
   skips, whichever syncs fail and when midnight falls. *)
StayAccounting ==
  LET n == Len(emitted)
      sum == Totals(emitted, counting.day)
  IN  /\ counting.total = sum[n]
      /\ lastSync /= Never /\ Day(lastSync) = counting.day =>
           \A k \in 0..n : (\A i \in 1..k : emitted[i].at < lastSync) =>
             rows[counting.day].total >= sum[k]

(* The in-memory list is the newest EventsKept events of the counter's day: nothing
   of another day, and none of this day missing but those that were cut. *)
EventsAreTodays ==
  LET n == Len(counting.events)
      older == Len(emitted) - n
  IN  /\ older >= 0
      /\ \A k \in 1..n : /\ emitted[older + k].day = counting.day
                        /\ counting.events[k] = emitted[older + k].kind
      /\ n < EventsKept => \A i \in 1..older : emitted[i].day /= counting.day

(* The snapshot, and Redis unless a SET failed, show the occupancy and the
   number of people the counter holds: both change under the lock only, and
   the refresh in the same section follows them.  Not even the reconnect
   path's unlocked refresh can bring older values back. *)
StatusFollowsOccupancy ==
  main /= "down" =>
    \A s \in {snapshot} \cup (IF "redis" \in Faults THEN {} ELSE {cached}) :
       s.occupied = counting.occupied /\ s.people = counting.people

(* If stop's join returned because the thread was gone, the camera is released
   and the last snapshot says so. *)
CleanStop ==
  main = "stopped" =>
    /\ cap /= "open" /\ ~running
    /\ ~snapshot.running /\ ~snapshot.camera_ok

(* A stop that comes after the thread has set the running flag ends it, even
   while the camera keeps failing.  (One that comes before is overwritten.) *)
StopIsObeyed ==
  main = "joining" /\ ~running /\ wpc /= "begin" ~> wpc \in {"exited", "none"}

(* A ROI that is no longer changed shows in the snapshot, and stays there, in
   spite of the snapshot the reconnect path may have built before. *)
RoiCatchesUp ==
  \A r \in Rois : <>[](main = "serving" /\ roi = r) => <>[](snapshot.known /\ snapshot.roi = r)

(* How many steps of its own the thread is from its end once running is FALSE, and
   from a snapshot with the present ROI (0: it shows it, and nothing older is about
   to be installed). *)
StepsToExit(pc) ==
  CASE pc = "reopen" -> 5
    [] pc = "build" -> 4
    [] pc \in {"install", "detect"} -> 3
    [] pc \in {"store", "count", "raised", "open"} -> 2
    [] pc = "top" -> 1
    [] OTHER -> 0

StepsToRefresh(pc) ==
  CASE pc = "begin" -> 8
    [] pc \in {"open", "store"} -> 7
    [] pc = "top" -> 6
    [] pc \in {"reopen", "detect"} -> 5
    [] pc \in {"build", "count", "raised"} -> 4
    [] OTHER -> 3

StepsToRoi ==
  IF wpc = "install" /\ built.roi /= roi THEN 8
  ELSE IF snapshot.known /\ snapshot.roi = roi THEN 0 ELSE StepsToRefresh(wpc)

(* A thread that has begun does not set the flag again, and whatever the camera, the
   detector and the other threads do, each step brings it nearer to its end: five at
   most. *)
StopAdvances ==
  [][~running /\ wpc \notin {"begin", "none"} =>
       ~running' /\ (wpc' \in {wpc, "none"} \/ StepsToExit(wpc') < StepsToExit(wpc))]_vars

(* While the ROI is left alone, each step of the thread brings the snapshot nearer to
   it, and nothing takes it back: eight steps at most. *)
RoiAdvances ==
  [][main = "serving" /\ main' = "serving" /\ roi' = roi =>
       /\ StepsToRoi' <= StepsToRoi
       /\ wpc' = wpc \/ StepsToRoi = 0 \/ StepsToRoi' < StepsToRoi]_vars
=============================================================================

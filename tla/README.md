# A formal model of the occupancy detection service

TLA+ modules for the service under `src/app` (FastAPI, a camera thread, a Redis
cache, a MySQL database), for its page in the browser (`src/frontend/app.js`) and for
the load ladders of its Jenkinsfile (`src/scripts`), the TLC configurations that check
them on small instances, and TLAPS proofs of their safety properties for every value
of the constants.

Contents: [the system](#1-the-system), [modules](#2-modules-and-how-they-correspond-to-the-code),
[runs](#3-what-the-runs-check), [bounds and fairness](#4-bounds-and-fairness),
[proofs](#5-what-is-proved), [findings](#6-what-was-found),
[what is left out](#7-what-is-not-modelled-and-why), [plan](#8-plan).

## 1. The system

One process serves HTTP, WebSocket and WebRTC. It holds a counter with a worker
thread, an event queue with a worker thread, and one thread per synchronous
request. Redis and MySQL outlive it.

```
 camera -> PeopleCounter / MockPeopleCounter --- put_nowait --> event_queue --> EventWorker
             |  lock, snapshot, events[100]                                      |       |
             |--> Redis occupancy:status      Redis occupancy:events <-- LPUSH --+       |
             |--> MySQL daily_stats           MySQL occupancy_events <-- INSERT ---------+
             ^
 PUT roi ----+--> MySQL monitor_regions       GET status/events: Redis first, else the counter
 auth, admin ----> MySQL app_users, Redis auth:session:*, auth:login_fail:*, auth:login_lock:*
 browser <------- /api/realtime (polls the counter), /api/webrtc-offer (frames of the counter)
```

| component | state | operations | hard behaviour | what makes it correct |
|---|---|---|---|---|
| Event pipeline (`event_bus`, `event_worker`, `event_service`, `event_repository`, `_append_event`) | in-memory list, bounded queue, Redis list, `occupancy_events` | publish, get, LPUSH, LTRIM, INSERT, start, stop | overflow, a call that raises after taking effect, a stop flag overwritten by the thread, a process that ends with messages in hand | history in order and at most once; the cache covers it; nothing lost without a cause; accepted events are decided |
| People counter (`people_counter.py`, `stat_repository.py`) | occupancy and the day's statistics under a lock, device flags, snapshot, its copy in Redis, `daily_stats` | frame, reconnect, exception path, day reset, sync, start, stop, `update_roi` | reconnect path outside the lock, join with a timeout, midnight between two steps, restarts | enter and leave alternate, no stay is added twice or in part, the list holds the day's events, a stopped counter is silent |
| Mock counter (`mock_counter.py`) | the same without devices, driven by a timeline | beat, segment, day reset, sync, start, stop, `update_roi` | beats across midnight, stop during a sleep | the same promise as the real counter, consistent statuses |
| Region configuration (`routes_admin`, `admin_service`, `region_repository`, `main`) | row of `monitor_regions`, the counter's ROI, the ROI in the Redis status | PUT roi, creation at start, restart | row lock, partial UPDATE, two commits applied in the other order, failures between commit and apply | the row is one whole submission; what is watched was stored; locks are released |
| Login limiter (`session_manager`, `routes_auth`) | failure counter and lock, both with an expiry | check, count, lock, clear | check and count are far apart; INCR and EXPIRE are two calls; two expiries | a bounded overshoot; a limit ends |
| Accounts and sessions (`auth_service`, `admin_service`, `security/auth`, `session_manager`, `user_repository`) | `app_users`, `auth:session:*` | register, login, logout, password, role, deletion, clean-up, bootstrap | each query in a database session of its own, with other requests in between; failures after commit; restarts | the bootstrap account stays; only the entitled replace or delete; errors have a cause |
| Reads (`monitoring_service`, `history_service`, status, events and history routes) | none | cache first, then the counter; one SELECT | a copy that is older than the counter | the page shows the current status in the end |
| Realtime stream (`routes_realtime`) | per socket: role, last status, last events | poll, compare, send, close | role read once; two reads per beat | the board never goes back to an older status |
| WebRTC (`routes_webrtc`, `video_track`, `video_frame_buffer`) | set `pcs`, one frame | offer, state change, close at shutdown | failures after `pcs.add`, tabs that vanish | answered connections leave `pcs` |
| Browser (`frontend/app.js`) | socket, timer, peer connection, flags | login, logout, restore, hydrate, reconnect, negotiate | promises and timers that end after a logout | one connection of each kind, none after a logout; stream and video come back |
| Load ladder (`Jenkinsfile`, `scripts/`) | stop flag, pid file, resource and result files | start, wait for, kill the monitor; two breakers | the flag is removed by the process it is meant for; late starts, crashes, aborts | no monitor outlives its stage; the load rises on passed stages only; the build ends |
| Configuration, schemas, tables, clients, logging | — | — | — | — |

`PROJECT.json` lists the same components with their sources and every hazard with
its line and the properties that cover it.

## 2. Modules and how they correspond to the code

Conventions: the names of variables and operators are the code's where TLA+ allows
it. One action is what one thread does without another being able to see the
middle: a section under the counter's lock, one statement or transaction of MySQL,
one Redis call, one callback. A call to Redis or MySQL may raise, and then it may
or may not have taken effect. Variables marked "history" in a module record the
past for the properties and never guard an action. Operators marked "Mutant" are
wrong variants of the definition after them; nothing refers to them. `PROJECT.json`
names for each property the variant that violates it, which shows that the property
depends on that piece of code.

**EventLog** is the abstract specification of the event path: events numbered as
published, some of them recorded, in order and at most once, none undecided for
ever.

**EventPipeline** is the path itself. `published` numbers the events, `memory` is
the counter's list of 100, `queue` is `event_queue`, `wpc`, `running` and `msg` are the thread of
`EventWorker._run`, `redis` and `db` its two stores. `Publish` is `_append_event`
with `put_nowait`, `PushOk`/`TrimOk`/`SaveOk` and the `...Raises` actions are the
three calls of `_handle_event`. `Publish` is possible while the process is stopping,
because `counter.stop` gives up after 2 s. The `task_done` count of the queue is
left out: nothing reads it.

**Occupancy** is what both counters promise: enter and leave in turn, each
published once, the day's total the sum of the stays that ended on it.

**PeopleCounter** is `people_counter.py`: `wpc` follows `process_frame`, `main` follows
`lifespan` and `stop`. `counting` is the state that `_update_state` works on,
`UpdateState`, `ResetDaily`, `SyncDailyStat` and `Refresh` are the methods of these
names. `CountFrame` is the one locked section per frame. The refresh of the reconnect path runs
without the lock, so it is split into `BuildUnlocked`, `InstallUnlocked` and
`StoreUnlocked`. Frames, overlay texts and `last_error` are left out.

**MockCounter** is `mock_counter.py`, with `BeatReset` and `Beat` for the two locked
calls of a beat and `WakeUp` for the end of its sleep.

**RoiConfig** is the update of the ROI from validation to response, beside the
worker that stores statuses and the start of a process, which takes the ROI of the
settings and leaves the row alone (`main.py:44-59`). A rectangle is reduced to one axis. `Written` is the
UPDATE of the object mapper: only the columns that differ from the row the request
has loaded; `Commit` releases the row, `Apply` comes after it.

**LoginLimiter** is one pair of client and user name: `count`/`ttl` and `lock` are the
two keys with the seconds they have left, so the clock needs no bound. `pc` follows a
login through `get_fail_state`, the verification, `register_login_failure` and
`clear_login_failures`.

**Accounts** is the rest of `routes_auth` and the user part of `routes_admin`: the
rows of `app_users` with their ids, the sessions in Redis, and for each thread the
request it serves, the step it is at, who it is authenticated as and which row it has
written. A stored hash is represented by the password it verifies; `is_active` is
left out, as no code clears it.

**Dashboard** is one browser tab with what it talks to: `app.js`, the realtime stream,
`GET /api/status` and the WebRTC offers. A tab runs one callback at a time, so a
callback, or what an `async` function does between two awaits, is one action;
`hydrates` and `calls` hold the promises that are under way, those of earlier logins
included. A status is its age: `now` is the counter's, `cached` the copy in Redis,
`wire` what is on its way to the socket, `shown` what is on the board. The stream
compares and sends once a second, and every status carries the second it was taken in
(`people_counter.py:448`), so it sends each time. The server part is `pcs` and, as
`stuck`, the connections whose offer raised after `pcs.add`.

**LoadLadder** is a build: `pc` and `script` follow the Jenkinsfile and
`stop_monitor.ps1`, `mon` the process `monitor_resources.py`, and `flag`, `pidFile`,
`file`, `jtl` are the files they share. The two breakers are operators over a result
file, reduced to the number of its samples, slow ones and failed ones, and a set of
resource rows. Interpolation and rounding of `check_jmeter_breaker.py` are computed as
there, in hundredths.

The modules share no variables: the parts interact through what one of them
assumes of the others. `Publish` of EventPipeline is what the counters do when
their `emitted` grows; `RefreshStatus` of RoiConfig is `Refresh` of the counter, and
so is `StatusChanges` of Dashboard; a login of Accounts is a login that LoginLimiter
has let through, and one of Dashboard is one that Accounts has answered. `MC*.tla` and
the `.cfg` files beside them are the instances.

## 3. What the runs check

Sizes are distinct states; every run takes less than two minutes. Properties that a
theorem establishes and that say little more on a small instance are left out of the
runs: the type invariants that bound no container (mock, roi, limiter, accounts,
ladder), and those named in section 5 only.

**pipeline** (MCEventPipeline, 21,000): queue, cache and memory of two places, five
events, every call may raise, crash and restart at any moment. `TypeOK` also bounds the
three containers. `CacheCoversHistory`: a row is missing from Redis only because newer
events pushed it out. `UndisturbedIsComplete`: without overflow, exception or untimely
end nothing is lost. `ImplementsEventLog`: with failures too, the path records each
event at most once and in order and leaves none undecided; the fairness of EventLog is
included. `PendingAdvances`: whatever the stores answer, each step of the worker brings
the oldest undecided event nearer to its verdict. (`HistoryInOrder`, `CacheInOrder` and
`MemoryIsNewest` are proved, section 5.)

**counter_day** (MCPeopleCounter, 3.4 million): two days of four ticks, restarts, MySQL
failing. `StaysOutlastGrace`: no stay, from its enter event to its leave event, is shorter than
`leave_seconds`; `StayAccounting`: the total of the day is the sum of the published stays, and the row of
the day lacks none that ended before its last sync; `EventsAreTodays`: the list is the
newest events of this day; `ImplementsOccupancy`.

**counter_threads** (153,000): worker, `stop`, `update_roi`, camera and detector
failures in every order. `StatusFollowsOccupancy`: what the snapshot and the key in
Redis say of occupancy is what the counter says; `CleanStop`: a join that did not time
out leaves a silent counter with a final snapshot; `StopIsObeyed`: a stop after the
thread has set its flag ends it; `RoiCatchesUp`: a new ROI shows in the snapshot for
good.

**mock** (612,000): the same questions for the mock over two short days, and that its
statuses are consistent (`StatusConsistent`), which the real counter does not promise
during the grace period.

**roi** (73,000): three overlapping updates, any statement failing, the process ending.
`RegionIsASubmission`: never a mixture of two; `AppliedWasSaved`: nothing is watched or
shown before it is committed; `ServesUnlessOvertaken`: whenever no update is between COMMIT and
`update_roi`, a process watches the ROI of the settings until its first stored update,
whatever earlier processes have left in the row, and the stored ROI from then on, until
one update overtakes another or is lost there, which is what `ServesStoredRoi` fails on;
`RowIsReleased` (liveness).
**roi_serial** (violation): section 6.

**limiter** (72,000): three overlapping logins, window longer than lock, any of them
aborted. `OvershootBounded`: at most one failure more than the limit for each login
under way; `LimitNotProlonged`: no login that comes after the limit was reached sets the
expiry again. `LimitEnds`: a limit that was reached ends, however many logins are tried.
**limiter_lock** (violation): section 6.

**accounts** (2.7 million): two overlapping requests of any kind about two accounts.
`BootstrapStays`: the bootstrap account is the same row for ever.
`ErrorsNeedADisturbance`: a request is answered by an unhandled exception only after a
failing call, the end of the process or the creation or deletion of its account by
another request. `DeletedByAnotherAdmin` and `ReplacedByTheEntitled`: which requests may
remove or change a row, although the check and the change are separate statements.
**accounts_register** (violation): section 6.

**dashboard** (524,000): two logins, two logouts, reloads or clicks, one failure of any
kind anywhere (a lost socket, a failing offer, a failing hydrate, a lost session, a
restart of the server, a SET that fails), answers in any order. `LoggedOutIsQuiet`: a
tab that is logged out has no socket, no timer and no video, whatever answers late.
`OneNegotiation`: one negotiation at a time, about the connection the tab has, unless
one has outlived a logout. `FlagsAreBacked`: the two flags that keep a new negotiation
from starting are set only while one is in flight, or a video plays, about the tab's
connection, through every overlap. `StreamIsKept`: a login that has connected has a
socket or a timer that will open one. `StatusNeverGoesBack`: the board never shows an
older status after a newer one. It needs that nothing of an earlier login was still
loading or connected when this one began (`lone`). `ScreenCatchesUp`: a login that stays
shows the current status in the end, also if the late answer of an earlier one has
overwritten it. `VideoSettles`: its video comes back after every loss. It needs
`[]<>(~overlapped)`: two negotiations of different logins can go on closing each other's
connections, since the catch clause (`app.js:468-476`) resets whatever connection the
tab has by then. `PeersReleased`: the server forgets the answered connections of a tab
that has logged out.

**ladder** (29,000): two ladders of two plans and one, a monitor that may be late, crash
or never answer, JMeter and file errors, aborts at any step. `MonitorEndsWithStage`: no
monitor outlives its stage, except one whose start an abort has hit before its pid was
written, or in the last stop of the build. `LoadRisesOnPass`: the next plan starts only
after a stage whose exact figures meet every limit, whatever rounding and interpolation
make of them. `BuildEnds` (liveness).

## 4. Bounds and fairness

* Counters. Two places per container and five events overflow each of them and
  leave an event in the middle. Two days of four ticks hold stays within a day, over
  midnight and, with a grace of two, two entries a day. `MaxTime`, `MaxEvents`, `MaxRows` cap
  clock, events and inserted rows, as guards of the actions that raise them; runs end
  only where the bound does, and deadlock is checked in all runs but `dashboard` and
  `ladder`.
* Threads. Three logins and three ROI updates suffice for two to overlap while a
  third comes between; two requests of Accounts already interleave every pair of
  operations. Requests are symmetric in Accounts, where no liveness is checked.
* Dashboard: two logins are one with leftovers of another, and two peer connections
  one negotiation that meets another; one failure is enough since each kind can come at
  every moment, and three logins were checked for the safety properties (5.3 million).
  `MaxClicks` and `MaxFaults` end a run where no user does anything any more and
  nothing fails, which is where the liveness properties speak; a tab that nobody touches
  stops, so deadlock is not checked in this run.
* LoadLadder: two plans and a second ladder are one step up and one change of scenario;
  two faults combine any two of a crash, a failing step and an abort; the ten results lie
  on both sides of 20 samples, 1 % and 1000 ms, at counts where the 95th percentile
  falls on a sample and between two. The build ends, so deadlock is not checked here.
* The ROIs of MCRoiConfig have no bound in common, so that a mixture is neither of
  them and may be empty, and one of them shares a bound with the settings.
* The wall clock does not go back, `lifespan` starts and stops once per process.

Fairness, always weak unless said otherwise, and only where a property needs it:

* EventPipeline: the worker thread, since a runnable thread is scheduled and every
  call to a store returns or raises; the exit of a stopping process, since `join` has a timeout.
  Publishing, stopping and crashing are not fair.
* PeopleCounter: the worker and the steps of `stop`. Nothing forces a stop or a frame with
  people. The mock is checked for safety only, without fairness.
* RoiConfig: start and refresh; the steps of a request strongly, because the row
  lock is granted and taken in turn and InnoDB queues those who wait for it.
* LoginLimiter: time passes and a login that has begun goes on; no login need begin.
* Dashboard: answers arrive, timers fire, the stream polls, a lost connection is
  noticed by both sides (ICE consent). Logins, logouts, clicks and failures are not fair.
* LoadLadder: the steps of the build, since JMeter has a duration and the scripts wait with
  a limit. Nothing is assumed of the monitor: it may never look at the flag.

## 5. What is proved

Each proof module EXTENDS the module it is about. All constants are arbitrary within the
ASSUMEs of the modules; there is no bound on requests, capacities or events.

**EventPipelineProofs.** `TypeCorrect`, `HistoryInOrderAlways`, `CacheInOrderAlways`,
`CacheCoversHistoryAlways`, `MemoryIsNewestAlways` follow from one inductive invariant.
None of them is inductive alone, since the next INSERT could be of any message: the
invariant chains the places an event passes through. `QueueOrder`: the queue is
increasing, below `published` and above the message in hand. `HistoryOrder`: the history
ends below that message. `CacheOrder`: the list is decreasing and headed by the message
in hand once it has been pushed. `UndisturbedIsCompleteAlways` adds that a process that
is down holds nothing. `PipelineImplementsLog` shows that every step is a step of
EventLog or a stutter; its fairness is left to the run. `PendingAdvancesAlways` and
`StopAdvancesAlways` (a worker told to stop ends in five of its own steps, however long
the queue is) are about single steps: the ranks `StepsToVerdict` and `StepsToExit` fall
with each step of the worker, which the queue order makes a statement about the oldest
event.

**RoiConfigProofs.** `RegionIsASubmissionAlways`, `AppliedWasSavedAlways`,
`NowhereEmptyAlways` and `TypeCorrect`. The UPDATE writes only changed columns, so the
result is the request's ROI only if what it has loaded is still the row; the invariant
says that this is so for whoever holds the lock, and that a request past its commit is
in `saved`. `NowhereEmptyAlways` assumes that the settings are a valid rectangle, which
nothing in the code checks. `ServesUnlessOvertakenAlways` says what is left of
`ServesStoredRoi`: from a process's first stored update on its counter watches the row,
before that the settings. Its invariant `OnItsWay` (at most one update is between COMMIT
and `update_roi`, it carries the stored ROI, and this process has stored it) ends only
where one update overtakes another or is lost. `RowIsHandedOnAlways` (nobody writes a
row that a request holds, and the next thing the holder does or meets gives it back)
needs that the holder is the one request between its UPDATE and its COMMIT
(`HolderIsWriting`).

**LoginLimiterProofs.** `TypeCorrect` and `OvershootBoundedAlways`, for any finite set
of requests. The invariant is that the failures counted and the logins that were
admitted and have not counted theirs yet stay below the limit plus the number of
requests. `WindowWillOpenAlways` (unless a login was aborted, a counter without expiry
is about to be given one) needs nothing else: the INCR that makes the counter 1 is
followed by the EXPIRE of the same login, which only its abort can take away.
`LimitNotProlongedAlways` says that beyond the limit `Opening` only shrinks.

**AccountsProofs.** `TypeCorrect`, `BootstrapStaysAlways`,
`DeletedByAnotherAdminAlways`, `ReplacedByTheEntitledAlways`,
`ErrorsNeedADisturbanceAlways`, for any number of requests, names, tokens and rows.
`Fits` says that each step belongs to its kinds of request, so that what the step reads
from the request is there, and that whoever acts was granted; `DownIsIdle` that a
process that is down serves no request, without which a start could meet a table that
requests have filled. For errors, `Steady`: a request that nothing has disturbed finds
the account it is about as its earlier steps have seen or left it. One lemma
(`SteadyStep`) shows that a step keeps this for every other request, given that accounts
change only where `Becomes` marks the requests about them.

**PeopleCounterProofs.** `TypeCorrect`, `EventsAlternateAlways`,
`StaysOutlastGraceAlways`, `EventsAreTodaysAlways`, `StatusFollowsOccupancyAlways`,
`CleanStopAlways`, `StayAccountingAlways`, `StopAdvancesAlways`, `RoiAdvancesAlways` and
`OccupancyImplemented`, for any settings and day length. The invariant adds `Stay`,
which ties the occupancy state to the last event (an occupied counter's last event is
the enter at `occupied_since`, and the total fits before it); `List`, which says that
the days of the events do not decrease, so that the list of the day is the end of them;
`Shown`, that the snapshot the reconnect path has built without the lock still shows the
occupancy when it is installed, since only the same thread changes it; and `Threads`.
The implementation of Occupancy needs `Stay`, too: a stay is added in full because
`since` is the time of the last event. `StayAccountingAlways` speaks of the sum of all
stays, a recursive function of the event list. The induction theorems of the library
cannot be instantiated here, but the least-number principle can: it is a statement about
a set (`LeastNumber`, from `WFMin`), and `UpTo` is the induction it gives. With it,
appending an event changes no earlier sum, and the sums never fall, which ties the row
of the day to the sums at its last sync. The thread's part of the stop and of a new ROI
is a rank that falls with each of its steps (five to its end, eight to the snapshot);
`Threads` holds what they need of the thread that has ended.

**MockCounterProofs.** The same for the mock, for any timeline: `TypeCorrect`,
`StatusConsistentAlways`, `CleanStopAlways`, `StopAdvancesAlways`,
`OccupancyImplemented`. `StopAdvances` follows the thread through both loops of the
timeline: one beat at most is still to come. `Peaked` (nobody above the maximum) holds
except in the middle of a beat, which is what the lock hides.

**DashboardProofs.** `TypeCorrect`, `LoggedOutIsQuietAlways`, `OneNegotiationAlways`,
`FlagsAreBackedAlways`, `StreamIsKeptAlways`, `StatusNeverGoesBackAlways`, for any
number of logins, clicks, failures and peer connections. The kinds of steps of the video
and of the stream are two lemmas that the first four proofs share. For the last one,
`Ordered` says that what is on the wire is in order and not ahead of the counter,
`OwnHydrate` that while the login's own answer is still loading the board is blank and
the socket closed, and `Onward` that nothing on the wire is older than the board. That
`lone` must speak of the socket and the timer as well was found here: with three logins
a socket of the first could carry a status to the third.

**LoadLadderProofs.** `TypeCorrect`, `MonitorEndsWithStageAlways`,
`LoadRisesOnPassAlways`, `BuildAdvancesAlways`, for any ladders, limits and results. The
invariant follows the stop script: a living monitor is named by the pid file and by the
script that waits (`PidRecorded`, `PidRead`), and is gone before the script removes the
files (`GoneBeforeFiles`). `BuildAdvancesAlways` says that no step of the build is taken
twice, whatever fails, crashes or is aborted. The lemmas `ErrorRateBelow` and
`PercentileSlow` show that rounding and interpolation never let a stage pass that the
exact figures refuse.

Only model-checked: what rests on fairness, since the provers have no way from WF and
ENABLED to a leads-to. For most of it the part that does not is proved, and what the run
adds is that the actor is scheduled:

| liveness property | its proved part |
|---|---|
| fairness of EventLog in `ImplementsEventLog` | `PipelineImplementsLog`, `PendingAdvancesAlways` |
| `StopIsObeyed` | `StopAdvancesAlways`, `CleanStopAlways` |
| `RoiCatchesUp` | `RoiAdvancesAlways` |
| `RowIsReleased` | `RowIsHandedOnAlways` |
| `LimitEnds` | `WindowWillOpenAlways`, `LimitNotProlongedAlways` |
| `ScreenCatchesUp` | `StreamIsKeptAlways` |
| `VideoSettles` | `FlagsAreBackedAlways`, `OneNegotiationAlways` |
| `BuildEnds` | `BuildAdvancesAlways` |
| `PeersReleased` | none |

Every invariant and every action property of a run that must pass is stated by a
theorem.

## 6. What was found

* **roi_serial** — the row lock is released before `counter.update_roi`, so two
  successful updates may commit in one order and reach the counter in the other:
  the counter then watches a ROI that is not the stored one (`ServesStoredRoi`).
* **limiter_lock** — the failure counter outlives the lock and refuses logins by
  itself until its window is over, up to 600 s from the first failure, where
  `docs/AUTH_RULES.md` says 120 s (`RefusalEndsWithLock`).
* **accounts_register** — of two overlapping registrations with the same
  credentials one is answered by an unhandled duplicate-key exception, where
  `docs/AUTH_RULES.md` says that registration is idempotent (`RegistrationIsIdempotent`).

Noted on the way and not made into runs, since they take no interleaving or contradict
no document:

* A stay over midnight is credited in full to the new day (`people_counter.py:300`,
  `mock_counter.py:191`), so the figure that the page labels as the seconds of today
  (`frontend/index.html:120`) may exceed what has passed of the day. `StayAccounting` sums
  the stays that ended on the day, as the code does.
* After a restart the counter watches the ROI of the settings, whatever is stored, and
  GET of the region answers with the stored one, until the next update (`main.py:44-59`).
* A row of the new day gets yesterday's figures when midnight falls between the reset and
  the sync of one frame, until the next sync.
* A thread that sets its flag after `stop` has cleared it goes on until the process ends
  (`people_counter.py:318`, `event_worker.py:39`), and a camera reopened after the join
  has timed out stays open until then.
* The maximum and the total of a day fall with the first sync after a restart
  (`stat_repository.py:22`), the bootstrap password is set at every start
  (`user_repository.py:66`), and live health and status differ during a reconnect.
* A login aborted between INCR and EXPIRE leaves a counter without expiry. LIKE treats the
  underscore of `tester_` as a wildcard. A session names a user rather than a row.
* The stream closes with 4401 before it accepts (`auth.py:91`), so the page never sees that
  code and goes on reconnecting. The role and the session are read once when the socket opens
  (`routes_realtime.py:40`). One failing request of `hydrateDashboard` leaves the page
  without a stream.
* An offer that raises after `pcs.add` leaves its connection in `pcs` until the shutdown
  (`routes_webrtc.py:55`), and the status in Redis outlives the process, so GET /api/status
  answers with figures of the last one until the first refresh (`monitoring_service.py:18`).
* Redis lists events newest first (`event_worker.py:28`), the counter's fallback oldest
  first (`people_counter.py:453`).
* `docs/TEST_CASES.md:173` gives 150 % as the limit of `process_cpu`, `Jenkinsfile:214` passes
  160. `Jenkinsfile:374` passes `-StopFlag` to `cleanup.ps1`, which has no such parameter.
* The monitor is started before the `try` of a stage, so an abort in between leaves it
  running; it counts processes by a keyword that its own command line contains;
  a monitor that dies early leaves rows of the first part of a stage, which the resource breaker
  takes for all of it (`check_resource_breaker.py:110`). Rounding may stop a ladder up to
  0.005 early, never late.

## 7. What is not modelled and why

* History queries: one SELECT with filters; health and events: reads without state. The
  status read is a part of Dashboard.
* Validation of names, passwords and origins, hashing, cookies: checks before any
  effect, without interleaving.
* Detection, frames, encoding, the overlay, codecs: numerical and external.
* `cap.read()` fails by its result and not by an exception, which OpenCV raises only when
  told to. `Stop-Process` in `stop_monitor.ps1` is taken to succeed: a monitor that cannot
  be killed would outlive its stage.
* Retries inside redis-py and the pool of SQLAlchemy: a call is modelled by how it
  may end.
* Several processes: `uvicorn` is started with one worker. Several tabs: they share the
  server's `pcs` and nothing else.
* In the browser the forms of the administrator, toasts and layout; in the stream the list
  of events, which is sent as the status is, and the role, which is read once.
* In the load ladder the summaries and reports, monitors left by earlier builds, and the stages of the
  Jenkinsfile around the ladders, which run one after the other.
* The 404 of PUT roi: the region is created before the service starts and no code deletes it.

## 8. Plan

Done, in this order: EventLog and EventPipeline with their proofs; Occupancy,
PeopleCounter, MockCounter; RoiConfig and LoginLimiter with their proofs; Accounts and
its proofs; Dashboard and LoadLadder; the proofs of the two counters, of Dashboard and
of LoadLadder; `StayAccounting` and the proved parts of the liveness properties.

Left: a proved part of `PeersReleased`, namely that a connection in `pcs` is the tab's or
one whose end the server is about to notice; and for Accounts that a session belongs to
a name that had an account when it was issued.

A composition of counter and pipeline was considered and left out. The only thing they
share is the call of `put_nowait`, which never blocks, and which EventPipeline allows at every
moment; the counter reads nothing back. Every behaviour of the composition is one
of both modules, and no property relates their states beyond that.

If the code changes: a `Publish` that may block would call for that composition; a
second worker process for sets of counters and of limiter clients; a re-negotiation of the video
that checks which connection it is about would make `OneNegotiation` and `VideoSettles`
hold without their conditions.

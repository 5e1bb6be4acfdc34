----------------------------- MODULE RoiConfig -----------------------------
(* The region of interest has three homes: the row of monitor_regions in MySQL,
   the counter's field, and the status in Redis.  Administrators change it with
   PUT /api/admin/regions/default/roi, each request in a thread of its own:

     validate -> SELECT ... FOR UPDATE -> UPDATE and COMMIT -> refresh the row
              -> counter.update_roi -> 200

   The counter's worker stores a status with the counter's ROI after every
   frame.  A process begins with the ROI of the settings, whatever the row says:
   the row is read again by the requests only.

   A ROI is reduced to one axis, [lo, hi].  The object mapper writes the columns
   that differ from the row it has loaded, and no others. *)
EXTENDS Naturals

CONSTANTS Requests,         \* the PUT requests of a behaviour
          Submissions,      \* the ROIs they may carry, valid or not
          RoiInit,          \* the ROI of the settings
          Faults,           \* which of "mysql", "redis", "process" may fail
          NoRegion          \* before the first start

Rois == [lo : Nat, hi : Nat]

ASSUME RoiAssumption == /\ Submissions \subseteq Rois /\ RoiInit \in Rois
                        /\ NoRegion \notin Rois
                        /\ Faults \subseteq {"mysql", "redis", "process"}

VARIABLES up,               \* is a process serving
          region,           \* the committed row of monitor_regions
          holder,           \* requests that hold the row lock
          pc, asked,        \* per request: its step and its ROI
          loaded,           \* per request: the row its session has loaded
          roi,              \* counter.roi
          cached,           \* the ROI in the Redis status
          saved,            \* history: ROIs of committed updates
          updated,          \* history: this process has stored an update
          overtaken         \* history: in this process an update was stored
                            \* before the one stored earlier had reached the
                            \* counter, or one has not reached it at all

request == <<pc, asked, loaded>>
history == <<saved, updated, overtaken>>
vars == <<up, region, holder, request, roi, cached, history>>

PCs == {"new", "lock", "commit", "reread", "apply", "ok", "refused", "error"}

Done == {"new", "ok", "refused", "error"}

Valid(r) == r.lo < r.hi

(* The requests whose ROI is stored and on its way to the counter. *)
Applying == {q \in Requests : pc[q] \in {"reread", "apply"}}

(* What a commit makes of the row: the columns the request has changed. *)
Written(row, old, new) == [lo |-> IF new.lo = old.lo THEN row.lo ELSE new.lo,
                           hi |-> IF new.hi = old.hi THEN row.hi ELSE new.hi]

(* A SET that fails may or may not have reached Redis; the counter goes on. *)
StoreStatus(r) == cached' \in IF "redis" \in Faults THEN {r, cached} ELSE {r}

-----------------------------------------------------------------------------
Init == /\ up = FALSE
        /\ region = NoRegion
        /\ holder = {}
        /\ pc = [q \in Requests |-> "new"]
        /\ asked \in [Requests -> Submissions]
        /\ loaded = [q \in Requests |-> NoRegion]
        /\ roi = RoiInit
        /\ cached = NoRegion
        /\ saved = {} /\ updated = FALSE /\ overtaken = FALSE

(* ensure_default_region creates the row the first time. *)
EnsureDefaultRegion == region' = IF region = NoRegion THEN RoiInit ELSE region

(* build_counter takes the ROI of the settings; what earlier processes have stored
   stays in the row and is not looked at. *)
Boot == /\ ~up
        /\ up' = TRUE
        /\ EnsureDefaultRegion
        /\ roi' = RoiInit
        /\ StoreStatus(RoiInit)
        /\ updated' = FALSE /\ overtaken' = FALSE
        /\ UNCHANGED <<holder, request, saved>>

(* The process ends: MySQL rolls back what is not committed. *)
ProcessEnds == /\ up /\ "process" \in Faults
               /\ up' = FALSE
               /\ holder' = {}
               /\ pc' = [q \in Requests |-> IF pc[q] \in Done THEN pc[q] ELSE "error"]
               /\ loaded' = [q \in Requests |-> NoRegion]
               /\ UNCHANGED <<region, asked, roi, cached, history>>

(* The worker's refresh after a frame, under the counter's lock. *)
RefreshStatus == /\ up
                 /\ StoreStatus(roi)
                 /\ UNCHANGED <<up, region, holder, request, roi, history>>

-----------------------------------------------------------------------------
(* AdminService.update_region_roi refuses an empty rectangle (422). *)
Validate(q) ==
  /\ up /\ pc[q] = "new"
  /\ pc' = [pc EXCEPT ![q] = IF Valid(asked[q]) THEN "lock" ELSE "refused"]
  /\ UNCHANGED <<up, region, holder, asked, loaded, roi, cached, history>>

\* Mutant: FOR SHARE for FOR UPDATE.
LockRowShared(q) == /\ pc[q] = "lock"
                    /\ holder' = holder \cup {q}
                    /\ loaded' = [loaded EXCEPT ![q] = region]
                    /\ pc' = [pc EXCEPT ![q] = "commit"]
                    /\ UNCHANGED <<up, region, asked, roi, cached, history>>

\* Mutant: the counter is updated before the row.
LockRowAfterApply(q) == /\ pc[q] = "lock"
                        /\ holder = {}
                        /\ holder' = {q}
                        /\ loaded' = [loaded EXCEPT ![q] = region]
                        /\ pc' = [pc EXCEPT ![q] = "commit"]
                        /\ roi' = asked[q]
                        /\ StoreStatus(asked[q])
                        /\ UNCHANGED <<up, region, asked, history>>

(* SELECT ... FOR UPDATE waits for the row's lock and reads the latest row. *)
LockRow(q) == /\ pc[q] = "lock"
              /\ holder = {}
              /\ holder' = {q}
              /\ loaded' = [loaded EXCEPT ![q] = region]
              /\ pc' = [pc EXCEPT ![q] = "commit"]
              /\ UNCHANGED <<up, region, asked, roi, cached, history>>

Commit(q) == /\ region' = Written(region, loaded[q], asked[q])
             /\ saved' = saved \cup {asked[q]}

Saves(q) == /\ pc[q] = "commit"
            /\ Commit(q)
            /\ updated' = TRUE
            /\ overtaken' = (overtaken \/ Applying /= {})
            /\ holder' = holder \ {q}
            /\ pc' = [pc EXCEPT ![q] = "reread"]
            /\ UNCHANGED <<up, asked, loaded, roi, cached>>

(* db.refresh reads the row again for the response. *)
Reread(q) == /\ pc[q] = "reread"
             /\ loaded' = [loaded EXCEPT ![q] = region]
             /\ pc' = [pc EXCEPT ![q] = "apply"]
             /\ UNCHANGED <<up, region, holder, asked, roi, cached, history>>

(* counter.update_roi and the response; the row is not locked any more. *)
Apply(q) == /\ pc[q] = "apply"
            /\ roi' = asked[q]
            /\ StoreStatus(asked[q])
            /\ pc' = [pc EXCEPT ![q] = "ok"]
            /\ UNCHANGED <<up, region, holder, asked, loaded, history>>

\* Mutant: the session is not closed.
MySqlRaisesKeepingLock(q) ==
  /\ "mysql" \in Faults
  /\ pc[q] \in {"lock", "commit", "reread"}
  /\ pc' = [pc EXCEPT ![q] = "error"]
  /\ overtaken' = (overtaken \/ pc[q] = "reread")
  /\ UNCHANGED <<up, region, holder, asked, loaded, roi, cached, saved, updated>>

(* A statement raises, the wait for the lock times out, the connection breaks:
   the session is closed and rolled back.  A COMMIT that raises may have taken
   effect. *)
MySqlRaises(q) ==
  /\ "mysql" \in Faults
  /\ pc[q] \in {"lock", "commit", "reread"}
  /\ \/ UNCHANGED <<region, saved>>
     \/ pc[q] = "commit" /\ Commit(q)
  /\ overtaken' = (overtaken \/ pc[q] = "reread" \/ region' /= region)
  /\ holder' = holder \ {q}
  /\ pc' = [pc EXCEPT ![q] = "error"]
  /\ UNCHANGED <<up, asked, loaded, roi, cached, updated>>

Handle(q) == \/ Validate(q) \/ LockRow(q) \/ Saves(q) \/ Reread(q) \/ Apply(q)
             \/ MySqlRaises(q)

Next == \/ Boot \/ ProcessEnds \/ RefreshStatus
        \/ \E q \in Requests : Handle(q)

Spec == Init /\ [][Next]_vars

(* A process is up in the end, threads are scheduled, statements return, locks
   are granted (InnoDB queues the waiters), frames keep coming. *)
FairSpec == /\ Spec
            /\ WF_vars(Boot) /\ WF_vars(RefreshStatus)
            /\ \A q \in Requests : SF_vars(Handle(q))

-----------------------------------------------------------------------------
Shown == Rois \cup {NoRegion}

TypeOK == /\ up \in BOOLEAN
          /\ {region, cached} \subseteq Shown
          /\ holder \subseteq Requests /\ \A p, q \in holder : p = q
          /\ pc \in [Requests -> PCs]
          /\ asked \in [Requests -> Submissions]
          /\ loaded \in [Requests -> Shown]
          /\ roi \in Rois
          /\ saved \subseteq Submissions /\ {updated, overtaken} \subseteq BOOLEAN

(* docs/TEST_CASES.md, ADMIN-005: the final ROI is one of the submissions, and
   not a mixture of the columns of two.  The row lock is what makes it so: each
   request writes only the columns it has changed. *)
RegionIsASubmission == region \in {NoRegion, RoiInit} \cup saved

(* The counter never watches, and the status never shows, a ROI that is not in
   the database first: a refused or failed request changes neither. *)
AppliedWasSaved == /\ roi \in {RoiInit} \cup saved
                   /\ cached \in {NoRegion, RoiInit} \cup saved

(* What is left of ServesStoredRoi below.  Whenever no update is between the row and
   the counter, a process watches the ROI of the settings until it has stored its first
   update, even if an earlier process left another one in the row, and the stored
   ROI from then on, however updates wait for the row, are refused or fail before it -
   until one overtakes another between COMMIT and update_roi or is lost there.  The
   next process starts over. *)
ServesUnlessOvertaken ==
  up /\ ~overtaken /\ Applying = {} => roi = IF updated THEN region ELSE RoiInit

(* AdminService.update_region_roi: no empty rectangle gets anywhere. *)
NowhereEmpty == /\ Valid(roi)
                /\ region = NoRegion \/ Valid(region)
                /\ cached = NoRegion \/ Valid(cached)

(* While a request holds the row nothing else writes it, and whatever the holder does
   or meets next - COMMIT, an exception, the end of the process - gives it back. *)
RowIsHandedOn ==
  [][\A q \in holder :
       \/ q \in holder' /\ pc'[q] = "commit" /\ up' /\ UNCHANGED <<region, saved>>
       \/ holder' = {} /\ pc'[q] \in {"reread", "error"}]_vars

(* No path out of RegionRepository.update_roi keeps the row locked: a request
   whose statement raises gives the row back, and so does one that dies with
   the process. *)
RowIsReleased == \A q \in Requests : q \in holder ~> q \notin holder

(* tests/test_cases/test_admin_api.py,
   test_admin_roi_update_is_serializable_under_concurrent_writes: once all
   updates are answered the service behaves as after the last of them, so the
   counter watches the stored ROI.  But the row's lock is released before the
   counter is updated, and two requests may do the latter the other way round. *)
ServesStoredRoi ==
  up /\ (\A q \in Requests : pc[q] \in Done) => roi = region
=============================================================================

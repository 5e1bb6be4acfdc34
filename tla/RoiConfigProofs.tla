-------------------------- MODULE RoiConfigProofs --------------------------
(* Any number of concurrent updates, with any of the failures: the stored ROI
   is one of the submissions, what the counter watches has been stored, it is the
   stored ROI from a process's first update on unless one was overtaken or lost and
   the settings' ROI before, the row is handed on, and no empty ROI gets anywhere. *)
EXTENDS RoiConfig, TLAPS

(* Between its SELECT ... FOR UPDATE and its COMMIT a request holds the row,
   and the row is what it has loaded. *)
LoadedIsCurrent ==
  \A q \in Requests : pc[q] = "commit" => holder = {q} /\ loaded[q] = region

(* A running process has a row, only a running process has requests under way,
   and these carry a ROI that has passed the validation. *)
UnderWay ==
  /\ up => region /= NoRegion
  /\ \A q \in Requests :
        pc[q] \in {"lock", "commit", "reread", "apply"} => up /\ Valid(asked[q])

(* After the commit the request's ROI is in the history. *)
CommittedIsSaved ==
  \A q \in Requests : pc[q] \in {"reread", "apply"} => asked[q] \in saved

SavedIsValid == \A r \in saved : Valid(r)

IInv == /\ TypeOK
        /\ LoadedIsCurrent
        /\ UnderWay
        /\ CommittedIsSaved
        /\ SavedIsValid
        /\ RegionIsASubmission
        /\ AppliedWasSaved

(* Writing the columns that differ from the current row writes the whole ROI. *)
LEMMA WrittenToCurrent ==
  ASSUME NEW row \in Rois, NEW new \in Rois
  PROVE  Written(row, row, new) = new
  BY DEF Written, Rois

LEMMA InitIInv == Init => IInv
  <1> SUFFICES ASSUME Init PROVE IInv
    OBVIOUS
  <1> USE RoiAssumption DEF RoiAssumption, Init
  <1>1. TypeOK
    BY DEF TypeOK, PCs, Shown
  <1>2. LoadedIsCurrent /\ UnderWay /\ CommittedIsSaved /\ SavedIsValid
    BY DEF LoadedIsCurrent, UnderWay, CommittedIsSaved, SavedIsValid
  <1>3. RegionIsASubmission /\ AppliedWasSaved
    BY DEF RegionIsASubmission, AppliedWasSaved
  <1> QED
    BY <1>1, <1>2, <1>3 DEF IInv

(* A commit turns the row into the ROI of the request. *)
LEMMA CommitWritesAsked ==
  ASSUME IInv, NEW q \in Requests, pc[q] = "commit", Commit(q)
  PROVE  region' = asked[q] /\ asked[q] \in Rois /\ Valid(asked[q])
  <1>1. up /\ region /= NoRegion /\ Valid(asked[q])
    BY DEF IInv, UnderWay
  <1>2. region \in Rois /\ asked[q] \in Rois
    BY <1>1, RoiAssumption DEF IInv, TypeOK, Shown, RoiAssumption
  <1>3. loaded[q] = region
    BY DEF IInv, LoadedIsCurrent
  <1> QED
    BY <1>1, <1>2, <1>3, WrittenToCurrent DEF Commit

LEMMA StepIInv == IInv /\ [Next]_vars => IInv'
  <1> SUFFICES ASSUME IInv, [Next]_vars PROVE IInv'
    OBVIOUS
  <1> USE RoiAssumption DEF RoiAssumption
  <1>1. CASE Boot
    <2> USE <1>1 DEF Boot, EnsureDefaultRegion, StoreStatus, request
    <2>0. ~up /\ \A q \in Requests : pc[q] \in Done
      BY DEF IInv, UnderWay, TypeOK, PCs, Done
    <2>1. TypeOK'
      BY DEF IInv, TypeOK, Shown
    <2>2. LoadedIsCurrent' /\ CommittedIsSaved'
      BY <2>0 DEF IInv, LoadedIsCurrent, CommittedIsSaved, Done
    <2>3. UnderWay'
      BY <2>0 DEF UnderWay, Done
    <2>4. SavedIsValid' /\ RegionIsASubmission' /\ AppliedWasSaved'
      BY DEF IInv, SavedIsValid, RegionIsASubmission, AppliedWasSaved
    <2> QED
      BY <2>1, <2>2, <2>3, <2>4 DEF IInv
  <1>2. CASE ProcessEnds
    <2> USE <1>2 DEF ProcessEnds, history
    <2>0. \A q \in Requests : pc'[q] \in Done
      BY DEF IInv, TypeOK, Done
    <2>1. TypeOK'
      BY <2>0 DEF IInv, TypeOK, Shown, PCs, Done
    <2>2. LoadedIsCurrent' /\ CommittedIsSaved' /\ UnderWay'
      BY <2>0 DEF LoadedIsCurrent, CommittedIsSaved, UnderWay, Done
    <2>3. SavedIsValid' /\ RegionIsASubmission' /\ AppliedWasSaved'
      BY DEF IInv, SavedIsValid, RegionIsASubmission, AppliedWasSaved
    <2> QED
      BY <2>1, <2>2, <2>3 DEF IInv
  <1>3. CASE RefreshStatus
    <2> USE <1>3 DEF RefreshStatus, StoreStatus, request, history
    <2>1. TypeOK'
      BY DEF IInv, TypeOK, Shown
    <2>2. LoadedIsCurrent' /\ CommittedIsSaved' /\ UnderWay'
      BY DEF IInv, LoadedIsCurrent, CommittedIsSaved, UnderWay
    <2>3. SavedIsValid' /\ RegionIsASubmission' /\ AppliedWasSaved'
      BY DEF IInv, SavedIsValid, RegionIsASubmission, AppliedWasSaved
    <2> QED
      BY <2>1, <2>2, <2>3 DEF IInv
  <1>4. ASSUME NEW q \in Requests, Validate(q) PROVE IInv'
    <2> USE <1>4 DEF Validate, history
    <2>1. TypeOK'
      BY DEF IInv, TypeOK, PCs
    <2>2. LoadedIsCurrent' /\ CommittedIsSaved' /\ UnderWay'
      BY DEF IInv, TypeOK, LoadedIsCurrent, CommittedIsSaved, UnderWay
    <2>3. SavedIsValid' /\ RegionIsASubmission' /\ AppliedWasSaved'
      BY DEF IInv, SavedIsValid, RegionIsASubmission, AppliedWasSaved
    <2> QED
      BY <2>1, <2>2, <2>3 DEF IInv
  <1>5. ASSUME NEW q \in Requests, LockRow(q) PROVE IInv'
    <2> USE <1>5 DEF LockRow, history
    <2>1. TypeOK'
      BY DEF IInv, TypeOK, PCs
    <2>2. LoadedIsCurrent'
      BY DEF IInv, TypeOK, LoadedIsCurrent
    <2>3. CommittedIsSaved' /\ UnderWay'
      BY DEF IInv, TypeOK, CommittedIsSaved, UnderWay
    <2>4. SavedIsValid' /\ RegionIsASubmission' /\ AppliedWasSaved'
      BY DEF IInv, SavedIsValid, RegionIsASubmission, AppliedWasSaved
    <2> QED
      BY <2>1, <2>2, <2>3, <2>4 DEF IInv
  <1>6. ASSUME NEW q \in Requests, Saves(q) PROVE IInv'
    <2> USE <1>6 DEF Saves
    <2>0. /\ region' = asked[q] /\ saved' = saved \cup {asked[q]}
          /\ asked[q] \in Rois /\ Valid(asked[q])
      BY CommitWritesAsked DEF Commit
    <2>1. TypeOK'
      BY <2>0 DEF IInv, TypeOK, PCs, Shown
    <2>2. \A p \in Requests : p /= q => pc[p] /= "commit"
      BY DEF IInv, LoadedIsCurrent
    <2>3. LoadedIsCurrent'
      BY <2>2 DEF IInv, TypeOK, LoadedIsCurrent
    <2>4. CommittedIsSaved'
      BY <2>0 DEF IInv, TypeOK, CommittedIsSaved
    <2>5. UnderWay'
      BY <2>0 DEF IInv, TypeOK, UnderWay
    <2>6. SavedIsValid' /\ RegionIsASubmission' /\ AppliedWasSaved'
      BY <2>0 DEF IInv, SavedIsValid, RegionIsASubmission, AppliedWasSaved
    <2> QED
      BY <2>1, <2>3, <2>4, <2>5, <2>6 DEF IInv
  <1>7. ASSUME NEW q \in Requests, Reread(q) PROVE IInv'
    <2> USE <1>7 DEF Reread, history
    <2>1. TypeOK'
      BY DEF IInv, TypeOK, PCs
    <2>2. LoadedIsCurrent' /\ CommittedIsSaved' /\ UnderWay'
      BY DEF IInv, TypeOK, LoadedIsCurrent, CommittedIsSaved, UnderWay
    <2>3. SavedIsValid' /\ RegionIsASubmission' /\ AppliedWasSaved'
      BY DEF IInv, SavedIsValid, RegionIsASubmission, AppliedWasSaved
    <2> QED
      BY <2>1, <2>2, <2>3 DEF IInv
  <1>8. ASSUME NEW q \in Requests, Apply(q) PROVE IInv'
    <2> USE <1>8 DEF Apply, StoreStatus, history
    <2>0. asked[q] \in saved /\ asked[q] \in Rois
      BY DEF IInv, TypeOK, CommittedIsSaved
    <2>1. TypeOK'
      BY <2>0 DEF IInv, TypeOK, PCs, Shown
    <2>2. LoadedIsCurrent' /\ CommittedIsSaved' /\ UnderWay'
      BY DEF IInv, TypeOK, LoadedIsCurrent, CommittedIsSaved, UnderWay
    <2>3. SavedIsValid' /\ RegionIsASubmission' /\ AppliedWasSaved'
      BY <2>0 DEF IInv, SavedIsValid, RegionIsASubmission, AppliedWasSaved
    <2> QED
      BY <2>1, <2>2, <2>3 DEF IInv
  <1>9. ASSUME NEW q \in Requests, MySqlRaises(q) PROVE IInv'
    <2> USE <1>9 DEF MySqlRaises
    <2>1. CASE UNCHANGED <<region, saved>>
      <3> USE <2>1
      <3>1. TypeOK'
        BY DEF IInv, TypeOK, PCs
      <3>2. LoadedIsCurrent'
        BY DEF IInv, TypeOK, LoadedIsCurrent
      <3>3. CommittedIsSaved' /\ UnderWay'
        BY DEF IInv, TypeOK, CommittedIsSaved, UnderWay
      <3>4. SavedIsValid' /\ RegionIsASubmission' /\ AppliedWasSaved'
        BY DEF IInv, SavedIsValid, RegionIsASubmission, AppliedWasSaved
      <3> QED
        BY <3>1, <3>2, <3>3, <3>4 DEF IInv
    <2>2. CASE pc[q] = "commit" /\ Commit(q)
      <3> USE <2>2
      <3>0. /\ region' = asked[q] /\ saved' = saved \cup {asked[q]}
            /\ asked[q] \in Rois /\ Valid(asked[q])
        BY CommitWritesAsked DEF Commit
      <3>1. TypeOK'
        BY <3>0 DEF IInv, TypeOK, PCs, Shown
      <3>2. \A p \in Requests : p /= q => pc[p] /= "commit"
        BY DEF IInv, LoadedIsCurrent
      <3>3. LoadedIsCurrent'
        BY <3>2 DEF IInv, TypeOK, LoadedIsCurrent
      <3>4. CommittedIsSaved'
        BY <3>0 DEF IInv, TypeOK, CommittedIsSaved
      <3>5. UnderWay'
        BY <3>0 DEF IInv, TypeOK, UnderWay
      <3>6. SavedIsValid' /\ RegionIsASubmission' /\ AppliedWasSaved'
        BY <3>0 DEF IInv, SavedIsValid, RegionIsASubmission, AppliedWasSaved
      <3> QED
        BY <3>1, <3>3, <3>4, <3>5, <3>6 DEF IInv
    <2> QED
      BY <2>1, <2>2
  <1>10. CASE UNCHANGED vars
    BY <1>10 DEF vars, request, history, IInv, TypeOK, LoadedIsCurrent, UnderWay,
       CommittedIsSaved, SavedIsValid, RegionIsASubmission, AppliedWasSaved
  <1> QED
    BY <1>1, <1>2, <1>3, <1>4, <1>5, <1>6, <1>7, <1>8, <1>9, <1>10
       DEF Next, Handle

LEMMA Invariance == Spec => []IInv
  BY InitIInv, StepIInv, PTL DEF Spec

(* TypeOK, for any set of requests. *)
THEOREM TypeCorrect == Spec => []TypeOK
  <1>1. IInv => TypeOK
    BY DEF IInv
  <1> QED
    BY <1>1, Invariance, PTL

(* docs/TEST_CASES.md, ADMIN-005, for any number of administrators: the stored
   ROI is the one of the settings or a whole submission, never a mixture. *)
THEOREM RegionIsASubmissionAlways == Spec => []RegionIsASubmission
  <1>1. IInv => RegionIsASubmission
    BY DEF IInv
  <1> QED
    BY <1>1, Invariance, PTL

(* Nothing is watched or shown before it is committed. *)
THEOREM AppliedWasSavedAlways == Spec => []AppliedWasSaved
  <1>1. IInv => AppliedWasSaved
    BY DEF IInv
  <1> QED
    BY <1>1, Invariance, PTL

(* If the settings are valid no empty rectangle gets anywhere. *)
THEOREM NowhereEmptyAlways ==
  ASSUME Valid(RoiInit) PROVE Spec => []NowhereEmpty
  <1>1. IInv => NowhereEmpty
    BY DEF IInv, SavedIsValid, RegionIsASubmission, AppliedWasSaved, NowhereEmpty
  <1> QED
    BY <1>1, Invariance, PTL

-----------------------------------------------------------------------------
(* The row's lock: the safe part of RowIsReleased. *)

(* The lock belongs to the request between SELECT ... FOR UPDATE and COMMIT. *)
HolderIsWriting == \A q \in Requests : q \in holder <=> pc[q] = "commit"

LEMMA HolderStep ==
  ASSUME IInv, HolderIsWriting, [Next]_vars
  PROVE  HolderIsWriting'
  <1> USE DEF HolderIsWriting
  <1>0. pc \in [Requests -> PCs] /\ holder \subseteq Requests
    BY DEF IInv, TypeOK
  <1>1. CASE Boot \/ RefreshStatus \/ UNCHANGED vars
    BY <1>1 DEF Boot, RefreshStatus, vars, request, history
  <1>2. CASE ProcessEnds
    BY <1>0, <1>2 DEF ProcessEnds, Done
  <1>3. ASSUME NEW q \in Requests, Handle(q) PROVE HolderIsWriting'
    <2>1. CASE Validate(q)
      BY <1>0, <2>1 DEF Validate
    <2>2. CASE LockRow(q)
      BY <1>0, <2>2 DEF LockRow
    <2>3. CASE Saves(q)
      BY <1>0, <2>3 DEF Saves
    <2>4. CASE Reread(q) \/ Apply(q)
      BY <1>0, <2>4 DEF Reread, Apply
    <2>5. CASE MySqlRaises(q)
      BY <1>0, <2>5 DEF MySqlRaises
    <2> QED
      BY <1>3, <2>1, <2>2, <2>3, <2>4, <2>5 DEF Handle
  <1> QED
    BY <1>1, <1>2, <1>3 DEF Next

LEMMA HandedOnStep ==
  ASSUME IInv, HolderIsWriting, [Next]_vars, NEW q \in holder
  PROVE  \/ q \in holder' /\ pc'[q] = "commit" /\ up' /\ UNCHANGED <<region, saved>>
         \/ holder' = {} /\ pc'[q] \in {"reread", "error"}
  <1>0. /\ pc \in [Requests -> PCs] /\ q \in Requests /\ pc[q] = "commit"
        /\ holder = {q} /\ up
    BY DEF IInv, TypeOK, LoadedIsCurrent, UnderWay, HolderIsWriting
  <1>1. CASE Boot
    BY <1>0, <1>1 DEF Boot
  <1>2. CASE RefreshStatus
    BY <1>0, <1>2 DEF RefreshStatus, request, history
  <1>3. CASE UNCHANGED vars
    BY <1>0, <1>3 DEF vars, request, history
  <1>4. CASE ProcessEnds
    BY <1>0, <1>4 DEF ProcessEnds, Done
  <1>5. ASSUME NEW p \in Requests, Handle(p), p /= q
        PROVE  q \in holder' /\ pc'[q] = "commit" /\ up' /\ UNCHANGED <<region, saved>>
    <2>1. pc[p] /= "commit"
      BY <1>0, <1>5 DEF HolderIsWriting
    <2> QED
      BY <1>0, <1>5, <2>1 DEF Handle, Validate, LockRow, Saves, Reread, Apply, MySqlRaises, history
  <1>6. CASE Handle(q)
    BY <1>0, <1>6 DEF Handle, Validate, LockRow, Saves, Reread, Apply, MySqlRaises, history
  <1> QED
    BY <1>0, <1>1, <1>2, <1>3, <1>4, <1>5, <1>6 DEF Next

(* RegionRepository.update_roi: no path keeps the row, and no other update comes
   between the SELECT and the COMMIT of one. *)
THEOREM RowIsHandedOnAlways == Spec => RowIsHandedOn
  <1>1. Init => HolderIsWriting
    BY DEF Init, HolderIsWriting
  <1>2. IInv /\ HolderIsWriting /\ [Next]_vars => HolderIsWriting'
    BY HolderStep
  <1>3. IInv /\ HolderIsWriting /\ [Next]_vars =>
          [\A q \in holder :
             \/ q \in holder' /\ pc'[q] = "commit" /\ up' /\ UNCHANGED <<region, saved>>
             \/ holder' = {} /\ pc'[q] \in {"reread", "error"}]_vars
    BY HandedOnStep
  <1> QED
    BY <1>1, <1>2, <1>3, Invariance, PTL DEF Spec, RowIsHandedOn

-----------------------------------------------------------------------------
(* From COMMIT to update_roi: at most one update is on its way, with the stored ROI,
   until one overtakes another; and it is an update of this process. *)
OnItsWay ==
  ~overtaken => /\ \A p, q \in Applying : p = q
                /\ \A q \in Applying : asked[q] = region
                /\ Applying /= {} => updated

LEMMA OnItsWayStep ==
  ASSUME IInv, OnItsWay, ServesUnlessOvertaken, [Next]_vars
  PROVE  OnItsWay' /\ ServesUnlessOvertaken'
  <1> USE DEF OnItsWay, ServesUnlessOvertaken, Applying
  <1>0. /\ pc \in [Requests -> PCs] /\ overtaken \in BOOLEAN
        /\ \A q \in Requests : pc[q] \in {"lock", "commit", "reread", "apply"} => up
    BY DEF IInv, TypeOK, UnderWay
  <1>1. CASE Boot
    <2>1. /\ ~up /\ UNCHANGED request /\ roi' = RoiInit
          /\ updated' = FALSE
      BY <1>1 DEF Boot
    <2>2. Applying' = {}
      BY <1>0, <2>1 DEF request
    <2> QED
      BY <2>1, <2>2
  <1>2. CASE ProcessEnds
    <2>1. Applying' = {}
      BY <1>0, <1>2 DEF ProcessEnds, Done
    <2> QED
      BY <1>2, <2>1 DEF ProcessEnds
  <1>3. CASE RefreshStatus
    BY <1>3 DEF RefreshStatus, request, history
  <1>4. CASE UNCHANGED vars
    BY <1>4 DEF vars, request, history
  <1>5. ASSUME NEW q \in Requests, Validate(q) \/ LockRow(q) \/ Reread(q)
        PROVE  OnItsWay' /\ ServesUnlessOvertaken'
    <2>1. UNCHANGED <<up, region, asked, roi, updated, overtaken>>
      BY <1>5 DEF Validate, LockRow, Reread, history
    <2>2. Applying' = Applying
      BY <1>0, <1>5 DEF Validate, LockRow, Reread
    <2> QED
      BY <2>1, <2>2
  <1>6. ASSUME NEW q \in Requests, Saves(q)
        PROVE  OnItsWay' /\ ServesUnlessOvertaken'
    <2>1. /\ region' = asked[q] /\ asked' = asked /\ updated'
          /\ overtaken' = (overtaken \/ Applying /= {})
      BY <1>6, CommitWritesAsked DEF Saves
    <2>2. Applying' = Applying \cup {q}
      BY <1>0, <1>6 DEF Saves
    <2> QED
      BY <2>1, <2>2
  <1>7. ASSUME NEW q \in Requests, Apply(q)
        PROVE  OnItsWay' /\ ServesUnlessOvertaken'
    <2>1. /\ UNCHANGED <<up, region, asked, updated, overtaken>> /\ roi' = asked[q]
          /\ q \in Applying
      BY <1>7 DEF Apply, history
    <2>2. Applying' = Applying \ {q}
      BY <1>0, <1>7 DEF Apply
    <2> QED
      BY <2>1, <2>2
  <1>8. ASSUME NEW q \in Requests, MySqlRaises(q)
        PROVE  OnItsWay' /\ ServesUnlessOvertaken'
    <2>1. /\ UNCHANGED <<up, asked, roi, updated>>
          /\ overtaken' = (overtaken \/ pc[q] = "reread" \/ region' /= region)
      BY <1>8 DEF MySqlRaises
    <2>2. CASE pc[q] = "reread"
      BY <2>1, <2>2
    <2>3. CASE pc[q] /= "reread"
      <3>1. Applying' = Applying
        BY <1>0, <1>8, <2>3 DEF MySqlRaises
      <3> QED
        BY <2>1, <3>1
    <2> QED
      BY <2>2, <2>3
  <1> QED
    BY <1>1, <1>2, <1>3, <1>4, <1>5, <1>6, <1>7, <1>8 DEF Next, Handle

(* For any number of administrators and of restarts: a process watches the ROI of the
   settings until it has stored its first update, whatever earlier processes left in
   the row (main.py:44-59), and the stored ROI from then on, except while an update is
   between the two or after one was overtaken or lost there (routes_admin.py:54-62). *)
THEOREM ServesUnlessOvertakenAlways == Spec => []ServesUnlessOvertaken
  <1>1. Init => OnItsWay /\ ServesUnlessOvertaken
    BY DEF Init, OnItsWay, ServesUnlessOvertaken, Applying
  <1>2. IInv /\ OnItsWay /\ ServesUnlessOvertaken /\ [Next]_vars
          => (OnItsWay /\ ServesUnlessOvertaken)'
    BY OnItsWayStep
  <1> QED
    BY <1>1, <1>2, Invariance, PTL DEF Spec
=============================================================================

------------------------ MODULE LoginLimiterProofs -------------------------
(* For any number of overlapping logins and any settings: the counter exceeds
   the limit by no more than one failure for each login under way.

   The counter alone is not inductive: a login that has been admitted will
   count its failure later.  The invariant therefore bounds the failures that
   are counted together with those that still may be. *)
EXTENDS LoginLimiter, TLAPS, FiniteSetTheorems

(* Logins that were admitted and may still count a failure. *)
Admitted == {r \in Requests : pc[r] \in {"verify", "incr"}}

CountedOrAdmitted ==
  count + Cardinality(Admitted) <= MaxAttempts - 1 + Cardinality(Requests)

IInv == TypeOK /\ CountedOrAdmitted

-----------------------------------------------------------------------------
LEMMA RequestsFinite ==
  /\ IsFiniteSet(Requests) /\ Cardinality(Requests) \in Nat
  BY LimiterAssumption, FS_CardinalityType DEF LimiterAssumption

LEMMA SomeRequests ==
  ASSUME NEW S \in SUBSET Requests
  PROVE  /\ IsFiniteSet(S) /\ Cardinality(S) \in Nat
         /\ Cardinality(S) <= Cardinality(Requests)
  BY RequestsFinite, FS_Subset, FS_CardinalityType

LEMMA AdmittedSome ==
  /\ IsFiniteSet(Admitted) /\ Cardinality(Admitted) \in Nat
  /\ Cardinality(Admitted) <= Cardinality(Requests)
  BY SomeRequests DEF Admitted

LEMMA AdmittedSomeNext ==
  /\ IsFiniteSet(Admitted') /\ Cardinality(Admitted') \in Nat
  /\ Cardinality(Admitted') <= Cardinality(Requests)
  <1>1. Admitted' \in SUBSET Requests
    BY DEF Admitted
  <1> QED
    BY <1>1, SomeRequests

(* A step that counts nothing and admits nobody keeps the bound. *)
LEMMA NothingNew ==
  ASSUME IInv, TypeOK', count' <= count, Admitted' \subseteq Admitted
  PROVE  CountedOrAdmitted'
  <1>1. Cardinality(Admitted') <= Cardinality(Admitted)
    BY AdmittedSome, FS_Subset
  <1>2. count \in Nat /\ count' \in Nat
    BY DEF IInv, TypeOK
  <1> QED
    BY <1>1, <1>2, AdmittedSome, AdmittedSomeNext, RequestsFinite,
       LimiterAssumption DEF IInv, CountedOrAdmitted, LimiterAssumption

(* Admitting a login: the counter it has read is below the limit. *)
LEMMA AdmittingOne ==
  ASSUME IInv, UNCHANGED count, count < MaxAttempts
  PROVE  CountedOrAdmitted'
  <1>1. count \in Nat /\ MaxAttempts \in Nat
    BY LimiterAssumption DEF IInv, TypeOK, LimiterAssumption
  <1> QED
    BY <1>1, AdmittedSomeNext, RequestsFinite DEF CountedOrAdmitted

-----------------------------------------------------------------------------
LEMMA InitIInv == Init => IInv
  <1> SUFFICES ASSUME Init PROVE IInv
    OBVIOUS
  <1> USE LimiterAssumption DEF LimiterAssumption
  <1>1. TypeOK
    <2>1. aborted \in BOOLEAN
      BY Zenon DEF Init
    <2> QED
      BY <2>1 DEF Init, TypeOK, PCs, NoExpiry, Never
  <1>2. Admitted = {}
    BY DEF Init, Admitted
  <1>3. CountedOrAdmitted
    BY <1>2, FS_EmptySet, RequestsFinite DEF Init, CountedOrAdmitted
  <1> QED
    BY <1>1, <1>3 DEF IInv

LEMMA TypeStep == TypeOK /\ [Next]_vars => TypeOK'
  <1> SUFFICES ASSUME TypeOK, [Next]_vars PROVE TypeOK'
    OBVIOUS
  <1> USE LimiterAssumption DEF LimiterAssumption, TypeOK, NoExpiry, Never
  <1>1. CASE Second
    BY <1>1 DEF Second
  <1>2. ASSUME NEW r \in Requests, ReadLock(r) \/ Login(r) \/ Abort(r)
        PROVE  TypeOK'
    <2>1. pc' \in [Requests -> PCs]
      BY <1>2 DEF ReadLock, Login, Abort, GetWhileLocked, Get, Decide, Verify,
         Incr, AfterIncr, Expire, SetLock, Clear, Unlock, Goto, PCs
    <2>2. CASE ReadLock(r) \/ GetWhileLocked(r) \/ Get(r) \/ Verify(r) \/ Abort(r)
      BY <2>1, <2>2 DEF ReadLock, GetWhileLocked, Get, Verify, Abort
    <2>3. CASE Incr(r)
      BY <2>1, <2>3 DEF Incr
    <2>4. CASE Expire(r)
      BY <2>1, <2>4 DEF Expire
    <2>5. CASE SetLock(r)
      BY <2>1, <2>5 DEF SetLock
    <2>6. CASE Clear(r) \/ Unlock(r)
      BY <2>1, <2>6 DEF Clear, Unlock
    <2> QED
      BY <1>2, <2>2, <2>3, <2>4, <2>5, <2>6 DEF Login
  <1>3. CASE UNCHANGED vars
    BY <1>3 DEF vars
  <1> QED
    BY <1>1, <1>2, <1>3 DEF Next

LEMMA StepIInv == IInv /\ [Next]_vars => IInv'
  <1> SUFFICES ASSUME IInv, [Next]_vars PROVE IInv'
    OBVIOUS
  <1>0. TypeOK /\ TypeOK'
    BY TypeStep DEF IInv
  <1>1. CASE Second
    <2>1. count' <= count /\ Admitted' \subseteq Admitted
      BY <1>0, <1>1 DEF Second, Admitted, TypeOK
    <2> QED
      BY <1>0, <2>1, NothingNew DEF IInv
  <1>2. ASSUME NEW r \in Requests, ReadLock(r) \/ Verify(r) \/ Expire(r)
                 \/ SetLock(r) \/ Clear(r) \/ Unlock(r) \/ Abort(r)
        PROVE  IInv'
    <2>1. count' <= count
      BY <1>0, <1>2 DEF ReadLock, Verify, Expire, SetLock, Clear, Unlock, Abort,
         TypeOK
    <2>2. Admitted' \subseteq Admitted
      BY <1>0, <1>2 DEF ReadLock, Verify, Expire, SetLock, Clear, Unlock, Abort,
         Goto, Admitted, TypeOK
    <2> QED
      BY <1>0, <2>1, <2>2, NothingNew DEF IInv
  <1>3. ASSUME NEW r \in Requests, GetWhileLocked(r) \/ Get(r)
        PROVE  IInv'
    <2>1. CASE count < MaxAttempts
      BY <1>0, <1>3, <2>1, AdmittingOne DEF GetWhileLocked, Get, IInv
    <2>2. CASE ~(count < MaxAttempts)
      <3>1. Goto(r, "idle") /\ UNCHANGED count
        BY <1>0, <1>3, <2>2, LimiterAssumption
           DEF GetWhileLocked, Get, Decide, TypeOK, LimiterAssumption
      <3>2. count' <= count /\ Admitted' \subseteq Admitted
        BY <1>0, <3>1 DEF Goto, Admitted, TypeOK
      <3> QED
        BY <1>0, <3>2, NothingNew DEF IInv
    <2> QED
      BY <2>1, <2>2
  <1>4. ASSUME NEW r \in Requests, Incr(r)
        PROVE  IInv'
    <2>1. r \in Admitted /\ Admitted' = Admitted \ {r}
      BY <1>0, <1>4 DEF Incr, AfterIncr, Goto, Admitted, TypeOK
    <2>2. Cardinality(Admitted') = Cardinality(Admitted) - 1
      BY <2>1, AdmittedSome, FS_RemoveElement
    <2>3. count \in Nat /\ count' = count + 1
      BY <1>0, <1>4 DEF Incr, TypeOK
    <2>4. CountedOrAdmitted'
      BY <2>2, <2>3, AdmittedSome, RequestsFinite, LimiterAssumption
         DEF IInv, CountedOrAdmitted, LimiterAssumption
    <2> QED
      BY <1>0, <2>4 DEF IInv
  <1>5. CASE UNCHANGED vars
    <2>1. count' <= count /\ Admitted' \subseteq Admitted
      BY <1>0, <1>5 DEF vars, Admitted, TypeOK
    <2> QED
      BY <1>0, <2>1, NothingNew DEF IInv
  <1> QED
    BY <1>1, <1>2, <1>3, <1>4, <1>5 DEF Next, Login

LEMMA Invariance == Spec => []IInv
  BY InitIInv, StepIInv, PTL DEF Spec

(* TypeOK, for any settings. *)
THEOREM TypeCorrect == Spec => []TypeOK
  <1>1. IInv => TypeOK
    BY DEF IInv
  <1> QED
    BY <1>1, Invariance, PTL

(* However logins overlap, expire, succeed or are aborted, the failures counted
   exceed the limit by fewer than one for each of them. *)
THEOREM OvershootBoundedAlways == Spec => []OvershootBounded
  <1>1. IInv => OvershootBounded
    BY AdmittedSome, RequestsFinite, LimiterAssumption
       DEF IInv, TypeOK, CountedOrAdmitted, OvershootBounded, LimiterAssumption
  <1> QED
    BY <1>1, Invariance, PTL

-----------------------------------------------------------------------------
(* The safe part of LimitEnds: the window is opened, and not moved afterwards. *)

(* Only INCR, when there is no counter, makes a login open a window. *)
LEMMA OpeningStep ==
  ASSUME TypeOK, [Next]_vars
  PROVE  \/ Opening' \subseteq Opening
         \/ count = 0 /\ \E r \in Requests : Opening' = Opening \cup {r}
  <1>1. CASE Second \/ UNCHANGED vars
    BY <1>1 DEF Second, vars, Opening
  <1>2. ASSUME NEW r \in Requests, Incr(r)
        PROVE  \/ Opening' \subseteq Opening
               \/ count = 0 /\ Opening' = Opening \cup {r}
    <2>1. /\ count \in Nat /\ AfterIncr(r, count + 1) /\ pc[r] = "incr"
          /\ pc \in [Requests -> PCs]
      BY <1>2 DEF Incr, TypeOK
    <2>2. CASE count = 0
      BY <2>1, <2>2 DEF AfterIncr, Goto, Opening
    <2>3. CASE count /= 0
      <3>1. \/ Goto(r, "setlock")
            \/ Goto(r, "idle")
        BY <2>1, <2>3 DEF AfterIncr
      <3> QED
        BY <2>1, <3>1 DEF Goto, Opening
    <2> QED
      BY <2>2, <2>3
  <1>3. ASSUME NEW r \in Requests,
               ReadLock(r) \/ GetWhileLocked(r) \/ Get(r) \/ Verify(r) \/ Expire(r)
                 \/ SetLock(r) \/ Clear(r) \/ Unlock(r) \/ Abort(r)
        PROVE  Opening' \subseteq Opening
    BY <1>3 DEF ReadLock, GetWhileLocked, Get, Decide, Verify, Expire, SetLock, Clear,
       Unlock, Abort, Goto, Opening, TypeOK
  <1> QED
    BY <1>1, <1>2, <1>3 DEF Next, Login

LEMMA WindowStep ==
  ASSUME TypeOK, WindowWillOpen, [Next]_vars
  PROVE  WindowWillOpen'
  <1> SUFFICES ASSUME ~aborted', count' > 0, ttl' = NoExpiry
               PROVE  Opening' /= {}
    BY DEF WindowWillOpen
  <1> USE LimiterAssumption DEF LimiterAssumption, NoExpiry
  <1>1. CASE Second
    <2>1. ~aborted /\ count > 0 /\ ttl = NoExpiry
      <3>1. ~aborted
        BY <1>1, Zenon DEF Second
      <3>2. count > 0 /\ ttl = NoExpiry
        BY <1>1 DEF Second, TypeOK
      <3> QED
        BY <3>1, <3>2
    <2> QED
      BY <1>1, <2>1 DEF WindowWillOpen, Second, Opening
  <1>2. ASSUME NEW r \in Requests, Incr(r)
        PROVE  Opening' /= {}
    <2>1. CASE count = 0
      <3>1. pc' = [pc EXCEPT ![r] = "expire"]
        BY <1>2, <2>1 DEF Incr, AfterIncr, Goto
      <3>2. r \in Opening'
        BY <3>1 DEF TypeOK, Opening
      <3> QED
        BY <3>2
    <2>2. CASE count /= 0
      <3>1. ~aborted
        BY <1>2, Zenon DEF Incr
      <3>2. count > 0 /\ ttl = NoExpiry
        BY <1>2, <2>2 DEF Incr, TypeOK
      <3>3. PICK q \in Requests : pc[q] = "expire"
        BY <3>1, <3>2 DEF WindowWillOpen, Opening
      <3>4. pc'[q] = "expire"
        BY <1>2, <3>3 DEF Incr, AfterIncr, Goto, TypeOK
      <3> QED
        BY <3>4 DEF Opening
    <2> QED
      BY <2>1, <2>2
  <1>3. ASSUME NEW r \in Requests,
               ReadLock(r) \/ GetWhileLocked(r) \/ Get(r) \/ Verify(r)
                 \/ SetLock(r) \/ Unlock(r)
        PROVE  Opening' /= {}
    <2>1. ~aborted
      BY <1>3, Zenon DEF ReadLock, GetWhileLocked, Get, Verify, SetLock, Unlock
    <2>2. count > 0 /\ ttl = NoExpiry
      BY <1>3 DEF ReadLock, GetWhileLocked, Get, Verify, SetLock, Unlock
    <2>3. PICK q \in Requests : pc[q] = "expire"
      BY <2>1, <2>2 DEF WindowWillOpen, Opening
    <2>4. pc'[q] = "expire"
      BY <1>3, <2>3 DEF ReadLock, GetWhileLocked, Get, Decide, Verify, SetLock, Unlock,
         Goto, TypeOK
    <2> QED
      BY <2>4 DEF Opening
  <1>4. ASSUME NEW r \in Requests, Expire(r) \/ Clear(r)
        PROVE  FALSE
    BY <1>4 DEF Expire, Clear, TypeOK
  <1>5. ASSUME NEW r \in Requests, Abort(r)
        PROVE  FALSE
    BY <1>5, Zenon DEF Abort
  <1>6. CASE UNCHANGED vars
    <2>1. ~aborted
      BY <1>6, Zenon DEF vars
    <2> QED
      BY <1>6, <2>1 DEF vars, WindowWillOpen, Opening
  <1> QED
    BY <1>1, <1>2, <1>3, <1>4, <1>5, <1>6 DEF Next, Login

(* INCR and EXPIRE are two calls, and others come between them: unless a login was
   aborted between the two, a counter that has no expiry is about to be given one. *)
THEOREM WindowWillOpenAlways == Spec => []WindowWillOpen
  <1>1. Init => WindowWillOpen
    BY DEF Init, WindowWillOpen
  <1>2. IInv /\ WindowWillOpen /\ [Next]_vars => WindowWillOpen'
    BY WindowStep DEF IInv
  <1> QED
    BY <1>1, <1>2, Invariance, PTL DEF Spec

LEMMA NotProlongedStep ==
  ASSUME TypeOK, [Next]_vars, count >= MaxAttempts, count' >= MaxAttempts
  PROVE  /\ Opening' \subseteq Opening
         /\ Opening' = Opening => ttl' = ttl \/ ttl' \in 1..(ttl - 1)
  <1> USE LimiterAssumption DEF LimiterAssumption
  <1>1. Opening' \subseteq Opening
    <2>1. count /= 0
      BY DEF TypeOK
    <2> QED
      BY <2>1, OpeningStep
  <1>2. CASE Second
    <2>1. ttl' = ttl \/ ttl' \in 1..(ttl - 1)
      BY <1>2 DEF Second, TypeOK, NoExpiry
    <2> QED
      BY <1>1, <2>1
  <1>3. ASSUME NEW r \in Requests, Expire(r)
        PROVE  Opening' /= Opening
    BY <1>3 DEF Expire, Goto, Opening, TypeOK
  <1>4. ASSUME NEW r \in Requests, Incr(r)
        PROVE  ttl' = ttl
    BY <1>4 DEF Incr, TypeOK, NoExpiry
  <1>5. ASSUME NEW r \in Requests, Clear(r)
        PROVE  FALSE
    BY <1>5 DEF Clear
  <1>6. ASSUME NEW r \in Requests,
               ReadLock(r) \/ GetWhileLocked(r) \/ Get(r) \/ Verify(r)
                 \/ SetLock(r) \/ Unlock(r) \/ Abort(r)
        PROVE  ttl' = ttl
    BY <1>6 DEF ReadLock, GetWhileLocked, Get, Verify, SetLock, Unlock, Abort, TypeOK,
       NoExpiry
  <1>7. ASSUME UNCHANGED vars
        PROVE  ttl' = ttl
    BY <1>7 DEF vars
  <1> QED
    BY <1>1, <1>2, <1>3, <1>4, <1>5, <1>6, <1>7 DEF Next, Login

(* However many logins are tried, the end of a limit that was reached is moved by
   none but those that had begun to open the window before. *)
THEOREM LimitNotProlongedAlways == Spec => LimitNotProlonged
  <1>1. IInv /\ [Next]_vars =>
          [count >= MaxAttempts /\ count' >= MaxAttempts =>
             /\ Opening' \subseteq Opening
             /\ Opening' = Opening => ttl' = ttl \/ ttl' \in 1..(ttl - 1)]_vars
    BY NotProlongedStep DEF IInv
  <1> QED
    BY <1>1, Invariance, PTL DEF Spec, LimitNotProlonged
=============================================================================

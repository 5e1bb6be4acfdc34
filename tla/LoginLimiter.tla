---------------------------- MODULE LoginLimiter ----------------------------
(* The limit on failing logins (app/security/session_manager.py, used by
   POST /api/auth/login), for one pair of client and user name: the pairs do not
   share a key.  Two Redis keys make it up,

     auth:login_fail   the number of failures, expiring with the window
     auth:login_lock   present for some time after the limit was reached

   and a login is a sequence of separate Redis calls around the verification
   of the password, each of which other logins may come between.  A login is
   aborted when a call raises or the process ends.

   Expiry times are modelled by the seconds a key has left, so the clock needs
   no bound. *)
EXTENDS Integers, FiniteSets

CONSTANTS Requests,         \* logins that may be under way together
          MaxAttempts,      \* settings.auth_rate_limit_max_attempts   (8)
          WindowSec,        \* settings.auth_rate_limit_window_sec     (600)
          LockSec           \* settings.auth_rate_limit_lock_sec       (120)

ASSUME LimiterAssumption == /\ IsFiniteSet(Requests)
                            /\ {MaxAttempts, WindowSec, LockSec} \subseteq Nat \ {0}

VARIABLES pc,               \* per login: the next call
          count,            \* auth:login_fail, 0 when there is no key
          ttl,              \* the seconds it has left
          lock,             \* the seconds auth:login_lock has left, 0: no key
          age,              \* history: seconds since the lock was last set
          aborted           \* history: some login was aborted

vars == <<pc, count, ttl, lock, age, aborted>>

NoExpiry == -1              \* a key without expiry
Never == -1                 \* the lock was never set

PCs == {"idle", "getlocked", "get", "verify", "incr", "expire", "setlock",
        "clear", "unlock"}

Goto(r, step) == pc' = [pc EXCEPT ![r] = step]

-----------------------------------------------------------------------------
Init == /\ pc = [r \in Requests |-> "idle"]
        /\ count = 0 /\ ttl = 0
        /\ lock = 0
        /\ age = Never /\ aborted = FALSE

(* A second passes; a key whose time is over is gone. *)
Second ==
  /\ ttl' = IF ttl > 0 THEN ttl - 1 ELSE ttl
  /\ count' = IF ttl = 1 THEN 0 ELSE count
  /\ lock' = IF lock > 0 THEN lock - 1 ELSE lock
  /\ age' = IF age \in 0..(LockSec - 1) THEN age + 1 ELSE age
  /\ UNCHANGED <<pc, aborted>>

-----------------------------------------------------------------------------
(* get_fail_state: TTL of the lock, then GET of the counter. *)

ReadLock(r) == /\ pc[r] = "idle"
               /\ Goto(r, IF lock > 0 THEN "getlocked" ELSE "get")
               /\ UNCHANGED <<count, ttl, lock, age, aborted>>

\* Mutant: one failure too many.
DecideLate(r, n) == Goto(r, IF n > MaxAttempts THEN "idle" ELSE "verify")

(* The login is answered 429, or the password is looked at. *)
Decide(r, n) == Goto(r, IF n >= MaxAttempts THEN "idle" ELSE "verify")

(* With a lock, a counter that is gone counts as MaxAttempts. *)
GetWhileLocked(r) == /\ pc[r] = "getlocked"
                     /\ Decide(r, IF count = 0 THEN MaxAttempts ELSE count)
                     /\ UNCHANGED <<count, ttl, lock, age, aborted>>

Get(r) == /\ pc[r] = "get"
          /\ Decide(r, count)
          /\ UNCHANGED <<count, ttl, lock, age, aborted>>

(* authenticate_user: wrong, right, or an exception (another role, a malformed
   name, MySQL) that goes past the limiter. *)
Verify(r) == /\ pc[r] = "verify"
             /\ \E next \in {"incr", "clear", "idle"} : Goto(r, next)
             /\ UNCHANGED <<count, ttl, lock, age, aborted>>

-----------------------------------------------------------------------------
(* register_login_failure. *)

\* Mutant: the window is never opened.
AfterIncrNoExpire(r, n) == Goto(r, IF n >= MaxAttempts THEN "setlock" ELSE "idle")

\* Mutant: every failure opens the window anew.
AfterIncrSliding(r, n) == Goto(r, "expire")

(* The first failure opens the window; the limit sets the lock. *)
AfterIncr(r, n) == Goto(r, CASE n = 1 -> "expire"
                             [] n /= 1 /\ n >= MaxAttempts -> "setlock"
                             [] OTHER -> "idle")

Incr(r) == /\ pc[r] = "incr"
           /\ count' = count + 1
           /\ ttl' = IF count = 0 THEN NoExpiry ELSE ttl
           /\ AfterIncr(r, count + 1)
           /\ UNCHANGED <<lock, age, aborted>>

(* EXPIRE does nothing to a key that is gone.  The login has counted one. *)
Expire(r) == /\ pc[r] = "expire"
             /\ ttl' = IF count > 0 THEN WindowSec ELSE ttl
             /\ Goto(r, IF MaxAttempts = 1 THEN "setlock" ELSE "idle")
             /\ UNCHANGED <<count, lock, age, aborted>>

SetLock(r) == /\ pc[r] = "setlock"
              /\ lock' = LockSec /\ age' = 0
              /\ Goto(r, "idle")
              /\ UNCHANGED <<count, ttl, aborted>>

(* clear_login_failures: two DELs.  The session is created after them. *)
Clear(r) == /\ pc[r] = "clear"
            /\ count' = 0 /\ ttl' = 0
            /\ Goto(r, "unlock")
            /\ UNCHANGED <<lock, age, aborted>>

Unlock(r) == /\ pc[r] = "unlock"
             /\ lock' = 0
             /\ Goto(r, "idle")
             /\ UNCHANGED <<count, ttl, age, aborted>>

(* Redis raises, before or after the call took effect, or the process ends. *)
Abort(r) == /\ pc[r] /= "idle"
            /\ Goto(r, "idle")
            /\ aborted' = TRUE
            /\ UNCHANGED <<count, ttl, lock, age>>

Login(r) == \/ GetWhileLocked(r) \/ Get(r) \/ Verify(r)
            \/ Incr(r) \/ Expire(r) \/ SetLock(r)
            \/ Clear(r) \/ Unlock(r)

Next == \/ Second
        \/ \E r \in Requests : ReadLock(r) \/ Login(r) \/ Abort(r)

Spec == Init /\ [][Next]_vars

(* Time passes and every login that has begun goes on; none need begin. *)
FairSpec == Spec /\ WF_vars(Second) /\ \A r \in Requests : WF_vars(Login(r))

-----------------------------------------------------------------------------
TypeOK == /\ pc \in [Requests -> PCs]
          /\ count \in Nat
          /\ ttl \in NoExpiry..WindowSec
          /\ (count = 0) <=> (ttl = 0)
          /\ lock \in 0..LockSec
          /\ age \in Never..LockSec
          /\ aborted \in BOOLEAN

(* The limit is checked long before the failure is counted, so logins that run
   together may exceed it; but by no more than one failure for each of them,
   whatever expires, is cleared or is aborted in between. *)
OvershootBounded == count <= MaxAttempts - 1 + Cardinality(Requests)

(* A limit that was reached ends, however many logins go on being tried: those
   that are refused do not prolong it.  (An aborted login may leave a counter
   without expiry: INCR and EXPIRE are two calls.) *)
LimitEnds == []~aborted => (count >= MaxAttempts ~> count < MaxAttempts)

(* Logins that are about to set the expiry of the counter. *)
Opening == {r \in Requests : pc[r] = "expire"}

(* INCR and EXPIRE are two calls, with those of other logins between them: unless a
   login was aborted there, a counter without expiry is about to be given one. *)
WindowWillOpen == ~aborted /\ count > 0 /\ ttl = NoExpiry => Opening /= {}

(* Once the limit is reached no login, refused or still under way, comes to set the
   expiry of the counter: only those do that were about to, and apart from them the
   time it has left only falls. *)
LimitNotProlonged ==
  [][count >= MaxAttempts /\ count' >= MaxAttempts =>
       /\ Opening' \subseteq Opening
       /\ Opening' = Opening => ttl' = ttl \/ ttl' \in 1..(ttl - 1)]_vars

(* docs/AUTH_RULES.md, the limit: "then limited for 120 seconds".  A login that
   finds no lock, LockSec or more after the lock was set, is not refused.  But
   the counter lives on and refuses until its own window is over. *)
RefusalEndsWithLock ==
  [][\A r \in Requests :
       pc[r] = "get" /\ pc'[r] = "idle" /\ ~aborted' => age < LockSec]_vars
=============================================================================

------------------------------ MODULE Accounts ------------------------------
(* User accounts and sessions: app/services/auth_service.py, admin_service.py,
   security/auth.py, session_manager.py and user_repository.py behind
   routes_auth.py and routes_admin.py.

   Accounts are the rows of app_users in MySQL, sessions are keys of Redis, and
   every request is a thread of its own that opens a new database session for
   each query.  A request is therefore a sequence of steps, and other requests
   may change the account it is about between any two of them.

   A row is known by its id; deleting an account and registering it again makes
   another row.  A stored hash is represented by the password it verifies: the
   salt only makes every hash differ from every other.  is_active is left out
   (no code clears it), and so are the rules for names and passwords, which
   refuse a request before it has any effect. *)
EXTENDS Naturals

CONSTANTS Requests,         \* threads serving requests
          Usernames,        \* normalised names
          Bootstrap,        \* settings.auth_username
          SettingsPassword, \* settings.auth_password
          Passwords,
          TestAccounts,     \* the names that LIKE 'tester_%' matches
          Tokens,           \* bound: sessions alive together
          Operations,       \* the requests clients may send
          MaxRows,          \* bound: rows ever inserted
          MayFail           \* do calls raise and processes end

VARIABLES up,               \* is a process serving
          users,            \* table app_users, by username
          created,          \* rows inserted so far; ids count up
          sessions,         \* Redis keys auth:session:<token>: the user, if any
          req               \* the request each thread is serving

vars == <<up, users, created, sessions, req>>

Nobody == "nobody"
NoRow == [id |-> 0]
NoOp == [kind |-> "none"]
Roles == {"viewer", "admin"}

(* What clients ask for; the body of a register request is not checked yet. *)
Requestable ==
  [kind : {"register"}, user : Usernames, password : Passwords,
   role : Roles \cup {"guest"}, code : BOOLEAN]
  \cup [kind : {"login"}, user : Usernames, password : Passwords,
        role : Roles \cup {"any"}]
  \cup [kind : {"change"}, token : Tokens, current : Passwords, new : Passwords]
  \cup [kind : {"role"}, token : Tokens, user : Usernames, role : Roles]
  \cup [kind : {"delete"}, token : Tokens, user : Usernames]
  \cup [kind : {"cleanup", "session", "logout"}, token : Tokens]

ASSUME AccountsAssumption ==
  /\ Bootstrap \in Usernames /\ Nobody \notin Usernames
  /\ SettingsPassword \in Passwords
  /\ TestAccounts \subseteq Usernames
  /\ Operations \subseteq Requestable
  /\ MaxRows \in Nat
  /\ MayFail \in BOOLEAN

Steps == {"lookup", "insert", "refresh", "verify", "login", "logout", "session",
          "identity", "destroy", "fetch", "update", "act"}

(* A thread that serves no request; "error": the last one was answered by an
   unhandled exception.  actor is the user the request is authenticated as, row
   the row it has written.  History: granted, the actor was an administrator
   when asked; disturbed, a call has raised, the process has ended, or another
   request has created or deleted the account the request is about. *)
Idle == [step |-> "idle", op |-> NoOp, actor |-> Nobody, row |-> 0,
         granted |-> FALSE, disturbed |-> FALSE]
Failed(because) == [Idle EXCEPT !.step = "error", !.disturbed = because]

Busy(q) == req[q].step \in Steps
At(q, step) == req[q].step = step
Op(q) == req[q].op
Exists(u) == users[u] /= NoRow

(* The account a request is about. *)
Subject(q) == IF Op(q).kind \in {"register", "login", "role", "delete"}
                THEN Op(q).user ELSE req[q].actor

(* The request goes on as r, and those about the accounts in names, which it has
   created or deleted, are disturbed. *)
Becomes(q, r, names) ==
  req' = [p \in Requests |->
            IF p = q THEN r
            ELSE IF Busy(p) /\ Subject(p) \in names
                   THEN [req[p] EXCEPT !.disturbed = TRUE]
                   ELSE req[p]]

To(q, step) == IF step = "idle" THEN Idle ELSE [req[q] EXCEPT !.step = step]

(* A step that only reads. *)
Proceed(q, step) == /\ Becomes(q, To(q, step), {})
                    /\ UNCHANGED <<up, users, created, sessions>>

(* A call that had its effect may raise all the same. *)
Outcomes(r) == {r} \cup (IF MayFail THEN {Failed(TRUE)} ELSE {})

-----------------------------------------------------------------------------
Init == /\ up = FALSE
        /\ users = [u \in Usernames |-> NoRow]
        /\ created = 0
        /\ sessions = [t \in Tokens |-> Nobody]
        /\ req = [q \in Requests |-> Idle]

(* bootstrap_admin when the module is imported: the account of the settings
   exists, with their password and as an administrator. *)
Boot == /\ ~up
        /\ up' = TRUE
        /\ LET new == IF Exists(Bootstrap) THEN users[Bootstrap].id ELSE created + 1
           IN  /\ new <= MaxRows
               /\ users' = [users EXCEPT ![Bootstrap] =
                              [id |-> new, password |-> SettingsPassword,
                               role |-> "admin"]]
               /\ created' = IF Exists(Bootstrap) THEN created ELSE new
        /\ UNCHANGED <<sessions, req>>

(* The process ends; MySQL and Redis keep what they have. *)
ProcessEnds == /\ up /\ MayFail
               /\ up' = FALSE
               /\ req' = [q \in Requests |-> IF Busy(q) THEN Failed(TRUE) ELSE req[q]]
               /\ UNCHANGED <<users, created, sessions>>

(* A session's time is over. *)
Expire(t) == /\ sessions[t] /= Nobody
             /\ sessions' = [sessions EXCEPT ![t] = Nobody]
             /\ UNCHANGED <<up, users, created, req>>

(* A request arrives.  To register one needs a known role, and the code for an
   administrator; register, login and logout need no session. *)
FirstStep(o) ==
  CASE o.kind = "register" ->
         IF o.role \in Roles /\ (o.role = "admin" => o.code) THEN "lookup" ELSE "idle"
    [] o.kind = "login" -> "verify"
    [] o.kind = "logout" -> "logout"
    [] OTHER -> "session"

Arrive(q, o) ==
  /\ up /\ ~Busy(q)
  /\ Becomes(q, IF FirstStep(o) = "idle" THEN Idle
                ELSE [Idle EXCEPT !.step = FirstStep(o), !.op = o], {})
  /\ UNCHANGED <<up, users, created, sessions>>

(* An exception before the step has any effect. *)
Raises(q) == /\ MayFail /\ Busy(q)
             /\ Becomes(q, Failed(TRUE), {})
             /\ UNCHANGED <<up, users, created, sessions>>

-----------------------------------------------------------------------------
(* POST /api/auth/register. *)

SameCredentials(q) == /\ users[Op(q).user].password = Op(q).password
                      /\ users[Op(q).user].role = Op(q).role

(* A name that is taken is answered at once, 200 for the same credentials and
   409 for others; neither has an effect. *)
Lookup(q) ==
  /\ At(q, "lookup")
  /\ Proceed(q, IF Exists(Op(q).user) THEN "idle" ELSE "insert")

Insert(q) ==
  /\ At(q, "insert") /\ ~Exists(Op(q).user)
  /\ created < MaxRows
  /\ created' = created + 1
  /\ users' = [users EXCEPT ![Op(q).user] =
                 [id |-> created + 1, password |-> Op(q).password, role |-> Op(q).role]]
  /\ \E r \in Outcomes([To(q, "refresh") EXCEPT !.row = created + 1]) :
        Becomes(q, r, {Op(q).user})
  /\ UNCHANGED <<up, sessions>>

(* The unique key: another request was faster.  Nothing handles the exception. *)
InsertDuplicate(q) ==
  /\ At(q, "insert") /\ Exists(Op(q).user)
  /\ Becomes(q, Failed(req[q].disturbed), {})
  /\ UNCHANGED <<up, users, created, sessions>>

(* db.refresh after a commit: it raises if the row is gone. *)
Refresh(q) ==
  /\ At(q, "refresh")
  /\ Becomes(q, IF \E u \in Usernames : users[u].id = req[q].row
                  THEN Idle ELSE Failed(req[q].disturbed), {})
  /\ UNCHANGED <<up, users, created, sessions>>

-----------------------------------------------------------------------------
(* POST /api/auth/login without the limiter, and POST /api/auth/logout. *)

(* Refused: another name or password (401), or the account has another role than
   the one selected (403). *)
VerifyLogin(q) ==
  /\ At(q, "verify")
  /\ Proceed(q, IF /\ Exists(Op(q).user)
                   /\ users[Op(q).user].password = Op(q).password
                   /\ Op(q).role \in {users[Op(q).user].role, "any"}
                  THEN "login" ELSE "idle")

Carries(q, t) == Op(q).kind \notin {"none", "register", "login"} /\ Op(q).token = t

(* A new token; no request carries it yet. *)
CreateSession(q) ==
  /\ At(q, "login")
  /\ \E t \in Tokens :
       /\ sessions[t] = Nobody /\ \A p \in Requests : ~Carries(p, t)
       /\ sessions' = [sessions EXCEPT ![t] = Op(q).user]
  /\ \E r \in Outcomes(Idle) : Becomes(q, r, {})
  /\ UNCHANGED <<up, users, created>>

DestroySession(q) ==
  /\ At(q, "logout") \/ At(q, "destroy")
  /\ sessions' = [sessions EXCEPT ![Op(q).token] = Nobody]
  /\ \E r \in Outcomes(Idle) : Becomes(q, r, {})
  /\ UNCHANGED <<up, users, created>>

-----------------------------------------------------------------------------
(* get_optional_user (kind "session", which stands for every request that only
   reads), require_authenticated_user and require_admin_user. *)

ReadSession(q) ==
  /\ At(q, "session")
  /\ LET user == sessions[Op(q).token]
     IN  Becomes(q, IF user = Nobody THEN Idle
                    ELSE [To(q, "identity") EXCEPT !.actor = user], {})
  /\ UNCHANGED <<up, users, created, sessions>>

\* Mutant: whoever is authenticated may administer.
AuthorizedAnyone(q) == IF ~Exists(req[q].actor) THEN "destroy"
                       ELSE IF Op(q).kind = "session" THEN "idle"
                       ELSE IF Op(q).kind = "change" THEN "fetch" ELSE "act"

(* The role is the account's, read again for every request. *)
Authorized(q) ==
  IF ~Exists(req[q].actor) THEN "destroy"
  ELSE IF Op(q).kind = "session" THEN "idle"
  ELSE IF Op(q).kind = "change" THEN "fetch"
  ELSE IF users[req[q].actor].role = "admin" THEN "act" ELSE "idle"

ReadIdentity(q) ==
  /\ At(q, "identity")
  /\ LET r == To(q, Authorized(q))
         mayAct == Exists(req[q].actor) /\ users[req[q].actor].role = "admin"
     IN  Becomes(q, [r EXCEPT !.granted = mayAct /\ Authorized(q) /= "idle"], {})
  /\ UNCHANGED <<up, users, created, sessions>>

-----------------------------------------------------------------------------
(* PATCH /api/auth/password. *)

(* Refused: no account (404), another current password (401), the same password
   again (422). *)
Fetch(q) ==
  /\ At(q, "fetch")
  /\ Proceed(q, IF /\ Exists(req[q].actor)
                   /\ users[req[q].actor].password = Op(q).current
                   /\ Op(q).current /= Op(q).new
                  THEN "update" ELSE "idle")

UpdatePassword(q) ==
  /\ At(q, "update") /\ Exists(req[q].actor)
  /\ users' = [users EXCEPT ![req[q].actor].password = Op(q).new]
  /\ \E r \in Outcomes([To(q, "refresh") EXCEPT !.row = users[req[q].actor].id]) :
        Becomes(q, r, {})
  /\ UNCHANGED <<up, created, sessions>>

(* update_password finds no row any more: the service reads attributes of None. *)
UpdateGone(q) ==
  /\ At(q, "update") /\ ~Exists(req[q].actor)
  /\ Becomes(q, Failed(req[q].disturbed), {})
  /\ UNCHANGED <<up, users, created, sessions>>

-----------------------------------------------------------------------------
(* The administrators' requests. *)

UpdateRole(q) ==
  /\ At(q, "act") /\ Op(q).kind = "role" /\ Exists(Op(q).user)
  /\ users' = [users EXCEPT ![Op(q).user].role = Op(q).role]
  /\ \E r \in Outcomes([To(q, "refresh") EXCEPT !.row = users[Op(q).user].id]) :
        Becomes(q, r, {})
  /\ UNCHANGED <<up, created, sessions>>

DeleteRows(q, names) ==
  /\ users' = [u \in Usernames |-> IF u \in names THEN NoRow ELSE users[u]]
  /\ \E r \in Outcomes(Idle) : Becomes(q, r, {u \in names : Exists(u)})
  /\ UNCHANGED <<up, created, sessions>>

\* Mutants: one of the two accounts is not spared.
SparedNotActor(q) == {Bootstrap}
SparedNotBootstrap(q) == {req[q].actor}

(* Neither the actor's account nor the bootstrap account is ever deleted. *)
Spared(q) == {req[q].actor, Bootstrap}

DeleteUser(q) ==
  /\ At(q, "act") /\ Op(q).kind = "delete"
  /\ Exists(Op(q).user) /\ Op(q).user \notin Spared(q)
  /\ DeleteRows(q, {Op(q).user})

DeleteTestUsers(q) ==
  /\ At(q, "act") /\ Op(q).kind = "cleanup"
  /\ DeleteRows(q, TestAccounts \ Spared(q))

(* No such account (404), or one that is spared (409). *)
NoTarget(q) == \/ Op(q).kind \in {"role", "delete"} /\ ~Exists(Op(q).user)
               \/ Op(q).kind = "delete" /\ Op(q).user \in Spared(q)

\* Mutant: the None of update_role is serialized like a row.
RefuseTargetByCrash(q) ==
  /\ At(q, "act") /\ NoTarget(q)
  /\ Becomes(q, IF Op(q).kind = "role" THEN Failed(req[q].disturbed) ELSE Idle, {})
  /\ UNCHANGED <<up, users, created, sessions>>

RefuseTarget(q) == At(q, "act") /\ NoTarget(q) /\ Proceed(q, "idle")

-----------------------------------------------------------------------------
Handle(q) == \/ Raises(q)
             \/ Lookup(q) \/ Insert(q) \/ InsertDuplicate(q) \/ Refresh(q)
             \/ VerifyLogin(q) \/ CreateSession(q) \/ DestroySession(q)
             \/ ReadSession(q) \/ ReadIdentity(q)
             \/ Fetch(q) \/ UpdatePassword(q) \/ UpdateGone(q)
             \/ UpdateRole(q) \/ DeleteUser(q) \/ DeleteTestUsers(q)
             \/ RefuseTarget(q)

Next == \/ Boot \/ ProcessEnds
        \/ \E t \in Tokens : Expire(t)
        \/ \E q \in Requests, o \in Operations : Arrive(q, o)
        \/ \E q \in Requests : Handle(q)

Spec == Init /\ [][Next]_vars

-----------------------------------------------------------------------------
Rows == [id : 1..created, password : Passwords, role : Roles]
RequestType == [step : Steps \cup {"idle", "error"}, op : Operations \cup {NoOp},
                actor : Usernames \cup {Nobody}, row : 0..created,
                granted : BOOLEAN, disturbed : BOOLEAN]

(* Type invariant; no two accounts are the same row. *)
TypeOK == /\ up \in BOOLEAN
          /\ users \in [Usernames -> Rows \cup {NoRow}]
          /\ \A u, v \in Usernames :
                Exists(u) /\ Exists(v) /\ users[u].id = users[v].id => u = v
          /\ created \in 0..MaxRows
          /\ sessions \in [Tokens -> Usernames \cup {Nobody}]
          /\ req \in [Requests -> RequestType]

(* AdminService.delete_user, delete_test_users: from the first start on the
   bootstrap account exists, and it is the same row for ever, whatever is
   registered, deleted, cleaned up or restarted. *)
BootstrapStays ==
  IF created > 0 THEN Exists(Bootstrap) /\ users[Bootstrap].id = 1 ELSE ~up

(* A request that no failing call, no end of the process and no creation or
   deletion of its account by another has disturbed is never answered by an
   unhandled exception. *)
ErrorsNeedADisturbance ==
  \A q \in Requests : At(q, "error") => req[q].disturbed

(* The request q does this step. *)
Does(q, step) == At(q, step) /\ req'[q].step /= step

Deleted(u) == Exists(u) /\ users'[u] = NoRow
Replaced(u) == Exists(u) /\ users'[u] /= NoRow /\ users'[u] /= users[u]

(* An account disappears only by the request of an administrator, and never by
   its own: the check and the DELETE are separate, and in between the actor may
   have been demoted or deleted, but it is still spared. *)
DeletedByAnotherAdmin ==
  [][\A u \in Usernames : Deleted(u) =>
       \E q \in Requests : Does(q, "act") /\ req[q].granted /\ req[q].actor /= u]_vars

(* The password of an account is replaced only by a request authenticated as it,
   the role only by one of an administrator, and both by the start of the service
   for the bootstrap account: registering a name that is taken replaces nothing,
   however closely two registrations follow each other. *)
ReplacedByTheEntitled ==
  [][\A u \in Usernames : Replaced(u) =>
       /\ users'[u].id = users[u].id
       /\ \/ ~up /\ u = Bootstrap
          \/ /\ users'[u].role = users[u].role
             /\ \E q \in Requests : Does(q, "update") /\ req[q].actor = u
          \/ /\ users'[u].password = users[u].password
             /\ \E q \in Requests : Does(q, "act") /\ req[q].granted]_vars

(* docs/AUTH_RULES.md: registering the same name, password and role again is
   idempotent.  But the one of two such registrations that finds the name taken
   only when it inserts is answered by an unhandled exception. *)
RegistrationIsIdempotent ==
  [][\A q \in Requests :
       At(q, "insert") /\ Exists(Op(q).user) /\ SameCredentials(q)
         => req'[q].step /= "error"]_vars
=============================================================================

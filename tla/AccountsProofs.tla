--------------------------- MODULE AccountsProofs ---------------------------
(* Safety of Accounts for any number of requests, accounts, sessions and rows,
   and for whatever of the calls raise. *)
EXTENDS Accounts, TLAPS

-----------------------------------------------------------------------------
(* What a step makes of the requests. *)

LEMMA WideType ==
  ASSUME created \in Nat, created' \in Nat, created <= created'
  PROVE  RequestType \subseteq RequestType'
BY SMT DEF RequestType

LEMMA IdleType ==
  ASSUME created \in Nat
  PROVE  /\ Idle \in RequestType
         /\ \A b \in BOOLEAN : Failed(b) \in RequestType
<1>1. Idle \in RequestType
  BY SMT DEF Idle, RequestType, Steps
<1>2. ASSUME NEW b \in BOOLEAN PROVE Failed(b) \in RequestType
  BY <1>1, <1>2 DEF Failed, Idle, RequestType, Steps
<1> QED BY <1>1, <1>2

LEMMA ToType ==
  ASSUME created \in Nat, req \in [Requests -> RequestType], NEW q \in Requests,
         NEW step \in Steps \cup {"idle"}
  PROVE  To(q, step) \in RequestType
<1>1. CASE step = "idle"
  BY <1>1, IdleType DEF To
<1>2. CASE step /= "idle"
  <2>1. req[q] \in RequestType
    OBVIOUS
  <2> QED BY <1>2, <2>1 DEF To, RequestType
<1> QED BY <1>1, <1>2

LEMMA BecomesType ==
  ASSUME req \in [Requests -> RequestType],
         created \in Nat, created' \in Nat, created <= created',
         NEW q \in Requests, NEW r \in RequestType', NEW names,
         Becomes(q, r, names)
  PROVE  req' \in [Requests -> RequestType']
<1>1. ASSUME NEW p \in Requests
      PROVE  /\ req[p] \in RequestType'
             /\ [req[p] EXCEPT !.disturbed = TRUE] \in RequestType'
  <2>1. req[p] \in RequestType'
    BY WideType
  <2> QED BY <2>1 DEF RequestType
<1> QED BY <1>1 DEF Becomes

(* Every other request keeps all but its history. *)
LEMMA Others ==
  ASSUME req \in [Requests -> RequestType],
         NEW q \in Requests, NEW r, NEW names, Becomes(q, r, names)
  PROVE  /\ req'[q] = r
         /\ \A p \in Requests \ {q} :
              /\ req'[p].step = req[p].step /\ req'[p].op = req[p].op
              /\ req'[p].actor = req[p].actor /\ req'[p].row = req[p].row
              /\ req'[p].granted = req[p].granted
              /\ req[p].disturbed => req'[p].disturbed
              /\ Busy(p) /\ Subject(p) \in names => req'[p].disturbed
<1>1. req'[q] = r
  BY DEF Becomes
<1>2. ASSUME NEW p \in Requests \ {q}
      PROVE  /\ req'[p].step = req[p].step /\ req'[p].op = req[p].op
             /\ req'[p].actor = req[p].actor /\ req'[p].row = req[p].row
             /\ req'[p].granted = req[p].granted
             /\ req[p].disturbed => req'[p].disturbed
             /\ Busy(p) /\ Subject(p) \in names => req'[p].disturbed
  <2>1. req[p] \in RequestType
    OBVIOUS
  <2>2. CASE Busy(p) /\ Subject(p) \in names
    <3>1. req'[p] = [req[p] EXCEPT !.disturbed = TRUE]
      BY <2>2, <1>2 DEF Becomes
    <3> QED BY <3>1, <2>1 DEF RequestType
  <2>3. CASE ~(Busy(p) /\ Subject(p) \in names)
    <3>1. req'[p] = req[p]
      BY <2>3, <1>2 DEF Becomes
    <3> QED BY <3>1, <2>3
  <2> QED BY <2>2, <2>3
<1> QED BY <1>1, <1>2

-----------------------------------------------------------------------------
(* Each step belongs to its kinds of request: what the request carries, and
   whether its user is known and entitled. *)

Administrative == {"role", "delete", "cleanup"}

FitsRecord(r) ==
  /\ r.step \in {"lookup", "insert"} =>
       r.op.kind = "register" /\ r.op.role \in Roles
  /\ r.step \in {"verify", "login"} => r.op.kind = "login"
  /\ r.step \in {"session", "identity"} =>
       r.op.kind \in Administrative \cup {"change", "session"}
  /\ r.step \in {"fetch", "update"} => r.op.kind = "change"
  /\ r.step = "act" => r.op.kind \in Administrative /\ r.granted = TRUE
  /\ r.step \in {"identity", "fetch", "update", "act"} => r.actor \in Usernames

Fits == \A q \in Requests : FitsRecord(req[q])

(* What a request carries. *)
LEMMA Payload ==
  ASSUME NEW o \in Operations \cup {NoOp}
  PROVE  /\ o.kind \in {"none", "register", "login", "change", "role", "delete",
                        "cleanup", "session", "logout"}
         /\ o.kind \in {"register", "login", "role", "delete"} => o.user \in Usernames
         /\ o.kind = "register" => o.password \in Passwords
         /\ o.kind = "change" => o.new \in Passwords
         /\ o.kind = "role" => o.role \in Roles
         /\ o.kind \in Administrative \cup {"change", "session", "logout"}
              => o.token \in Tokens
<1>1. CASE o = NoOp
  BY <1>1 DEF NoOp, Administrative
<1>2. CASE o \in Operations
  <2>1. o \in Requestable
    BY <1>2, AccountsAssumption
  <2> QED BY <2>1 DEF Requestable, Administrative
<1> QED BY <1>1, <1>2

LEMMA IdleFits == /\ FitsRecord(Idle)
                  /\ \A b \in BOOLEAN : FitsRecord(Failed(b))
BY DEF FitsRecord, Idle, Failed

LEMMA ToFields ==
  ASSUME req \in [Requests -> RequestType], NEW q \in Requests, NEW step \in Steps
  PROVE  /\ To(q, step).step = step /\ To(q, step).op = req[q].op
         /\ To(q, step).actor = req[q].actor /\ To(q, step).row = req[q].row
         /\ To(q, step).granted = req[q].granted
         /\ To(q, step).disturbed = req[q].disturbed
<1>1. step /= "idle" /\ req[q] \in RequestType
  BY DEF Steps
<1> QED BY <1>1 DEF To, RequestType

LEMMA FitsStep ==
  ASSUME req \in [Requests -> RequestType], Fits,
         NEW q \in Requests, NEW r, NEW names, Becomes(q, r, names), FitsRecord(r)
  PROVE  Fits'
<1> SUFFICES ASSUME NEW p \in Requests PROVE FitsRecord(req'[p])
  BY DEF Fits
<1>1. CASE p = q
  BY <1>1, Others
<1>2. CASE p /= q
  <2>1. FitsRecord(req[p])
    BY DEF Fits
  <2>2. /\ req'[p].step = req[p].step /\ req'[p].op = req[p].op
        /\ req'[p].actor = req[p].actor /\ req'[p].granted = req[p].granted
    BY <1>2, Others
  <2> QED BY <2>1, <2>2 DEF FitsRecord
<1> QED BY <1>1, <1>2

(* Every step of a request makes of it a request of the type that fits. *)
LEMMA HandleRequest ==
  ASSUME created \in Nat, created' \in Nat, created <= created',
         users \in [Usernames -> Rows \cup {NoRow}],
         sessions \in [Tokens -> Usernames \cup {Nobody}],
         req \in [Requests -> RequestType], Fits,
         NEW q \in Requests, Handle(q)
  PROVE  \E r \in RequestType' : \E names :
           Becomes(q, r, names) /\ FitsRecord(r)
<1> DEFINE Good(r) == r \in RequestType' /\ FitsRecord(r)
<1>a. Good(Idle) /\ \A b \in BOOLEAN : Good(Failed(b))
  BY IdleType, IdleFits, WideType
<1>b. req[q] \in RequestType /\ FitsRecord(req[q])
  BY DEF Fits
<1>c. ASSUME NEW step \in Steps PROVE To(q, step) \in RequestType'
  BY <1>c, ToType, WideType
<1>d. ASSUME NEW r, Good(r), NEW x \in Outcomes(r) PROVE Good(x)
  BY <1>a, <1>d DEF Outcomes
<1>e. SUFFICES \E r, names : Becomes(q, r, names) /\ Good(r)
  BY <1>e
<1> HIDE DEF Good
<1>1. CASE Raises(q)
  BY <1>1, <1>a DEF Raises
<1>2. CASE Lookup(q)
  <2>1. Good(To(q, "insert"))
    BY <1>2, <1>b, <1>c, ToFields DEF Good, FitsRecord, Lookup, At, Steps
  <2>2. Good(To(q, "idle"))
    BY <1>a DEF To
  <2> QED BY <1>2, <2>1, <2>2 DEF Lookup, Proceed
<1>f. ASSUME NEW n \in 0..created' PROVE Good([To(q, "refresh") EXCEPT !.row = n])
  <2>1. To(q, "refresh") \in RequestType' /\ FitsRecord(To(q, "refresh"))
    BY <1>c, ToFields DEF Steps, FitsRecord
  <2>2. [To(q, "refresh") EXCEPT !.row = n] \in RequestType'
    BY <2>1 DEF RequestType
  <2>3. FitsRecord([To(q, "refresh") EXCEPT !.row = n])
    BY <2>1, ToFields DEF FitsRecord, Steps, RequestType
  <2> QED BY <2>2, <2>3 DEF Good
<1>g. Good(To(q, "idle"))
  BY <1>a DEF To
<1>h. req[q].disturbed \in BOOLEAN /\ Op(q) \in Operations \cup {NoOp}
  BY <1>b DEF RequestType, Op
<1>3. CASE Insert(q)
  <2>1. created + 1 \in 0..created'
    BY <1>3 DEF Insert
  <2>2. \A x \in Outcomes([To(q, "refresh") EXCEPT !.row = created + 1]) : Good(x)
    BY <2>1, <1>d, <1>f
  <2> QED BY <2>2, <1>3 DEF Insert
<1>4. CASE InsertDuplicate(q)
  BY <1>4, <1>a, <1>h DEF InsertDuplicate
<1>5. CASE Refresh(q)
  BY <1>5, <1>a, <1>h DEF Refresh
<1>6. CASE VerifyLogin(q)
  <2>1. Good(To(q, "login"))
    BY <1>6, <1>b, <1>c, ToFields DEF Good, FitsRecord, VerifyLogin, At, Steps
  <2> QED BY <1>6, <1>g, <2>1 DEF VerifyLogin, Proceed
<1>7. CASE CreateSession(q) \/ DestroySession(q)
  BY <1>7, <1>a, <1>d DEF CreateSession, DestroySession
<1>8. CASE ReadSession(q)
  <2> DEFINE user == sessions[Op(q).token]
  <2>1. Op(q).token \in Tokens
    BY <1>8, <1>b, <1>h, Payload DEF ReadSession, At, FitsRecord, Op
  <2>2. ASSUME user /= Nobody
        PROVE  Good([To(q, "identity") EXCEPT !.actor = user])
    <3>1. user \in Usernames
      BY <2>1, <2>2
    <3>2. To(q, "identity") \in RequestType'
      BY <1>c DEF Steps
    <3>3. [To(q, "identity") EXCEPT !.actor = user] \in RequestType'
      BY <3>1, <3>2 DEF RequestType
    <3>4. /\ To(q, "identity").step = "identity"
          /\ To(q, "identity").op.kind \in Administrative \cup {"change", "session"}
      BY <1>8, <1>b, ToFields DEF Steps, ReadSession, At, FitsRecord
    <3>5. FitsRecord([To(q, "identity") EXCEPT !.actor = user])
      BY <3>1, <3>2, <3>4 DEF FitsRecord, RequestType
    <3> QED BY <3>3, <3>5 DEF Good
  <2> QED BY <1>8, <1>a, <2>2 DEF ReadSession
<1>9. CASE ReadIdentity(q)
  <2> DEFINE mayAct == Exists(req[q].actor) /\ users[req[q].actor].role = "admin"
             next == [To(q, Authorized(q)) EXCEPT
                        !.granted = mayAct /\ Authorized(q) /= "idle"]
  <2>1. /\ req[q].op.kind \in Administrative \cup {"change", "session"}
        /\ req[q].actor \in Usernames
    BY <1>9, <1>b DEF ReadIdentity, At, FitsRecord
  <2>2. CASE Authorized(q) = "idle"
    <3>1. next = [Idle EXCEPT !.granted = FALSE]
      BY <2>2 DEF To
    <3>2. Good(next)
      <4>1. Idle \in RequestType' /\ Idle.step = "idle"
        BY <1>a DEF Good, Idle
      <4>2. /\ [Idle EXCEPT !.granted = FALSE] \in RequestType'
            /\ [Idle EXCEPT !.granted = FALSE].step = "idle"
        <5> HIDE DEF next, mayAct
        <5> QED BY <4>1 DEF RequestType
      <4>3. FitsRecord([Idle EXCEPT !.granted = FALSE])
        BY <4>2 DEF FitsRecord
      <4> QED BY <3>1, <4>2, <4>3 DEF Good
    <3> QED BY <1>9, <3>2 DEF ReadIdentity
  <2>3. CASE Authorized(q) \in {"destroy", "fetch", "act"}
    <3>1. To(q, Authorized(q)) \in RequestType'
      BY <2>3, <1>c DEF Steps
    <3>2. (mayAct /\ Authorized(q) /= "idle") \in BOOLEAN
      OBVIOUS
    <3>3. next \in RequestType'
      BY <3>1, <3>2 DEF RequestType
    <3>4. /\ next.step = Authorized(q) /\ next.op = req[q].op
          /\ next.actor = req[q].actor
          /\ next.granted = (mayAct /\ Authorized(q) /= "idle")
      BY <2>3, <3>1, ToFields DEF Steps, RequestType
    <3>5. CASE Authorized(q) = "act"
      <4>1. mayAct /\ req[q].op.kind \in Administrative
        BY <3>5, <2>1 DEF Authorized, Op
      <4>2. next.granted = TRUE
        BY <4>1, <3>4, <3>5
      <4>3. FitsRecord(next)
        BY <4>1, <4>2, <3>4, <3>5, <2>1 DEF FitsRecord
      <4> QED BY <4>3, <3>3, <1>9 DEF Good, ReadIdentity
    <3>6. CASE Authorized(q) \in {"destroy", "fetch"}
      <4>1. Authorized(q) = "fetch" => req[q].op.kind = "change"
        BY <2>1 DEF Authorized, Op
      <4>2. FitsRecord(next)
        BY <4>1, <3>4, <3>6, <2>1 DEF FitsRecord
      <4> QED BY <4>2, <3>3, <1>9 DEF Good, ReadIdentity
    <3> QED BY <2>3, <3>5, <3>6
  <2>4. Authorized(q) \in {"destroy", "fetch", "act", "idle"}
    BY DEF Authorized
  <2> QED BY <2>2, <2>3, <2>4
<1>10. CASE Fetch(q)
  <2>1. Good(To(q, "update"))
    BY <1>10, <1>b, <1>c, ToFields DEF Good, FitsRecord, Fetch, At, Steps
  <2> QED BY <1>10, <1>g, <2>1 DEF Fetch, Proceed
<1>11. CASE UpdatePassword(q)
  <2>1. req[q].actor \in Usernames /\ users[req[q].actor] /= NoRow
    BY <1>11, <1>b DEF UpdatePassword, At, FitsRecord, Exists
  <2>2. users[req[q].actor].id \in 0..created'
    BY <2>1 DEF Rows
  <2>3. \A x \in Outcomes([To(q, "refresh") EXCEPT
                              !.row = users[req[q].actor].id]) : Good(x)
    BY <2>2, <1>d, <1>f
  <2> QED BY <2>3, <1>11 DEF UpdatePassword
<1>12. CASE UpdateGone(q)
  BY <1>12, <1>a, <1>h DEF UpdateGone
<1>13. CASE UpdateRole(q)
  <2>1. Op(q).user \in Usernames /\ users[Op(q).user] /= NoRow
    BY <1>13, <1>h, Payload DEF UpdateRole, Exists
  <2>2. users[Op(q).user].id \in 0..created'
    BY <2>1 DEF Rows
  <2>3. \A x \in Outcomes([To(q, "refresh") EXCEPT
                              !.row = users[Op(q).user].id]) : Good(x)
    BY <2>2, <1>d, <1>f
  <2> QED BY <2>3, <1>13 DEF UpdateRole
<1>14. CASE DeleteUser(q) \/ DeleteTestUsers(q)
  BY <1>14, <1>a, <1>d DEF DeleteUser, DeleteTestUsers, DeleteRows
<1>15. CASE RefuseTarget(q)
  BY <1>15, <1>g DEF RefuseTarget, Proceed
<1> QED
  BY <1>1, <1>2, <1>3, <1>4, <1>5, <1>6, <1>7, <1>8, <1>9, <1>10, <1>11,
     <1>12, <1>13, <1>14, <1>15 DEF Handle

-----------------------------------------------------------------------------
(* What a step makes of the accounts. *)

(* The accounts' part of the type invariant. *)
UsersOK == /\ users \in [Usernames -> Rows \cup {NoRow}]
           /\ \A u, v \in Usernames :
                Exists(u) /\ Exists(v) /\ users[u].id = users[v].id => u = v

LEMMA RowFacts ==
  ASSUME created \in Nat, NEW r \in Rows
  PROVE  /\ r /= NoRow
         /\ r.id \in 1..created /\ r.password \in Passwords /\ r.role \in Roles
<1>1. r.id \in 1..created /\ r.password \in Passwords /\ r.role \in Roles
  BY DEF Rows
<1>2. r.id /= NoRow.id
  BY <1>1 DEF NoRow
<1> QED BY <1>1, <1>2

LEMMA WideRows ==
  ASSUME created \in Nat, created' \in Nat, created <= created'
  PROVE  Rows \subseteq Rows'
BY SMT DEF Rows

LEMMA MakeRow ==
  ASSUME NEW i \in 1..created', NEW p \in Passwords, NEW r \in Roles
  PROVE  [id |-> i, password |-> p, role |-> r] \in Rows'
BY DEF Rows

(* One row is written: an account's own again, with its id, or a new one. *)
LEMMA WriteRow ==
  ASSUME created \in Nat, created' \in Nat, created <= created', UsersOK,
         NEW u \in Usernames, NEW r \in Rows',
         users' = [users EXCEPT ![u] = r],
         (Exists(u) /\ r.id = users[u].id) \/ r.id = created + 1
  PROVE  UsersOK'
<1>1. users' \in [Usernames -> Rows' \cup {NoRow}]
  BY WideRows DEF UsersOK
<1>2. ASSUME NEW v \in Usernames, NEW w \in Usernames,
             users'[v] /= NoRow, users'[w] /= NoRow, users'[v].id = users'[w].id
      PROVE  v = w
  <2>1. users'[u] = r /\ \A x \in Usernames \ {u} : users'[x] = users[x]
    BY DEF UsersOK
  <2>2. ASSUME NEW x \in Usernames \ {u}, users'[x] /= NoRow
        PROVE  users'[x].id /= r.id
    <3>1. users[x] \in Rows /\ users'[x] = users[x]
      BY <2>1, <2>2 DEF UsersOK
    <3>2. users[x].id \in 1..created /\ Exists(x)
      BY <2>2, <3>1, RowFacts DEF Exists
    <3>3. CASE Exists(u) /\ r.id = users[u].id
      BY <3>1, <3>2, <3>3 DEF UsersOK
    <3>4. CASE r.id = created + 1
      BY <3>1, <3>2, <3>4
    <3> QED BY <3>3, <3>4
  <2>3. CASE v /= u /\ w /= u
    BY <1>2, <2>1, <2>3 DEF UsersOK, Exists
  <2> QED BY <1>2, <2>1, <2>2, <2>3
<1> QED BY <1>1, <1>2 DEF UsersOK, Exists

LEMMA ForgetRows ==
  ASSUME UsersOK, UNCHANGED created, NEW names,
         users' = [u \in Usernames |-> IF u \in names THEN NoRow ELSE users[u]]
  PROVE  UsersOK'
<1>1. Rows' = Rows
  BY DEF Rows
<1>2. users' \in [Usernames -> Rows' \cup {NoRow}]
  BY <1>1 DEF UsersOK
<1>3. \A u \in Usernames : users'[u] /= NoRow => users'[u] = users[u]
  OBVIOUS
<1> QED BY <1>2, <1>3 DEF UsersOK, Exists

(* What each of the steps that write accounts makes of them. *)
LEMMA InsertRow ==
  ASSUME TypeOK, Fits, NEW q \in Requests, Insert(q)
  PROVE  /\ Op(q).user \in Usernames /\ ~Exists(Op(q).user)
         /\ created' = created + 1 /\ created < MaxRows
         /\ \E r \in Rows' : r.id = created + 1
                             /\ users' = [users EXCEPT ![Op(q).user] = r]
<1>1. Op(q) \in Operations \cup {NoOp} /\ Op(q).kind = "register" /\ Op(q).role \in Roles
  BY DEF TypeOK, RequestType, Op, Fits, FitsRecord, Insert, At
<1>2. Op(q).user \in Usernames /\ Op(q).password \in Passwords
  BY <1>1, Payload
<1>3. created' = created + 1 /\ created \in Nat
  BY DEF TypeOK, Insert
<1>4. [id |-> created + 1, password |-> Op(q).password, role |-> Op(q).role] \in Rows'
  BY <1>1, <1>2, <1>3, MakeRow
<1> QED BY <1>2, <1>3, <1>4 DEF Insert

LEMMA PasswordRow ==
  ASSUME TypeOK, Fits, NEW q \in Requests, UpdatePassword(q)
  PROVE  /\ req[q].actor \in Usernames /\ Exists(req[q].actor) /\ created' = created
         /\ \E r \in Rows' :
              /\ r.id = users[req[q].actor].id /\ r.role = users[req[q].actor].role
              /\ users' = [users EXCEPT ![req[q].actor] = r]
<1> DEFINE u == req[q].actor
           r == [users[u] EXCEPT !.password = Op(q).new]
<1>1. u \in Usernames /\ Exists(u) /\ created' = created
  BY DEF Fits, FitsRecord, UpdatePassword, At
<1>2. Op(q).new \in Passwords
  <2>1. Op(q) \in Operations \cup {NoOp} /\ Op(q).kind = "change"
    BY DEF TypeOK, RequestType, Op, Fits, FitsRecord, UpdatePassword, At
  <2> QED BY <2>1, Payload
<1>3. users[u] \in Rows /\ Rows' = Rows
  BY <1>1 DEF TypeOK, Exists, Rows
<1>4. r \in Rows' /\ r.id = users[u].id /\ r.role = users[u].role
  BY <1>2, <1>3 DEF Rows
<1>5. users' = [users EXCEPT ![u] = r]
  BY DEF UpdatePassword
<1> QED BY <1>1, <1>4, <1>5

LEMMA RoleRow ==
  ASSUME TypeOK, Fits, NEW q \in Requests, UpdateRole(q)
  PROVE  /\ Op(q).user \in Usernames /\ Exists(Op(q).user) /\ created' = created
         /\ \E r \in Rows' :
              /\ r.id = users[Op(q).user].id
              /\ r.password = users[Op(q).user].password
              /\ users' = [users EXCEPT ![Op(q).user] = r]
<1> DEFINE u == Op(q).user
           r == [users[u] EXCEPT !.role = Op(q).role]
<1>1. u \in Usernames /\ Op(q).role \in Roles
  <2>1. Op(q) \in Operations \cup {NoOp} /\ Op(q).kind = "role"
    BY DEF TypeOK, RequestType, Op, UpdateRole
  <2> QED BY <2>1, Payload
<1>2. Exists(u) /\ created' = created
  BY DEF UpdateRole
<1>3. users[u] \in Rows /\ Rows' = Rows
  BY <1>1, <1>2 DEF TypeOK, Exists, Rows
<1>4. r \in Rows' /\ r.id = users[u].id /\ r.password = users[u].password
  BY <1>1, <1>3 DEF Rows
<1>5. users' = [users EXCEPT ![u] = r]
  BY DEF UpdateRole
<1> QED BY <1>1, <1>2, <1>4, <1>5

LEMMA DeletedRows ==
  ASSUME NEW q \in Requests, DeleteUser(q) \/ DeleteTestUsers(q)
  PROVE  /\ created' = created
         /\ \E names : /\ names \cap Spared(q) = {}
                       /\ DeleteRows(q, names)
BY AccountsAssumption DEF DeleteUser, DeleteTestUsers, DeleteRows

LEMMA BootRow ==
  ASSUME TypeOK, Boot
  PROVE  /\ created' \in Nat /\ created <= created' /\ created' <= MaxRows
         /\ Exists(Bootstrap) => created' = created
         /\ ~Exists(Bootstrap) => created' = created + 1
         /\ \E r \in Rows' :
              /\ Exists(Bootstrap) => r.id = users[Bootstrap].id
              /\ ~Exists(Bootstrap) => r.id = created + 1
              /\ users' = [users EXCEPT ![Bootstrap] = r]
<1> DEFINE new == IF Exists(Bootstrap) THEN users[Bootstrap].id ELSE created + 1
<1>1. Exists(Bootstrap) => users[Bootstrap].id \in 1..created
  BY AccountsAssumption, RowFacts DEF TypeOK, Exists
<1>2. /\ new <= MaxRows
      /\ users' = [users EXCEPT ![Bootstrap] =
                     [id |-> new, password |-> SettingsPassword, role |-> "admin"]]
      /\ created' = IF Exists(Bootstrap) THEN created ELSE new
  BY DEF Boot
<1>3. created' \in Nat /\ created <= created' /\ created' <= MaxRows /\ new \in 1..created'
  BY <1>1, <1>2, AccountsAssumption DEF TypeOK
<1>4. [id |-> new, password |-> SettingsPassword, role |-> "admin"] \in Rows'
  BY <1>3, AccountsAssumption, MakeRow DEF Roles
<1> QED BY <1>2, <1>3, <1>4

(* A request leaves the process alone, and only five steps write accounts. *)
LEMMA HandleOutside ==
  ASSUME TypeOK, Fits, NEW q \in Requests, Handle(q)
  PROVE  /\ up' = up /\ Busy(q)
         /\ sessions' \in [Tokens -> Usernames \cup {Nobody}]
         /\ \/ UNCHANGED <<users, created>>
            \/ Insert(q) \/ UpdatePassword(q) \/ UpdateRole(q)
            \/ DeleteUser(q) \/ DeleteTestUsers(q)
<1>1. sessions \in [Tokens -> Usernames \cup {Nobody}]
  BY DEF TypeOK
<1>2. Op(q).kind = "login" => Op(q).user \in Usernames
  BY Payload DEF TypeOK, RequestType, Op
<1>3. At(q, "login") => Op(q).kind = "login"
  BY DEF Fits, FitsRecord, At, Op
<1>4. CASE Raises(q) \/ Lookup(q) \/ InsertDuplicate(q) \/ Refresh(q)
  BY <1>4, <1>1
  DEF Raises, Lookup, InsertDuplicate, Refresh, Proceed, Busy, At, Steps
<1>5. CASE VerifyLogin(q) \/ ReadSession(q) \/ ReadIdentity(q) \/ Fetch(q)
  BY <1>5, <1>1
  DEF VerifyLogin, ReadSession, ReadIdentity, Fetch, Proceed, Busy, At, Steps
<1>6. CASE CreateSession(q) \/ DestroySession(q)
  BY <1>6, <1>1, <1>2, <1>3 DEF CreateSession, DestroySession, Busy, At, Steps
<1>7. CASE UpdateGone(q) \/ RefuseTarget(q)
  BY <1>7, <1>1 DEF UpdateGone, RefuseTarget, Proceed, Busy, At, Steps
<1>8. CASE Insert(q) \/ UpdatePassword(q) \/ UpdateRole(q)
  BY <1>8, <1>1 DEF Insert, UpdatePassword, UpdateRole, Busy, At, Steps
<1>9. CASE DeleteUser(q) \/ DeleteTestUsers(q)
  BY <1>9, <1>1 DEF DeleteUser, DeleteTestUsers, DeleteRows, Busy, At, Steps
<1> QED
  BY <1>4, <1>5, <1>6, <1>7, <1>8, <1>9 DEF Handle

LEMMA HandleUsers ==
  ASSUME TypeOK, Fits, NEW q \in Requests, Handle(q)
  PROVE  /\ created' \in Nat /\ created <= created' /\ created' <= MaxRows
         /\ UsersOK'
<1>1. UsersOK /\ created \in Nat /\ created <= MaxRows /\ MaxRows \in Nat
  BY AccountsAssumption DEF TypeOK, UsersOK
<1>2. CASE UNCHANGED <<users, created>>
  BY <1>1, <1>2 DEF UsersOK, Rows, Exists
<1>3. CASE Insert(q)
  BY <1>1, <1>3, InsertRow, WriteRow
<1>4. CASE UpdatePassword(q)
  BY <1>1, <1>4, PasswordRow, WriteRow
<1>5. CASE UpdateRole(q)
  BY <1>1, <1>5, RoleRow, WriteRow
<1>6. CASE DeleteUser(q) \/ DeleteTestUsers(q)
  <2>1. PICK names : DeleteRows(q, names)
    BY <1>6, DeletedRows
  <2> QED BY <1>1, <2>1, ForgetRows DEF DeleteRows
<1> QED BY <1>2, <1>3, <1>4, <1>5, <1>6, HandleOutside

-----------------------------------------------------------------------------
(* The inductive invariant.  TypeOK needs that every step belongs to its kinds of
   request; BootstrapStays needs that nobody is served before the first start. *)

DownIsIdle == up \/ \A q \in Requests : ~Busy(q)

IInv == TypeOK /\ Fits /\ DownIsIdle

LEMMA ArriveRequest ==
  ASSUME TypeOK, Fits, NEW q \in Requests, NEW o \in Operations, Arrive(q, o)
  PROVE  \E r \in RequestType : \E names : Becomes(q, r, names) /\ FitsRecord(r)
<1> DEFINE r == [Idle EXCEPT !.step = FirstStep(o), !.op = o]
<1>1. Idle \in RequestType /\ FitsRecord(Idle)
  BY IdleType, IdleFits DEF TypeOK
<1>2. CASE FirstStep(o) = "idle"
  BY <1>1, <1>2 DEF Arrive
<1>3. CASE FirstStep(o) /= "idle"
  <2>1. o.kind \in {"register", "login", "change", "role", "delete",
                    "cleanup", "session", "logout"}
    BY AccountsAssumption DEF Requestable
  <2>2. FirstStep(o) \in {"lookup", "verify", "logout", "session"}
    BY <1>3, <2>1 DEF FirstStep
  <2>3. r \in RequestType /\ r.step = FirstStep(o) /\ r.op = o
    BY <1>1, <2>2 DEF RequestType, Steps
  <2>4. FitsRecord(r)
    BY <1>3, <2>1, <2>2, <2>3 DEF FitsRecord, FirstStep, Administrative
  <2> QED BY <1>3, <2>3, <2>4 DEF Arrive
<1> QED BY <1>2, <1>3

LEMMA InitInvariant == Init => IInv
<1> SUFFICES ASSUME Init PROVE IInv
  OBVIOUS
<1>1. created \in Nat /\ created = 0 /\ created \in 0..MaxRows
  BY AccountsAssumption DEF Init
<1>2. Idle \in RequestType /\ FitsRecord(Idle) /\ Idle.step = "idle"
  BY <1>1, IdleType, IdleFits DEF Idle
<1>3. TypeOK
  BY <1>1, <1>2 DEF Init, TypeOK, Exists
<1>4. Fits /\ DownIsIdle
  BY <1>2 DEF Init, Fits, DownIsIdle, Busy, Steps
<1> QED BY <1>3, <1>4 DEF IInv

LEMMA NextInvariant == IInv /\ [Next]_vars => IInv'
<1> SUFFICES ASSUME IInv, [Next]_vars PROVE IInv'
  OBVIOUS
<1>1. /\ TypeOK /\ Fits /\ DownIsIdle /\ UsersOK /\ created \in Nat
      /\ req \in [Requests -> RequestType] /\ up \in BOOLEAN
      /\ sessions \in [Tokens -> Usernames \cup {Nobody}]
  BY DEF IInv, TypeOK, UsersOK
<1>2. CASE UNCHANGED vars
  <2>1. RequestType' = RequestType /\ Rows' = Rows
    BY <1>2 DEF vars, RequestType, Rows
  <2> QED BY <1>1, <1>2, <2>1
          DEF vars, IInv, TypeOK, Fits, DownIsIdle, Busy, Exists
<1>3. CASE Boot
  <2>1. /\ created' \in Nat /\ created <= created' /\ created' <= MaxRows
        /\ UsersOK'
    BY <1>1, <1>3, BootRow, WriteRow, AccountsAssumption
  <2>2. created' \in 0..MaxRows
    BY <2>1, AccountsAssumption
  <2>3. up' = TRUE /\ sessions' = sessions /\ req' = req
    BY <1>3 DEF Boot
  <2>4. req' \in [Requests -> RequestType']
    BY <1>1, <2>1, <2>3, WideType
  <2> QED BY <1>1, <2>1, <2>2, <2>3, <2>4
          DEF IInv, TypeOK, UsersOK, Fits, DownIsIdle
<1>4. CASE ProcessEnds
  <2>1. /\ up' = FALSE /\ UNCHANGED <<users, created, sessions>>
        /\ req' = [q \in Requests |-> IF Busy(q) THEN Failed(TRUE) ELSE req[q]]
    BY <1>4 DEF ProcessEnds
  <2>2. RequestType' = RequestType /\ Rows' = Rows
    BY <2>1 DEF RequestType, Rows
  <2>3. Failed(TRUE) \in RequestType /\ FitsRecord(Failed(TRUE))
    BY <1>1, IdleType, IdleFits
  <2>4. Failed(TRUE).step = "error"
    BY DEF Failed, Idle
  <2>5. req' \in [Requests -> RequestType'] /\ Fits'
    BY <1>1, <2>1, <2>2, <2>3 DEF Fits
  <2>6. DownIsIdle'
    BY <2>1, <2>4 DEF DownIsIdle, Busy, Steps
  <2> QED BY <1>1, <2>1, <2>2, <2>5, <2>6 DEF IInv, TypeOK, Exists
<1>5. ASSUME NEW t \in Tokens, Expire(t) PROVE IInv'
  <2>1. /\ UNCHANGED <<up, users, created, req>>
        /\ sessions' \in [Tokens -> Usernames \cup {Nobody}]
    BY <1>1, <1>5 DEF Expire
  <2>2. RequestType' = RequestType /\ Rows' = Rows
    BY <2>1 DEF RequestType, Rows
  <2> QED BY <1>1, <2>1, <2>2
          DEF IInv, TypeOK, Fits, DownIsIdle, Busy, Exists
<1>6. ASSUME NEW q \in Requests, NEW o \in Operations, Arrive(q, o) PROVE IInv'
  <2>1. UNCHANGED <<up, users, created, sessions>> /\ up
    BY <1>6 DEF Arrive
  <2>2. RequestType' = RequestType /\ Rows' = Rows
    BY <2>1 DEF RequestType, Rows
  <2>3. PICK r \in RequestType' : \E names : Becomes(q, r, names) /\ FitsRecord(r)
    BY <1>1, <1>6, <2>2, ArriveRequest
  <2>4. req' \in [Requests -> RequestType'] /\ Fits'
    BY <1>1, <2>1, <2>3, BecomesType, FitsStep
  <2> QED BY <1>1, <2>1, <2>2, <2>4 DEF IInv, TypeOK, DownIsIdle, Exists
<1>7. ASSUME NEW q \in Requests, Handle(q) PROVE IInv'
  <2>1. /\ created' \in Nat /\ created <= created' /\ created' <= MaxRows
        /\ UsersOK'
    BY <1>1, <1>7, HandleUsers
  <2>2. created' \in 0..MaxRows
    BY <2>1, AccountsAssumption
  <2>3. /\ up' = up /\ Busy(q)
        /\ sessions' \in [Tokens -> Usernames \cup {Nobody}]
    BY <1>1, <1>7, HandleOutside
  <2>4. PICK r \in RequestType' : \E names : Becomes(q, r, names) /\ FitsRecord(r)
    BY <1>1, <1>7, <2>1, HandleRequest DEF UsersOK
  <2>5. req' \in [Requests -> RequestType'] /\ Fits'
    BY <1>1, <2>1, <2>4, BecomesType, FitsStep
  <2> QED BY <1>1, <2>1, <2>2, <2>3, <2>5 DEF IInv, TypeOK, UsersOK, DownIsIdle
<1> QED BY <1>2, <1>3, <1>4, <1>5, <1>6, <1>7 DEF Next

(* The rows, the sessions and the requests keep their types, and no two accounts
   are the same row, for any number of them. *)
THEOREM TypeCorrect == Spec => []TypeOK
<1>1. IInv => TypeOK
  BY DEF IInv
<1> QED BY <1>1, InitInvariant, NextInvariant, PTL DEF Spec

-----------------------------------------------------------------------------
(* The bootstrap account. *)

LEMMA BootstrapInit == Init => BootstrapStays
BY DEF Init, BootstrapStays

LEMMA BootstrapKept ==
  ASSUME IInv, BootstrapStays, Next
  PROVE  BootstrapStays'
<1>1. /\ TypeOK /\ Fits /\ DownIsIdle /\ created \in Nat
      /\ Bootstrap \in Usernames /\ users \in [Usernames -> Rows \cup {NoRow}]
  BY AccountsAssumption DEF IInv, TypeOK
<1>2. CASE Boot
  <2>1. PICK r \in Rows' : /\ Exists(Bootstrap) => r.id = users[Bootstrap].id
                           /\ ~Exists(Bootstrap) => r.id = created + 1
                           /\ users' = [users EXCEPT ![Bootstrap] = r]
    BY <1>1, <1>2, BootRow
  <2>2. /\ created' \in Nat
        /\ Exists(Bootstrap) => created' = created
        /\ ~Exists(Bootstrap) => created' = created + 1
    BY <1>1, <1>2, BootRow
  <2>3. users'[Bootstrap] = r /\ r \in Rows' /\ r /= NoRow /\ r.id \in 1..created'
    BY <1>1, <2>1, <2>2 DEF Rows, NoRow
  <2>4. CASE Exists(Bootstrap)
    <3>1. users[Bootstrap].id \in 1..created
      BY <1>1, <2>4, RowFacts DEF Exists
    <3>2. users[Bootstrap].id = 1
      BY <1>1, <3>1 DEF BootstrapStays
    <3> QED BY <2>1, <2>2, <2>3, <2>4, <3>1, <3>2 DEF BootstrapStays, Exists
  <2>5. CASE ~Exists(Bootstrap)
    <3>1. created = 0
      BY <1>1, <2>5 DEF BootstrapStays
    <3> QED BY <2>1, <2>2, <2>3, <2>5, <3>1 DEF BootstrapStays, Exists
  <2> QED BY <2>4, <2>5
<1>3. CASE ProcessEnds
  BY <1>3 DEF ProcessEnds, BootstrapStays, Exists
<1>4. ASSUME NEW t \in Tokens, Expire(t) PROVE BootstrapStays'
  BY <1>4 DEF Expire, BootstrapStays, Exists
<1>5. ASSUME NEW q \in Requests, NEW o \in Operations, Arrive(q, o)
      PROVE  BootstrapStays'
  BY <1>5 DEF Arrive, BootstrapStays, Exists
<1>6. ASSUME NEW q \in Requests, Handle(q) PROVE BootstrapStays'
  <2>1. up /\ up' = up
    BY <1>1, <1>6, HandleOutside DEF DownIsIdle
  <2>2. created > 0 /\ Exists(Bootstrap) /\ users[Bootstrap].id = 1
    BY <1>1, <2>1 DEF BootstrapStays
  <2>3. created' > 0
    BY <1>1, <1>6, <2>2, HandleUsers
  <2>4. users'[Bootstrap] /= NoRow /\ users'[Bootstrap].id = 1
    <3>1. CASE UNCHANGED <<users, created>>
      BY <3>1, <2>2 DEF Exists
    <3>2. CASE Insert(q)
      BY <1>1, <2>2, <3>2, InsertRow DEF Exists
    <3>3. CASE UpdatePassword(q)
      <4>1. PICK r \in Rows' : /\ r.id = users[req[q].actor].id
                               /\ users' = [users EXCEPT ![req[q].actor] = r]
        BY <1>1, <3>3, PasswordRow
      <4>2. r /= NoRow
        BY <1>1, <1>6, HandleUsers DEF Rows, NoRow
      <4> QED BY <1>1, <2>2, <4>1, <4>2 DEF Exists
    <3>4. CASE UpdateRole(q)
      <4>1. PICK r \in Rows' : /\ r.id = users[Op(q).user].id
                               /\ users' = [users EXCEPT ![Op(q).user] = r]
        BY <1>1, <3>4, RoleRow
      <4>2. r /= NoRow
        BY <1>1, <1>6, HandleUsers DEF Rows, NoRow
      <4> QED BY <1>1, <2>2, <4>1, <4>2 DEF Exists
    <3>5. CASE DeleteUser(q) \/ DeleteTestUsers(q)
      <4>1. PICK names : names \cap Spared(q) = {} /\ DeleteRows(q, names)
        BY <3>5, DeletedRows
      <4>2. Bootstrap \notin names
        BY <4>1 DEF Spared
      <4>3. users'[Bootstrap] = users[Bootstrap]
        BY <1>1, <4>1, <4>2 DEF DeleteRows
      <4> QED BY <2>2, <4>3 DEF Exists
    <3> QED BY <1>1, <1>6, <3>1, <3>2, <3>3, <3>4, <3>5, HandleOutside
  <2> QED BY <2>3, <2>4 DEF BootstrapStays, Exists
<1> QED BY <1>2, <1>3, <1>4, <1>5, <1>6 DEF Next

(* From the first start on the bootstrap account exists and is the same row,
   whatever is registered, deleted, cleaned up or restarted
   (AdminService.delete_user, delete_test_users). *)
THEOREM BootstrapStaysAlways == Spec => []BootstrapStays
<1>1. IInv /\ BootstrapStays /\ [Next]_vars => BootstrapStays'
  <2>1. UNCHANGED vars /\ BootstrapStays => BootstrapStays'
    BY DEF vars, BootstrapStays, Exists
  <2> QED BY <2>1, BootstrapKept
<1> QED BY <1>1, BootstrapInit, InitInvariant, NextInvariant, PTL DEF Spec

-----------------------------------------------------------------------------
(* Who deletes and who replaces an account. *)

(* A step whose outcome is another step is over. *)
LEMMA StepIsOver ==
  ASSUME NEW q \in Requests, NEW step \in Steps, At(q, step),
         NEW r, r.step /= step, NEW names,
         \E x \in Outcomes(r) : Becomes(q, x, names)
  PROVE  Does(q, step)
<1>1. Failed(TRUE).step = "error" /\ step /= "error"
  BY DEF Failed, Idle, Steps
<1>2. \A x \in Outcomes(r) : x.step /= step
  BY <1>1 DEF Outcomes
<1>3. \A x : Becomes(q, x, names) => req'[q] = x
  BY DEF Becomes
<1> QED BY <1>2, <1>3 DEF Does

LEMMA RefreshRecord ==
  ASSUME TypeOK, NEW q \in Requests, NEW n \in Nat
  PROVE  [To(q, "refresh") EXCEPT !.row = n].step = "refresh"
<1>1. To(q, "refresh") \in RequestType /\ To(q, "refresh").step = "refresh"
  BY ToType, ToFields DEF TypeOK, Steps
<1> QED BY <1>1 DEF RequestType

LEMMA DeletionDone ==
  ASSUME TypeOK, Fits, NEW q \in Requests, DeleteUser(q) \/ DeleteTestUsers(q)
  PROVE  Does(q, "act") /\ req[q].granted
<1>1. At(q, "act")
  BY DEF DeleteUser, DeleteTestUsers
<1>2. req[q].granted
  BY <1>1 DEF Fits, FitsRecord, At
<1>3. Idle.step /= "act"
  BY DEF Idle
<1>4. \E names : \E x \in Outcomes(Idle) : Becomes(q, x, names)
  BY DEF DeleteUser, DeleteTestUsers, DeleteRows
<1> QED BY <1>1, <1>2, <1>3, <1>4, StepIsOver DEF Steps

LEMMA PasswordDone ==
  ASSUME TypeOK, Fits, NEW q \in Requests, UpdatePassword(q)
  PROVE  Does(q, "update")
<1> DEFINE r == [To(q, "refresh") EXCEPT !.row = users[req[q].actor].id]
<1>1. At(q, "update") /\ \E x \in Outcomes(r) : Becomes(q, x, {})
  BY DEF UpdatePassword
<1>2. users[req[q].actor].id \in Nat
  <2>1. users[req[q].actor] \in Rows /\ created \in Nat
    BY PasswordRow DEF TypeOK, Exists
  <2> QED BY <2>1, RowFacts
<1>3. r.step /= "update"
  BY <1>2, RefreshRecord
<1> QED BY <1>1, <1>3, StepIsOver DEF Steps

LEMMA RoleDone ==
  ASSUME TypeOK, Fits, NEW q \in Requests, UpdateRole(q)
  PROVE  Does(q, "act") /\ req[q].granted
<1> DEFINE r == [To(q, "refresh") EXCEPT !.row = users[Op(q).user].id]
<1>1. At(q, "act") /\ \E x \in Outcomes(r) : Becomes(q, x, {})
  BY DEF UpdateRole
<1>2. users[Op(q).user].id \in Nat
  <2>1. users[Op(q).user] \in Rows /\ created \in Nat
    BY RoleRow DEF TypeOK, Exists
  <2> QED BY <2>1, RowFacts
<1>3. r.step /= "act"
  BY <1>2, RefreshRecord
<1>4. req[q].granted
  BY <1>1 DEF Fits, FitsRecord, At
<1> QED BY <1>1, <1>3, <1>4, StepIsOver DEF Steps

(* What a request does to an account that exists. *)
LEMMA HandleOnAccount ==
  ASSUME TypeOK, Fits, NEW q \in Requests, Handle(q),
         NEW u \in Usernames, Exists(u), users'[u] /= users[u]
  PROVE  \/ /\ users'[u] = NoRow
            /\ Does(q, "act") /\ req[q].granted /\ req[q].actor /= u
         \/ /\ users'[u] /= NoRow
            /\ users'[u].id = users[u].id
            /\ \/ /\ users'[u].role = users[u].role
                  /\ Does(q, "update") /\ req[q].actor = u
               \/ /\ users'[u].password = users[u].password
                  /\ Does(q, "act") /\ req[q].granted
<1>1. users \in [Usernames -> Rows \cup {NoRow}] /\ created' \in Nat
  BY HandleUsers DEF TypeOK
<1>2. \A r \in Rows' : r /= NoRow
  BY <1>1 DEF Rows, NoRow
<1>3. CASE Insert(q)
  BY <1>1, <1>3, InsertRow
<1>4. CASE UpdatePassword(q)
  <2>1. PICK r \in Rows' :
          /\ r.id = users[req[q].actor].id /\ r.role = users[req[q].actor].role
          /\ users' = [users EXCEPT ![req[q].actor] = r]
    BY <1>4, PasswordRow
  <2>2. req[q].actor = u /\ users'[u] = r
    BY <1>1, <2>1
  <2> QED BY <1>2, <1>4, <2>1, <2>2, PasswordDone
<1>5. CASE UpdateRole(q)
  <2>1. PICK r \in Rows' :
          /\ r.id = users[Op(q).user].id
          /\ r.password = users[Op(q).user].password
          /\ users' = [users EXCEPT ![Op(q).user] = r]
    BY <1>5, RoleRow
  <2>2. Op(q).user = u /\ users'[u] = r
    BY <1>1, <2>1
  <2> QED BY <1>2, <1>5, <2>1, <2>2, RoleDone
<1>6. CASE DeleteUser(q) \/ DeleteTestUsers(q)
  <2>1. PICK names : names \cap Spared(q) = {} /\ DeleteRows(q, names)
    BY <1>6, DeletedRows
  <2>2. u \in names /\ users'[u] = NoRow
    BY <2>1 DEF DeleteRows
  <2>3. req[q].actor /= u
    BY <2>1, <2>2 DEF Spared
  <2> QED BY <1>6, <2>2, <2>3, DeletionDone
<1> QED BY <1>3, <1>4, <1>5, <1>6, HandleOutside

(* What any step does to an account that exists. *)
LEMMA NextOnAccount ==
  ASSUME IInv, [Next]_vars, NEW u \in Usernames, Exists(u), users'[u] /= users[u]
  PROVE  \/ Boot /\ u = Bootstrap
         \/ \E q \in Requests : Handle(q)
<1>1. users \in [Usernames -> Rows \cup {NoRow}]
  BY DEF IInv, TypeOK
<1>2. CASE Boot
  BY <1>1, <1>2, BootRow DEF IInv
<1>3. CASE \E q \in Requests : Handle(q)
  BY <1>3
<1>4. /\ ~UNCHANGED vars /\ ~ProcessEnds /\ (\A t \in Tokens : ~Expire(t))
      /\ (\A q \in Requests, o \in Operations : ~Arrive(q, o))
  BY DEF vars, ProcessEnds, Expire, Arrive
<1> QED BY <1>2, <1>3, <1>4 DEF Next

(* An account disappears only by the request of an administrator, and never by
   its own (AdminService.delete_user, delete_test_users). *)
THEOREM DeletedByAnotherAdminAlways == Spec => DeletedByAnotherAdmin
<1> DEFINE Step == \A u \in Usernames : Deleted(u) =>
       \E q \in Requests : Does(q, "act") /\ req[q].granted /\ req[q].actor /= u
<1>1. IInv /\ [Next]_vars => [Step]_vars
  <2> SUFFICES ASSUME IInv, [Next]_vars, NEW u \in Usernames, Deleted(u)
               PROVE  \E q \in Requests :
                        Does(q, "act") /\ req[q].granted /\ req[q].actor /= u
    OBVIOUS
  <2>1. TypeOK /\ Fits /\ Exists(u) /\ users'[u] = NoRow /\ users'[u] /= users[u]
    BY DEF IInv, Deleted, Exists
  <2>2. ~Boot
    <3> SUFFICES ASSUME Boot PROVE FALSE
      OBVIOUS
    <3>1. u = Bootstrap
      BY <2>1, BootRow DEF TypeOK
    <3>2. PICK r \in Rows' : users' = [users EXCEPT ![Bootstrap] = r]
      BY <2>1, BootRow
    <3>3. r /= NoRow
      BY <2>1, BootRow DEF Rows, NoRow
    <3> QED BY <2>1, <3>1, <3>2, <3>3 DEF TypeOK
  <2>3. PICK q \in Requests : Handle(q)
    BY <2>1, <2>2, NextOnAccount
  <2> QED BY <2>1, <2>3, HandleOnAccount
<1> QED BY <1>1, InitInvariant, NextInvariant, PTL DEF Spec, DeletedByAnotherAdmin

(* An account's password is replaced only by a request authenticated as it, its
   role only by an administrator's, both by the start of the service for the
   bootstrap account: registering a name that is taken replaces nothing
   (user_repository.create_user, update_password, update_role). *)
THEOREM ReplacedByTheEntitledAlways == Spec => ReplacedByTheEntitled
<1> DEFINE Entitled(u) ==
       /\ users'[u].id = users[u].id
       /\ \/ ~up /\ u = Bootstrap
          \/ /\ users'[u].role = users[u].role
             /\ \E q \in Requests : Does(q, "update") /\ req[q].actor = u
          \/ /\ users'[u].password = users[u].password
             /\ \E q \in Requests : Does(q, "act") /\ req[q].granted
           Step == \A u \in Usernames : Replaced(u) => Entitled(u)
<1>1. IInv /\ [Next]_vars => [Step]_vars
  <2> SUFFICES ASSUME IInv, [Next]_vars, NEW u \in Usernames, Replaced(u)
               PROVE  Entitled(u)
    OBVIOUS
  <2>1. TypeOK /\ Fits /\ Exists(u) /\ users'[u] /= NoRow /\ users'[u] /= users[u]
    BY DEF IInv, Replaced
  <2>2. CASE Boot /\ u = Bootstrap
    <3>1. PICK r \in Rows' : /\ r.id = users[Bootstrap].id
                             /\ users' = [users EXCEPT ![Bootstrap] = r]
      BY <2>1, <2>2, BootRow
    <3>2. users'[u] = r
      BY <2>2, <3>1 DEF IInv, TypeOK
    <3>3. ~up
      BY <2>2 DEF Boot
    <3> QED BY <2>2, <3>1, <3>2, <3>3
  <2>3. ASSUME NEW q \in Requests, Handle(q) PROVE Entitled(u)
    BY <2>1, <2>3, HandleOnAccount
  <2> QED BY <2>1, <2>2, <2>3, NextOnAccount
<1> QED BY <1>1, InitInvariant, NextInvariant, PTL DEF Spec, ReplacedByTheEntitled

-----------------------------------------------------------------------------
(* Errors.  A request that nothing has disturbed still finds the accounts as its
   earlier steps have seen or left them. *)

Whose(r) == IF r.op.kind \in {"register", "login", "role", "delete"}
              THEN r.op.user ELSE r.actor

SteadyIn(r, table) ==
  r.disturbed = FALSE =>
    /\ r.step /= "error"
    /\ r.step = "insert" => table[r.op.user] = NoRow
    /\ r.step = "update" => table[r.actor] /= NoRow
    /\ r.step = "refresh" => /\ Whose(r) \in Usernames /\ table[Whose(r)] /= NoRow
                             /\ table[Whose(r)].id = r.row

Steady == \A q \in Requests : SteadyIn(req[q], users)

(* Outside names no account is created, deleted or made another row. *)
SameOutside(names) ==
  \A u \in Usernames \ names : /\ users'[u] = NoRow <=> users[u] = NoRow
                               /\ users[u] /= NoRow => users'[u].id = users[u].id

LEMMA SteadyStep ==
  ASSUME TypeOK, Fits, Steady, NEW q \in Requests, NEW r, NEW names,
         Becomes(q, r, names), SteadyIn(r, users'), SameOutside(names)
  PROVE  Steady'
<1> SUFFICES ASSUME NEW p \in Requests PROVE SteadyIn(req'[p], users')
  BY DEF Steady
<1>0. req \in [Requests -> RequestType]
  BY DEF TypeOK
<1>1. CASE p = q
  BY <1>0, <1>1, Others
<1>2. CASE p /= q
  <2>1. /\ req'[p].step = req[p].step /\ req'[p].op = req[p].op
        /\ req'[p].actor = req[p].actor /\ req'[p].row = req[p].row
        /\ req[p].disturbed => req'[p].disturbed
        /\ Busy(p) /\ Subject(p) \in names => req'[p].disturbed
    BY <1>0, <1>2, Others
  <2>2. SteadyIn(req[p], users) /\ FitsRecord(req[p])
    BY DEF Steady, Fits
  <2>3. Whose(req[p]) = Subject(p) /\ Whose(req'[p]) = Whose(req[p])
    BY <2>1 DEF Whose, Subject, Op
  <2>4. /\ req[p] \in RequestType /\ req[p].disturbed \in BOOLEAN
        /\ req[p].op \in Operations \cup {NoOp}
    BY <1>0 DEF RequestType
  <2> SUFFICES ASSUME req'[p].disturbed = FALSE
               PROVE  /\ req[p].step /= "error"
                      /\ req[p].step = "insert" => users'[req[p].op.user] = NoRow
                      /\ req[p].step = "update" => users'[req[p].actor] /= NoRow
                      /\ req[p].step = "refresh" =>
                           /\ Whose(req[p]) \in Usernames
                           /\ users'[Whose(req[p])] /= NoRow
                           /\ users'[Whose(req[p])].id = req[p].row
    BY <2>1, <2>3 DEF SteadyIn
  <2>5. req[p].disturbed = FALSE
    BY <2>1, <2>4
  <2>6. Busy(p) => Whose(req[p]) \notin names
    BY <2>1, <2>3
  <2>7. req[p].step /= "error"
    BY <2>2, <2>5 DEF SteadyIn
  <2>8. ASSUME req[p].step = "insert" PROVE users'[req[p].op.user] = NoRow
    <3>1. Whose(req[p]) = req[p].op.user /\ Busy(p)
      BY <2>2, <2>8 DEF FitsRecord, Whose, Busy, Steps
    <3>2. req[p].op.user \in Usernames
      BY <2>2, <2>4, <2>8, Payload DEF FitsRecord
    <3> QED BY <2>2, <2>5, <2>6, <2>8, <3>1, <3>2 DEF SteadyIn, SameOutside
  <2>9. ASSUME req[p].step = "update" PROVE users'[req[p].actor] /= NoRow
    <3>1. Whose(req[p]) = req[p].actor /\ Busy(p) /\ req[p].actor \in Usernames
      BY <2>2, <2>9 DEF FitsRecord, Whose, Busy, Steps
    <3> QED BY <2>2, <2>5, <2>6, <2>9, <3>1 DEF SteadyIn, SameOutside
  <2>10. ASSUME req[p].step = "refresh"
         PROVE  /\ Whose(req[p]) \in Usernames
                /\ users'[Whose(req[p])] /= NoRow
                /\ users'[Whose(req[p])].id = req[p].row
    <3>1. Busy(p)
      BY <2>10 DEF Busy, Steps
    <3> QED BY <2>2, <2>5, <2>6, <2>10, <3>1 DEF SteadyIn, SameOutside
  <2> QED BY <2>7, <2>8, <2>9, <2>10
<1> QED BY <1>1, <1>2

(* The outcomes of a step that writes or ends: Failed(TRUE) has its excuse. *)
LEMMA SteadyOutcomes ==
  ASSUME NEW r, NEW table, SteadyIn(r, table), NEW x \in Outcomes(r)
  PROVE  SteadyIn(x, table)
<1>1. SteadyIn(Failed(TRUE), table)
  BY DEF SteadyIn, Failed, Idle
<1> QED BY <1>1 DEF Outcomes

(* A request that has written the row n of the account it is about. *)
LEMMA SteadyRefresh ==
  ASSUME TypeOK, NEW q \in Requests, NEW n \in 0..created', created <= created',
         created' \in Nat, NEW table, Subject(q) \in Usernames,
         table[Subject(q)] /= NoRow, table[Subject(q)].id = n
  PROVE  SteadyIn([To(q, "refresh") EXCEPT !.row = n], table)
<1>1. To(q, "refresh") \in RequestType' /\ created \in Nat
  BY ToType, WideType DEF TypeOK, Steps
<1>2. /\ To(q, "refresh").step = "refresh" /\ To(q, "refresh").op = req[q].op
      /\ To(q, "refresh").actor = req[q].actor
  BY ToFields DEF TypeOK, Steps
<1> DEFINE r == [To(q, "refresh") EXCEPT !.row = n]
<1>3. r.step = "refresh" /\ r.op = req[q].op /\ r.actor = req[q].actor /\ r.row = n
  BY <1>1, <1>2 DEF RequestType
<1>4. Whose(r) = Subject(q)
  BY <1>3 DEF Whose, Subject, Op
<1> HIDE DEF r
<1>5. SteadyIn(r, table)
  BY <1>3, <1>4 DEF SteadyIn
<1> QED BY <1>5 DEF r

LEMMA HandleSteady ==
  ASSUME TypeOK, Fits, Steady, NEW q \in Requests, Handle(q)
  PROVE  \E r, names : /\ Becomes(q, r, names) /\ SteadyIn(r, users')
                       /\ SameOutside(names)
<1>a. /\ SteadyIn(Idle, users') /\ SteadyIn(Failed(TRUE), users')
      /\ SteadyIn(To(q, "idle"), users')
  BY DEF SteadyIn, Failed, Idle, To
<1>b. /\ req[q] \in RequestType /\ FitsRecord(req[q]) /\ SteadyIn(req[q], users)
      /\ req[q].disturbed \in BOOLEAN /\ Op(q) \in Operations \cup {NoOp}
      /\ users \in [Usernames -> Rows \cup {NoRow}]
  BY DEF TypeOK, Fits, Steady, RequestType, Op
<1>c. UNCHANGED users => SameOutside({})
  BY DEF SameOutside
<1>d. req[q].disturbed = TRUE => SteadyIn(Failed(req[q].disturbed), users')
  BY <1>a
<1>e. ASSUME NEW step \in Steps \ {"error", "insert", "update", "refresh"}
      PROVE  SteadyIn(To(q, step), users')
  BY <1>e, ToFields DEF SteadyIn, TypeOK, Steps
<1>f. /\ created' \in Nat /\ created <= created'
  BY HandleUsers
<1>1. CASE Raises(q)
  BY <1>1, <1>a, <1>c DEF Raises
<1>2. CASE Lookup(q)
  <2>1. ~Exists(Op(q).user) => SteadyIn(To(q, "insert"), users')
    BY <1>2, ToFields DEF Lookup, Proceed, SteadyIn, TypeOK, Steps, Exists, Op
  <2> QED BY <1>2, <1>a, <1>c, <2>1 DEF Lookup, Proceed
<1>3. CASE Insert(q)
  <2>1. /\ Op(q).user \in Usernames /\ created' = created + 1
        /\ \E r \in Rows' : r.id = created + 1
                            /\ users' = [users EXCEPT ![Op(q).user] = r]
    BY <1>3, InsertRow
  <2>2. /\ users'[Op(q).user] /= NoRow /\ users'[Op(q).user].id = created + 1
        /\ \A u \in Usernames \ {Op(q).user} : users'[u] = users[u]
    BY <1>b, <1>f, <2>1 DEF Rows, NoRow
  <2>3. Subject(q) = Op(q).user
    BY <1>3, <1>b DEF Insert, At, FitsRecord, Subject, Op
  <2> DEFINE n == created + 1
  <2>4. n \in 0..created' /\ users'[Op(q).user].id = n
    BY <1>f, <2>1, <2>2 DEF TypeOK
  <2>5. SteadyIn([To(q, "refresh") EXCEPT !.row = n], users')
    <3> HIDE DEF n
    <3> QED BY <1>f, <2>1, <2>2, <2>3, <2>4, SteadyRefresh
  <2>6. SameOutside({Op(q).user})
    BY <2>2 DEF SameOutside
  <2> QED BY <1>3, <2>5, <2>6, SteadyOutcomes DEF Insert
<1>4. CASE InsertDuplicate(q)
  <2>1. req[q].disturbed = TRUE
    BY <1>4, <1>b DEF InsertDuplicate, At, SteadyIn, Exists, Op
  <2> QED BY <1>4, <1>c, <1>d, <2>1 DEF InsertDuplicate
<1>5. CASE Refresh(q)
  <2>1. ~(\E u \in Usernames : users[u].id = req[q].row) => req[q].disturbed = TRUE
    BY <1>5, <1>b DEF Refresh, At, SteadyIn
  <2> QED BY <1>5, <1>a, <1>c, <1>d, <2>1 DEF Refresh
<1>6. CASE VerifyLogin(q)
  <2>1. SteadyIn(To(q, "login"), users')
    BY <1>e DEF Steps
  <2> QED BY <1>6, <1>a, <1>c, <2>1 DEF VerifyLogin, Proceed
<1>7. CASE CreateSession(q) \/ DestroySession(q)
  BY <1>7, <1>a, <1>c, SteadyOutcomes DEF CreateSession, DestroySession
<1>8. CASE ReadSession(q)
  <2> DEFINE r(user) == [To(q, "identity") EXCEPT !.actor = user]
  <2>1. To(q, "identity") \in RequestType /\ To(q, "identity").step = "identity"
    BY ToType, ToFields DEF TypeOK, Steps
  <2>2. \A user : r(user).step = "identity"
    BY <2>1 DEF RequestType
  <2>3. \A user : SteadyIn(r(user), users')
    <3> HIDE DEF r
    <3> QED BY <2>2 DEF SteadyIn
  <2> QED BY <1>8, <1>a, <1>c, <2>3 DEF ReadSession
<1>9. CASE ReadIdentity(q)
  <2> DEFINE r(b) == [To(q, Authorized(q)) EXCEPT !.granted = b]
  <2>1. Authorized(q) \in {"idle", "destroy", "fetch", "act"}
    BY DEF Authorized
  <2>2. /\ To(q, Authorized(q)) \in RequestType
        /\ To(q, Authorized(q)).step = Authorized(q)
    <3>1. created \in Nat /\ req \in [Requests -> RequestType]
      BY DEF TypeOK
    <3>2. To(q, Authorized(q)) \in RequestType
      BY <2>1, <3>1, ToType DEF Steps
    <3>3. Authorized(q) = "idle" => To(q, Authorized(q)).step = "idle"
      BY DEF To, Idle
    <3>4. Authorized(q) /= "idle" => To(q, Authorized(q)).step = Authorized(q)
      BY <2>1, <3>1, ToFields DEF Steps
    <3> QED BY <3>2, <3>3, <3>4
  <2>3. \A b : r(b).step = Authorized(q)
    BY <2>2 DEF RequestType
  <2>4. \A b : SteadyIn(r(b), users')
    <3> HIDE DEF r
    <3> QED BY <2>1, <2>3 DEF SteadyIn
  <2>5. \E b : Becomes(q, r(b), {}) /\ UNCHANGED users
    BY <1>9 DEF ReadIdentity
  <2> QED BY <1>c, <2>4, <2>5
<1>10. CASE Fetch(q)
  <2>1. Exists(req[q].actor) => SteadyIn(To(q, "update"), users')
    BY <1>10, ToFields DEF Fetch, Proceed, SteadyIn, TypeOK, Steps, Exists
  <2> QED BY <1>10, <1>a, <1>c, <2>1 DEF Fetch, Proceed
<1>11. CASE UpdatePassword(q) \/ UpdateRole(q)
  <2> DEFINE u == Subject(q)
             n == users[u].id
             written == [To(q, "refresh") EXCEPT !.row = n]
  <2>1. /\ UpdatePassword(q) => u = req[q].actor
        /\ UpdateRole(q) => u = Op(q).user
    BY <1>b DEF UpdatePassword, UpdateRole, At, FitsRecord, Subject, Op
  <2>2. /\ u \in Usernames /\ Exists(u) /\ created' = created
        /\ \E r \in Rows' : r.id = n /\ users' = [users EXCEPT ![u] = r]
    BY <1>11, <2>1, PasswordRow, RoleRow
  <2>3. /\ users'[u] /= NoRow /\ users'[u].id = n
        /\ \A v \in Usernames \ {u} : users'[v] = users[v]
    <3> HIDE DEF u, n
    <3> QED BY <1>b, <1>f, <2>2 DEF Rows, NoRow
  <2>4. n \in 0..created'
    BY <1>b, <2>2, RowFacts DEF TypeOK, Exists
  <2>5. SteadyIn(written, users')
    BY <1>f, <2>2, <2>3, <2>4, SteadyRefresh
  <2>6. SameOutside({})
    BY <2>2, <2>3 DEF SameOutside, Exists
  <2>7. \E x \in Outcomes(written) : Becomes(q, x, {})
    BY <1>11, <2>1 DEF UpdatePassword, UpdateRole
  <2> HIDE DEF written
  <2> QED BY <2>5, <2>6, <2>7, SteadyOutcomes
<1>12. CASE UpdateGone(q)
  <2>1. req[q].disturbed = TRUE
    BY <1>12, <1>b DEF UpdateGone, At, SteadyIn, Exists
  <2> QED BY <1>12, <1>c, <1>d, <2>1 DEF UpdateGone
<1>13. CASE DeleteUser(q) \/ DeleteTestUsers(q)
  <2>1. PICK names : DeleteRows(q, names)
    BY <1>13, DeletedRows
  <2>2. SameOutside({u \in names : Exists(u)})
    BY <2>1 DEF DeleteRows, SameOutside, Exists
  <2> QED BY <2>1, <2>2, <1>a, SteadyOutcomes DEF DeleteRows
<1>14. CASE RefuseTarget(q)
  BY <1>14, <1>a, <1>c DEF RefuseTarget, Proceed
<1> QED
  BY <1>1, <1>2, <1>3, <1>4, <1>5, <1>6, <1>7, <1>8, <1>9, <1>10, <1>11,
     <1>12, <1>13, <1>14 DEF Handle

LEMMA NextSteady == IInv /\ Steady /\ [Next]_vars => Steady'
<1> SUFFICES ASSUME IInv, Steady, [Next]_vars PROVE Steady'
  OBVIOUS
<1>0. TypeOK /\ Fits /\ DownIsIdle
  BY DEF IInv
<1>1. CASE UNCHANGED vars \/ \E t \in Tokens : Expire(t)
  BY <1>1 DEF vars, Expire, Steady
<1>2. CASE Boot
  <2>1. /\ req' = req /\ \A q \in Requests : ~Busy(q)
    BY <1>0, <1>2 DEF Boot, DownIsIdle
  <2> QED BY <2>1 DEF Steady, SteadyIn, Busy, Steps
<1>3. CASE ProcessEnds
  <2>1. \A table : SteadyIn(Failed(TRUE), table)
    BY DEF SteadyIn, Failed, Idle
  <2> QED BY <1>3, <2>1 DEF ProcessEnds, Steady
<1>4. ASSUME NEW q \in Requests, NEW o \in Operations, Arrive(q, o) PROVE Steady'
  <2> DEFINE r == [Idle EXCEPT !.step = FirstStep(o), !.op = o]
  <2>1. SteadyIn(Idle, users')
    BY DEF SteadyIn, Idle
  <2>2. FirstStep(o) \notin {"error", "insert", "update", "refresh"}
    BY DEF FirstStep
  <2>3. r.step = FirstStep(o)
    BY DEF Idle
  <2>4. SteadyIn(r, users')
    <3> HIDE DEF r
    <3> QED BY <2>2, <2>3 DEF SteadyIn
  <2>5. SameOutside({})
    BY <1>4 DEF Arrive, SameOutside
  <2>6. Becomes(q, Idle, {}) \/ Becomes(q, r, {})
    BY <1>4 DEF Arrive
  <2> QED BY <1>0, <2>1, <2>4, <2>5, <2>6, SteadyStep
<1>5. ASSUME NEW q \in Requests, Handle(q) PROVE Steady'
  <2>1. PICK r, names : /\ Becomes(q, r, names) /\ SteadyIn(r, users')
                        /\ SameOutside(names)
    BY <1>0, <1>5, HandleSteady
  <2> QED BY <1>0, <2>1, SteadyStep
<1> QED BY <1>1, <1>2, <1>3, <1>4, <1>5 DEF Next

(* A request that no failing call, no end of the process and no creation or
   deletion of its account by another has disturbed is never answered by an
   unhandled exception (register_user, change_password, update_user_role). *)
THEOREM ErrorsNeedADisturbanceAlways == Spec => []ErrorsNeedADisturbance
<1>1. Init => Steady
  BY DEF Init, Steady, SteadyIn, Idle
<1>2. IInv /\ Steady => ErrorsNeedADisturbance
  BY DEF IInv, TypeOK, RequestType, Steady, SteadyIn, ErrorsNeedADisturbance, At
<1> QED BY <1>1, <1>2, InitInvariant, NextInvariant, NextSteady, PTL DEF Spec
=============================================================================

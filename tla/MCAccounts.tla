----------------------------- MODULE MCAccounts -----------------------------
(* TLC instances of Accounts: every kind of request, each with the payloads that
   tell its outcomes apart. *)
EXTENDS Accounts, TLC

CONSTANTS admin, ann, p1, p2

Registrations ==
  {[kind |-> "register", user |-> ann, password |-> p2, role |-> r, code |-> c] :
     r \in Roles \cup {"guest"}, c \in BOOLEAN}

Logins == {[kind |-> "login", user |-> ann, password |-> p2, role |-> r] : r \in Roles}
          \cup {[kind |-> "login", user |-> admin, password |-> p, role |-> "any"] :
                   p \in Passwords}

Everything == Registrations \cup Logins
              \cup {o \in Requestable : o.kind \notin {"register", "login"}}

Clients == Permutations(Requests) \cup Permutations(Tokens)
=============================================================================

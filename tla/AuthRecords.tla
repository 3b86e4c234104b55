----------------------------- MODULE AuthRecords -----------------------------
(***************************************************************************)
(* The records the MeDB server keeps in its _meta collections and the      *)
(* checks it makes on them, shared by AuthBootstrap and AuthRequests.      *)
(*                                                                         *)
(* An id and the secret or the user it stands for are one model value.     *)
(* Labels and formats are valid: requests that fail to parse change        *)
(* nothing.  What remains of a timestamp is its place on the wall clock.   *)
(***************************************************************************)
EXTENDS Integers, FiniteSets

CONSTANTS
  Users,      \* user ids
  Tokens,     \* token ids
  Names,      \* administrator names
  Nil,        \* no record, no expiry, field not given
  MaxClock    \* bound: the wall clock shows 0..MaxClock

Times == 0..MaxClock
Roles == {"reader", "writer", "admin"}

UserRecords == [name : Names, role : Roles, disabled : BOOLEAN,
                created : Times, updated : Times]

TokenRecords == [user : Users, label : {"initial", "recovery", "other"},
                 created : Times, expires : Times \cup {Nil}]

\* Nil is none of the values that it stands for the absence of.
ASSUME RecordsAssumption ==
  /\ IsFiniteSet(Users) /\ IsFiniteSet(Tokens) /\ Names # {} /\ MaxClock \in Nat
  /\ Nil \notin BOOLEAN /\ Nil \notin Users \cup Tokens \cup Times
  /\ Nil \notin UserRecords \cup TokenRecords

UserTables == [Users -> UserRecords \cup {Nil}]
TokenTables == [Tokens -> TokenRecords \cup {Nil}]

NewUser(n, r, t) ==
  [name |-> n, role |-> r, disabled |-> FALSE, created |-> t, updated |-> t]

NewToken(u, l, t, e) == [user |-> u, label |-> l, created |-> t, expires |-> e]

roleAllows(actual, required) ==
  LET rank == [reader |-> 1, writer |-> 2, admin |-> 3]
  IN rank[actual] >= rank[required]

validateUserRecord(user) == user.updated >= user.created

validateTokenRecord(token) ==
  token.expires # Nil => token.expires > token.created

\* Collection.Count.
Count(table) == Cardinality({k \in DOMAIN table : table[k] # Nil})

\* authenticate's checks of a token and of a user; handleTokenCreate makes the
\* second one as well.
Active(token, now) ==
  /\ token # Nil /\ validateTokenRecord(token)
  /\ token.expires # Nil => now < token.expires

Enabled(user) == user # Nil /\ validateUserRecord(user) /\ ~user.disabled

\* It makes the checks in a loop of its own.
hasActiveAdmin(users, tokens, now) ==
  \E t \in Tokens :
    LET token == tokens[t]
        user == users[token.user]
    IN
    /\ token # Nil /\ validateTokenRecord(token)
    /\ token.expires # Nil => now < token.expires
    /\ user # Nil /\ validateUserRecord(user)
    /\ ~user.disabled /\ user.role = "admin"

\* uniqueUserID: NewID is random, so a new id is not one that a token of an
\* unfinished initialization mentions either.
FreshUsers(users, tokens) ==
  {u \in Users : /\ users[u] = Nil
                 /\ \A t \in Tokens : tokens[t] # Nil => tokens[t].user # u}
=============================================================================

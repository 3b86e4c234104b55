--------------------------- MODULE MCAuthRequests ----------------------------
(***************************************************************************)
(* Instances of AuthRequests for TLC: which requests arrive.               *)
(***************************************************************************)
EXTENDS AuthRequests, TLC

\* Requests differ in name only.
Symmetry == Permutations(Reqs)

Disable(u, d) == [kind |-> "update", user |-> u, role |-> Nil, disabled |-> d]
Promote(u, p) == [kind |-> "update", user |-> u, role |-> p, disabled |-> Nil]
Issue(u, e)   == [kind |-> "token", user |-> u, expires |-> e]
Revoke(t)     == [kind |-> "revoke", token |-> t]
Create(p)     == [kind |-> "create", role |-> p]
Data(p)       == [kind |-> "data", role |-> p]

\* One or two of each kind, about the clerk and about a user still to be
\* created, who gets a token that does not expire.
MCOps == {Data("writer"), Create("reader"), Disable(Clerk, TRUE),
          Disable(Clerk, FALSE), Issue(Clerk, 1), Revoke(ClerkToken),
          Promote(Clerk, "admin")}
         \cup {Issue(u, Nil) : u \in Users \ {Root, Clerk}}

\* A user and its token are created, then the user is changed.
MCClockOps == {Create("reader")}
              \cup {Disable(u, FALSE) : u \in Users \ {Root, Clerk}}
              \cup {Issue(u, Nil) : u \in Users \ {Root, Clerk}}

\* The clerk is disabled and given a token.
MCRaceOps == {Disable(Clerk, TRUE), Issue(Clerk, Nil)}
=============================================================================

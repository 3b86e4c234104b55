---------------------------- MODULE AuthRequests -----------------------------
(***************************************************************************)
(* Concurrent HTTP requests against the server's users and tokens.  Every  *)
(* request runs in a goroutine of its own without a lock of the server:    *)
(* authenticate reads the token and then the user, handleTokenCreate reads *)
(* the user and later stores the token, handleUserUpdate changes the user  *)
(* in one Collection.Update and reads it again for the answer.             *)
(*                                                                         *)
(* The database is what module GroupCommit shows it to be: a change is     *)
(* visible in memory at once, durable in the order of the changes, and its *)
(* caller is answered once it is durable.  A crash loses what is not.      *)
(***************************************************************************)
EXTENDS AuthRecords

CONSTANTS
  Root, RootToken,    \* an administrator and its token
  Clerk, ClerkToken,  \* a writer and its token
  Reqs,       \* requests that can be in flight at a time
  Ops,        \* what they ask for
  MaxReqs,    \* bound: requests begun
  MaxStops,   \* bound: crashes and storage failures
  MaxBack     \* bound: times the wall clock is set back

\* Every request that parses; Ops selects some.  The data endpoints differ in
\* the role that they require.
AllOps ==
       [kind : {"data"}, role : Roles]
  \cup [kind : {"create"}, role : Roles]
  \cup {o \in [kind : {"update"}, user : Users, role : Roles \cup {Nil},
               disabled : BOOLEAN \cup {Nil}] : o.role # Nil \/ o.disabled # Nil}
  \cup [kind : {"token"}, user : Users, expires : Times \cup {Nil}]
  \cup [kind : {"revoke"}, token : Tokens]

\* A request: where it is, what it asks for, the token it came with and, once
\* read, that token's user.  Two ghosts: what had been answered before it
\* began (its token was revoked, its user disabled), and whether the disabling
\* that it made has been undone meanwhile.
Requests ==
  [pc : {"token", "user", "handle", "issue", "wait", "done", "reread"},
   op : Ops, tok : Tokens, uid : Users \cup {Nil},
   late : SUBSET {"revoked", "disabled"}, undone : BOOLEAN]

ASSUME RequestsAssumption ==
  /\ MaxReqs \in Nat /\ MaxStops \in Nat /\ MaxBack \in Nat
  /\ {Root, Clerk} \subseteq Users /\ Root # Clerk
  /\ {RootToken, ClerkToken} \subseteq Tokens /\ RootToken # ClerkToken
  /\ Ops \subseteq AllOps /\ Nil \notin Requests

VARIABLES
  now,     \* the wall clock
  users,   \* _meta/users in memory
  tokens,  \* _meta/tokens in memory
  disk,    \* what a crash leaves of both
  failed,  \* the database has met a storage failure
  unavailable,  \* apiServer.unavailable
  up,      \* the process runs and serves
  req,     \* the requests in flight; Nil: none
  owner,   \* ghost: whose token each one is; newToken never repeats one
  dead,    \* ghost: tokens whose revocation was answered
  barred,  \* ghost: users whose disabling was answered, not enabled since
  used     \* bounded steps so far

dbVars == <<users, tokens, disk, failed>>
ghosts == <<owner, dead, barred>>
vars == <<now, dbVars, unavailable, up, req, ghosts, used>>

Memory == [users |-> users, tokens |-> tokens]

\* Every variable keeps its shape; a request past the token stage knows whose
\* token it came with.
TypeOK ==
  /\ now \in Times
  /\ users \in UserTables /\ tokens \in TokenTables
  /\ disk \in [users : UserTables, tokens : TokenTables]
  /\ failed \in BOOLEAN /\ unavailable \in BOOLEAN /\ up \in BOOLEAN
  /\ req \in [Reqs -> Requests \cup {Nil}]
  /\ \A r \in Reqs : req[r] # Nil /\ req[r].pc # "token" =>
       req[r].uid = owner[req[r].tok]
  /\ owner \in [Tokens -> Users \cup {Nil}]
  /\ dead \subseteq Tokens /\ barred \subseteq Users
  /\ used \in [req : 0..MaxReqs, stop : 0..MaxStops, back : 0..MaxBack]

Init ==
  /\ now = 0
  /\ \E n \in Names :
       users = [u \in Users |-> CASE u = Root -> NewUser(n, "admin", 0)
                                  [] u = Clerk -> NewUser(n, "writer", 0)
                                  [] OTHER -> Nil]
  /\ owner = [t \in Tokens |-> CASE t = RootToken -> Root
                                 [] t = ClerkToken -> Clerk
                                 [] OTHER -> Nil]
  /\ tokens = [t \in Tokens |-> IF owner[t] = Nil THEN Nil
                                ELSE NewToken(owner[t], "other", 0, Nil)]
  /\ disk = Memory
  /\ failed = FALSE /\ unavailable = FALSE /\ up = TRUE
  /\ req = [r \in Reqs |-> Nil]
  /\ dead = {} /\ barred = {}
  /\ used = [req |-> 0, stop |-> 0, back |-> 0]

At(r, where) == req[r] # Nil /\ req[r].pc = where
Go(r, where) == req' = [req EXCEPT ![r].pc = where]

\* The request is answered, whatever the answer is.
Answer(r) == req' = [req EXCEPT ![r] = Nil]

Handles(r, kind) == At(r, "handle") /\ req[r].op.kind = kind

-----------------------------------------------------------------------------
(* ServeHTTP and authenticate. *)

\* A request arrives and finds the server available.
Begin(r, o, t) ==
  /\ req[r] = Nil /\ up /\ ~unavailable /\ used.req < MaxReqs
  /\ used' = [used EXCEPT !.req = @ + 1]
  /\ req' = [req EXCEPT ![r] =
       [pc |-> "token", op |-> o, tok |-> t, uid |-> Nil, undone |-> FALSE,
        late |-> {why \in {"revoked", "disabled"} :
                    \/ why = "revoked" /\ t \in dead
                    \/ why = "disabled" /\ owner[t] \in barred}]]
  /\ UNCHANGED <<now, dbVars, unavailable, up, ghosts>>

\* The user is looked up later, by the token again.
ReadTokenOnly(r) ==
  /\ At(r, "token")
  /\ IF Active(tokens[req[r].tok], now) THEN Go(r, "user") ELSE Answer(r)
  /\ UNCHANGED <<now, dbVars, unavailable, up, ghosts, used>>

\* authenticate's first read.  A token that is unknown, malformed or expired
\* is turned away.
ReadToken(r) ==
  /\ At(r, "token")
  /\ LET token == tokens[req[r].tok] IN
     IF Active(token, now)
       THEN req' = [req EXCEPT ![r] = [@ EXCEPT !.pc = "user", !.uid = token.user]]
       ELSE Answer(r)
  /\ UNCHANGED <<now, dbVars, unavailable, up, ghosts, used>>

Required(o) == IF o.kind = "data" THEN o.role ELSE "admin"

\* Its second read without the test of disabled.
ReadUserDisabled(r) ==
  /\ At(r, "user")
  /\ LET user == users[req[r].uid] IN
     IF user # Nil /\ roleAllows(user.role, Required(req[r].op))
       THEN Go(r, "handle")
       ELSE Answer(r)
  /\ UNCHANGED <<now, dbVars, unavailable, up, ghosts, used>>

\* Its second read, then the route's role.
ReadUser(r) ==
  /\ At(r, "user")
  /\ LET user == users[req[r].uid] IN
     IF Enabled(user) /\ roleAllows(user.role, Required(req[r].op))
       THEN Go(r, "handle")
       ELSE Answer(r)
  /\ UNCHANGED <<now, dbVars, unavailable, up, ghosts, used>>

-----------------------------------------------------------------------------
(* The handlers.  A storage failure keeps no change out of memory. *)

\* The data endpoints leave _meta alone.
HandleData(r) ==
  /\ Handles(r, "data")
  /\ Answer(r)
  /\ UNCHANGED <<now, dbVars, unavailable, up, ghosts, used>>

HandleUserCreate(r) ==
  /\ Handles(r, "create")
  /\ \E u \in FreshUsers(users, tokens), n \in Names :
       users' = [users EXCEPT ![u] = NewUser(n, req[r].op.role, now)]
  /\ Go(r, "wait")
  /\ UNCHANGED <<now, tokens, disk, failed, unavailable, up, ghosts, used>>

\* Requests after user u is enabled: its tokens are good again, and whoever
\* disabled it before has been overruled.
AfterEnabling(u) ==
  [q \in Reqs |->
     IF req[q] = Nil THEN Nil
     ELSE [req[q] EXCEPT
             !.late = IF owner[req[q].tok] = u THEN @ \ {"disabled"} ELSE @,
             !.undone = @ \/ (req[q].op.kind = "update" /\ req[q].op.user = u)]]

\* handleUserUpdate's callback in Collection.Update: 404 for no such user, an
\* internal error for a malformed record, else the given fields and the time.
HandleUserUpdate(r) ==
  LET o == req[r].op
      user == users[o.user]
      ok == user # Nil /\ validateUserRecord(user)
      After == IF o.disabled = FALSE THEN AfterEnabling(o.user) ELSE req
  IN
  /\ Handles(r, "update")
  /\ \/ /\ ~ok
        /\ Answer(r)
        /\ UNCHANGED <<users, barred>>
     \/ /\ ok
        /\ users' = [users EXCEPT ![o.user] =
             [user EXCEPT !.role = IF o.role = Nil THEN @ ELSE o.role,
                          !.disabled = IF o.disabled = Nil THEN @ ELSE o.disabled,
                          !.updated = now]]
        /\ req' = [After EXCEPT ![r].pc = "wait", ![r].undone = FALSE]
        /\ barred' = IF o.disabled = FALSE THEN barred \ {o.user} ELSE barred
  /\ UNCHANGED <<now, tokens, disk, failed, unavailable, up, owner, dead, used>>

\* The target user is taken from the request as it is.
HandleTokenCreateUnchecked(r) ==
  /\ Handles(r, "token")
  /\ Go(r, "issue")
  /\ UNCHANGED <<now, dbVars, unavailable, up, ghosts, used>>

\* handleTokenCreate reads the target user: 404, internal error or 409.
HandleTokenCreate(r) ==
  /\ Handles(r, "token")
  /\ IF Enabled(users[req[r].op.user]) THEN Go(r, "issue") ELSE Answer(r)
  /\ UNCHANGED <<now, dbVars, unavailable, up, ghosts, used>>

\* newToken is random: it returns no token that has been issued before, and
\* none that somebody has asked to revoke.
FreshTokens ==
  {t \in Tokens : /\ owner[t] = Nil /\ t \notin dead
                  /\ \A q \in Reqs : req[q] # Nil /\ req[q].op.kind = "revoke" =>
                       req[q].op.token # t}

\* Its second half: an expiry that is not in the future is refused; a new
\* random token is stored.
IssueToken(r) ==
  LET o == req[r].op IN
  /\ At(r, "issue")
  /\ \/ /\ o.expires # Nil /\ o.expires <= now
        /\ Answer(r)
        /\ UNCHANGED <<tokens, owner>>
     \/ /\ o.expires # Nil => o.expires > now
        /\ \E t \in FreshTokens :
             /\ tokens' = [tokens EXCEPT ![t] =
                             NewToken(o.user, "other", now, o.expires)]
             /\ owner' = [owner EXCEPT ![t] = o.user]
        /\ Go(r, "wait")
  /\ UNCHANGED <<now, users, disk, failed, unavailable, up, dead, barred, used>>

\* Deleting a token that is not there is logged as well.
HandleTokenRevoke(r) ==
  /\ Handles(r, "revoke")
  /\ tokens' = [tokens EXCEPT ![req[r].op.token] = Nil]
  /\ Go(r, "wait")
  /\ UNCHANGED <<now, users, disk, failed, unavailable, up, ghosts, used>>

-----------------------------------------------------------------------------
(* The database answers. *)

Woken == [r \in Reqs |-> IF At(r, "wait") THEN [req[r] EXCEPT !.pc = "done"]
                         ELSE req[r]]

\* Waking the callers before the log is synced.
FlushLazy ==
  /\ up /\ ~failed /\ \E r \in Reqs : At(r, "wait")
  /\ disk' \in {disk, Memory}
  /\ req' = Woken
  /\ UNCHANGED <<now, users, tokens, failed, unavailable, up, ghosts, used>>

\* writeLog: all changes so far are durable and their callers may return.
Flush ==
  /\ up /\ ~failed /\ \E r \in Reqs : At(r, "wait")
  /\ disk' = Memory
  /\ req' = Woken
  /\ UNCHANGED <<now, users, tokens, failed, unavailable, up, ghosts, used>>

\* A caller returns from the database without an error.
Succeed(r) ==
  LET o == req[r].op IN
  /\ At(r, "done")
  /\ dead' = IF o.kind = "revoke" THEN dead \cup {o.token} ELSE dead
  /\ barred' = IF o.kind = "update" /\ o.disabled = TRUE /\ ~req[r].undone
                 THEN barred \cup {o.user} ELSE barred
  /\ IF o.kind = "update" THEN Go(r, "reread") ELSE Answer(r)
  /\ UNCHANGED <<now, dbVars, unavailable, up, owner, used>>

\* handleUserUpdate reads the user again and answers.
Reread(r) ==
  /\ At(r, "reread")
  /\ Answer(r)
  /\ UNCHANGED <<now, dbVars, unavailable, up, ghosts, used>>

\* A write or a sync fails: what was to be logged is on disk or not.
Break ==
  /\ up /\ ~failed /\ used.stop < MaxStops
  /\ used' = [used EXCEPT !.stop = @ + 1]
  /\ failed' = TRUE /\ disk' \in {disk, Memory}
  /\ UNCHANGED <<now, users, tokens, unavailable, up, req, ghosts>>

\* A caller returns with the failure, and mutationError shuts the door.
Fail(r) ==
  /\ At(r, "wait") /\ failed
  /\ Answer(r)
  /\ unavailable' = TRUE
  /\ UNCHANGED <<now, dbVars, up, ghosts, used>>

\* The process dies, or shuts down after a failure: no request survives it.
Crash ==
  /\ up
  /\ \/ unavailable /\ UNCHANGED used
     \/ used.stop < MaxStops /\ used' = [used EXCEPT !.stop = @ + 1]
  /\ up' = FALSE /\ failed' = FALSE /\ unavailable' = FALSE
  /\ users' = disk.users /\ tokens' = disk.tokens
  /\ req' = [r \in Reqs |-> Nil]
  /\ UNCHANGED <<now, disk, ghosts>>

\* initializeAuth lets the server start only with an active administrator.
Restart ==
  /\ ~up /\ hasActiveAdmin(users, tokens, now)
  /\ up' = TRUE
  /\ UNCHANGED <<now, dbVars, unavailable, req, ghosts, used>>

Clock ==
  /\ \/ now < MaxClock /\ now' = now + 1 /\ UNCHANGED used
     \/ /\ now > 0 /\ used.back < MaxBack
        /\ now' = now - 1 /\ used' = [used EXCEPT !.back = @ + 1]
  /\ UNCHANGED <<dbVars, unavailable, up, req, ghosts>>

-----------------------------------------------------------------------------
Step(r) ==
  \/ \E o \in Ops, t \in Tokens : Begin(r, o, t)
  \/ ReadToken(r) \/ ReadUser(r)
  \/ HandleData(r) \/ HandleUserCreate(r) \/ HandleUserUpdate(r)
  \/ HandleTokenCreate(r) \/ IssueToken(r) \/ HandleTokenRevoke(r)
  \/ Succeed(r) \/ Reread(r) \/ Fail(r)

Next ==
  \/ \E r \in Reqs : Step(r)
  \/ Flush \/ Break \/ Crash \/ Restart \/ Clock

Spec == Init /\ [][Next]_vars

-----------------------------------------------------------------------------
(* Properties. *)

Admitted(r) ==
  req[r] # Nil /\ req[r].pc \in {"handle", "issue", "wait", "done", "reread"}

\* handleTokenRevoke: once the revocation of a token has been answered, no
\* request that arrives with it later gets past authenticate, whatever else
\* is in flight and whatever a crash and a restart bring back.
RevokedStaysOut ==
  \A r \in Reqs : Admitted(r) => "revoked" \notin req[r].late

\* handleUserUpdate: once disabling a user has been answered, no request that
\* arrives later with a token of that user gets past authenticate until the
\* user is enabled again; a token whose creation was under way is no
\* exception, and a crash enables nobody.
DisabledStaysOut ==
  \A r \in Reqs : Admitted(r) => "disabled" \notin req[r].late

\* What the handlers store, authenticate accepts: a stored token that has not
\* expired belongs to a stored user and, unless that user is disabled, opens
\* the door.  The records' own checks never lock out a good credential, in
\* memory and in what a restart would find.
CredentialsAccepted ==
  \A db \in {Memory, disk}, t \in Tokens :
    LET token == db.tokens[t] IN
    token # Nil /\ (token.expires = Nil \/ now < token.expires) =>
      LET user == db.users[token.user] IN
      /\ user # Nil
      /\ ~user.disabled => Active(token, now) /\ Enabled(user)

\* handleTokenCreate: a token that is added while the server runs is for a
\* user who is enabled at that moment.
TokenForEnabled ==
  [][\A t \in Tokens : up /\ up' /\ tokens[t] = Nil /\ tokens'[t] # Nil =>
       Enabled(users[tokens'[t].user])]_vars
=============================================================================

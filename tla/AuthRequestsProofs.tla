------------------------- MODULE AuthRequestsProofs --------------------------
(***************************************************************************)
(* That a revoked token and a disabled user stay out, for any number of    *)
(* users, tokens and requests in flight, that stored credentials are       *)
(* accepted as long as the wall clock is never set back, and that tokens   *)
(* are for enabled users where no request can disable one meanwhile.       *)
(*                                                                         *)
(* A revocation or a disabling is in memory when its request waits, and on *)
(* disk when it is woken (ReqInv), so that neither the requests in flight  *)
(* nor a crash can bring the credential back once it was answered          *)
(* (DeadInv, BarredInv).                                                   *)
(***************************************************************************)
EXTENDS AuthRequests, TLAPS

\* The store's part of TypeOK.
StoreOK ==
  /\ users \in UserTables /\ tokens \in TokenTables
  /\ disk \in [users : UserTables, tokens : TokenTables]

\* Its flags' part.
Flags == failed \in BOOLEAN /\ unavailable \in BOOLEAN /\ up \in BOOLEAN

Off(table, u) == table[u] # Nil /\ table[u].disabled

\* A stored token is its owner's, in memory and on disk.
OwnerInv ==
  \A t \in Tokens :
    /\ tokens[t] # Nil => owner[t] = tokens[t].user
    /\ disk.tokens[t] # Nil => owner[t] = disk.tokens[t].user

\* A token whose revocation was answered is in neither, and a user whose
\* disabling was answered is disabled in both.
DeadInv == \A t \in dead : tokens[t] = Nil /\ disk.tokens[t] = Nil
BarredInv == \A u \in barred : Off(users, u) /\ Off(disk.users, u)

Revokes(q) == q.op.kind = "revoke"
Disables(q) == q.op.kind = "update" /\ q.op.disabled = TRUE /\ ~q.undone

\* Request q: it knows its user; if it came too late it has not been admitted;
\* and what it changed is in memory, and on disk once it is woken.
ReqOK(q) ==
  /\ q.pc # "token" => q.uid \in Users /\ q.uid = owner[q.tok]
  /\ "revoked" \in q.late => q.tok \in dead /\ q.pc = "token"
  /\ "disabled" \in q.late => owner[q.tok] \in barred /\ q.pc \in {"token", "user"}
  /\ q.pc = "issue" => q.op.kind = "token"
  /\ q.pc \in {"wait", "done"} /\ Revokes(q) => tokens[q.op.token] = Nil
  /\ q.pc = "done" /\ Revokes(q) => disk.tokens[q.op.token] = Nil
  /\ q.pc \in {"wait", "done"} /\ Disables(q) => Off(users, q.op.user)
  /\ q.pc = "done" /\ Disables(q) => Off(disk.users, q.op.user)

ReqInv == \A r \in Reqs : req[r] # Nil => ReqOK(req[r])

\* The inductive invariant.
Inv == TypeOK /\ OwnerInv /\ DeadInv /\ BarredInv /\ ReqInv

\* At the given time the records are valid, and a token's user is stored with it.
UsersOK(table, time) ==
  \A u \in Users : table[u] # Nil =>
    table[u].created <= time /\ validateUserRecord(table[u])
TokensOK(table, stored) ==
  \A t \in Tokens : stored[t] # Nil =>
    validateTokenRecord(stored[t]) /\ table[stored[t].user] # Nil

\* A token is issued to a stored user.
IssueInv == \A r \in Reqs : At(r, "issue") => users[req[r].op.user] # Nil

\* The inductive invariant while the clock is not set back.
CredInv ==
  /\ UsersOK(users, now) /\ UsersOK(disk.users, now)
  /\ TokensOK(users, tokens) /\ TokensOK(disk.users, disk.tokens)
  /\ IssueInv

USE RecordsAssumption, RequestsAssumption

-----------------------------------------------------------------------------
(* Records and requests *)

\* What each kind of request consists of.
LEMMA OpTypes ==
  ASSUME NEW o \in Ops
  PROVE  /\ o.kind \in {"data", "create", "update", "token", "revoke"}
         /\ o.kind \in {"data", "create"} => o.role \in Roles
         /\ o.kind = "update" => /\ o.user \in Users /\ o.role \in Roles \cup {Nil}
                                 /\ o.disabled \in BOOLEAN \cup {Nil}
         /\ o.kind = "token" => o.user \in Users /\ o.expires \in Times \cup {Nil}
         /\ o.kind = "revoke" => o.token \in Tokens
  <1>1. o \in AllOps
    OBVIOUS
  <1>2. CASE o \in [kind : {"data"}, role : Roles] \cup [kind : {"create"}, role : Roles]
    BY <1>2
  <1>3. CASE o \in [kind : {"update"}, user : Users, role : Roles \cup {Nil},
                    disabled : BOOLEAN \cup {Nil}]
    BY <1>3
  <1>4. CASE o \in [kind : {"token"}, user : Users, expires : Times \cup {Nil}]
    BY <1>4
  <1>5. CASE o \in [kind : {"revoke"}, token : Tokens]
    BY <1>5
  <1>6. QED
    BY <1>1, <1>2, <1>3, <1>4, <1>5 DEF AllOps

\* The fields of a request.
LEMMA RequestFields ==
  ASSUME NEW q \in Requests
  PROVE  /\ q # Nil
         /\ q.pc \in {"token", "user", "handle", "issue", "wait", "done", "reread"}
         /\ q.op \in Ops /\ q.tok \in Tokens /\ q.uid \in Users \cup {Nil}
         /\ q.late \in SUBSET {"revoked", "disabled"} /\ q.undone \in BOOLEAN
  <1>1. q # Nil
    OBVIOUS
  <1>2. QED
    BY <1>1 DEF Requests

\* The records that the handlers make.
LEMMA NewRecords ==
  /\ \A n \in Names, r \in Roles, t \in Times : NewUser(n, r, t) \in UserRecords
  /\ \A u \in Users, t \in Times, e \in Times \cup {Nil} :
       NewToken(u, "other", t, e) \in TokenRecords
  <1>1. \A n \in Names, r \in Roles, t \in Times : NewUser(n, r, t) \in UserRecords
    BY Zenon DEF NewUser, UserRecords
  <1>2. \A u \in Users, t \in Times, e \in Times \cup {Nil} :
          NewToken(u, "other", t, e) \in TokenRecords
    BY DEF NewToken, TokenRecords
  <1>3. QED
    BY <1>1, <1>2

\* A user's record with the fields of an update.
LEMMA UpdatedRecord ==
  ASSUME NEW user \in UserRecords, NEW o \in Ops, o.kind = "update", now \in Times
  PROVE  [user EXCEPT !.role = IF o.role = Nil THEN @ ELSE o.role,
                      !.disabled = IF o.disabled = Nil THEN @ ELSE o.disabled,
                      !.updated = now] \in UserRecords
  <1> DEFINE r == IF o.role = Nil THEN user.role ELSE o.role
             d == IF o.disabled = Nil THEN user.disabled ELSE o.disabled
  <1>1. user.role \in Roles /\ user.disabled \in BOOLEAN
    BY DEF UserRecords
  <1>2. r \in Roles /\ d \in BOOLEAN
    BY <1>1, OpTypes
  <1> HIDE DEF r, d
  <1>3. [user EXCEPT !.role = r, !.disabled = d, !.updated = now] \in UserRecords
    BY <1>2 DEF UserRecords
  <1>4. QED
    BY <1>3 DEF r, d

\* A record can be stored.
LEMMA TableTypes ==
  /\ \A f \in UserTables, u \in Users, r \in UserRecords \cup {Nil} :
       [f EXCEPT ![u] = r] \in UserTables
  /\ \A f \in TokenTables, t \in Tokens, r \in TokenRecords \cup {Nil} :
       [f EXCEPT ![t] = r] \in TokenTables
  BY DEF UserTables, TokenTables

-----------------------------------------------------------------------------
(* The invariant is inductive *)

\* A request in flight is one.
LEMMA InFlight ==
  ASSUME TypeOK, NEW r \in Reqs, req[r] # Nil
  PROVE  req[r] \in Requests
  BY DEF TypeOK

\* The tables keep their shape.
LEMMA StoreTypes == Inv /\ [Next]_vars => StoreOK'
  <1> SUFFICES ASSUME Inv, [Next]_vars
               PROVE  StoreOK'
    OBVIOUS
  <1> USE DEF Inv, TypeOK, StoreOK, Memory, dbVars
  <1>1. ASSUME NEW r \in Reqs, NEW o \in Ops, NEW t \in Tokens, Begin(r, o, t)
        PROVE  StoreOK'
    BY <1>1 DEF Begin
  <1>2. ASSUME NEW r \in Reqs, ReadToken(r)
        PROVE  StoreOK'
    BY <1>2 DEF ReadToken
  <1>3. ASSUME NEW r \in Reqs, ReadUser(r)
        PROVE  StoreOK'
    BY <1>3 DEF ReadUser
  <1>4. ASSUME NEW r \in Reqs, HandleData(r)
        PROVE  StoreOK'
    BY <1>4 DEF HandleData
  <1>5. ASSUME NEW r \in Reqs, HandleUserCreate(r)
        PROVE  StoreOK'
    <2>1. PICK u \in FreshUsers(users, tokens), n \in Names :
            users' = [users EXCEPT ![u] = NewUser(n, req[r].op.role, now)]
      BY <1>5 DEF HandleUserCreate
    <2>2. req[r].op.role \in Roles
      BY <1>5, InFlight, RequestFields, OpTypes DEF HandleUserCreate, Handles, At, Inv
    <2>3. u \in Users /\ NewUser(n, req[r].op.role, now) \in UserRecords
      BY <2>2, NewRecords DEF FreshUsers
    <2>4. users' \in UserTables
      BY <2>1, <2>3, TableTypes
    <2>5. QED
      BY <1>5, <2>4 DEF HandleUserCreate
  <1>6. ASSUME NEW r \in Reqs, HandleUserUpdate(r)
        PROVE  StoreOK'
    <2> DEFINE o == req[r].op
    <2>0. Handles(r, "update") /\ tokens' = tokens /\ disk' = disk
      BY <1>6, ZenonT(40) DEF HandleUserUpdate
    <2>1. o \in Ops /\ o.kind = "update" /\ o.user \in Users
      BY <2>0, InFlight, RequestFields, OpTypes, SMTT(30) DEF Handles, At, Inv
    <2>2. CASE users' = users
      BY <2>0, <2>2
    <2>3. CASE /\ users[o.user] # Nil
               /\ users' = [users EXCEPT ![o.user] =
                    [users[o.user] EXCEPT !.role = IF o.role = Nil THEN @ ELSE o.role,
                              !.disabled = IF o.disabled = Nil THEN @ ELSE o.disabled,
                              !.updated = now]]
      <3>1. users[o.user] \in UserRecords
        BY <2>1, <2>3 DEF UserTables
      <3>3. users' \in UserTables
        BY <2>1, <2>3, <3>1, UpdatedRecord, TableTypes
      <3>4. QED
        BY <2>0, <3>3
    <2>4. QED
      BY <1>6, <2>2, <2>3 DEF HandleUserUpdate
  <1>7. ASSUME NEW r \in Reqs, HandleTokenCreate(r)
        PROVE  StoreOK'
    BY <1>7 DEF HandleTokenCreate
  <1>8. ASSUME NEW r \in Reqs, IssueToken(r)
        PROVE  StoreOK'
    <2>1. /\ req[r].op.user \in Users /\ req[r].op.expires \in Times \cup {Nil}
      BY <1>8, InFlight, RequestFields, OpTypes DEF IssueToken, At, Inv, ReqInv, ReqOK
    <2>2. NewToken(req[r].op.user, "other", now, req[r].op.expires) \in TokenRecords
      BY <2>1, NewRecords
    <2>3. QED
      BY <1>8, <2>2, TableTypes DEF IssueToken, FreshTokens
  <1>9. ASSUME NEW r \in Reqs, HandleTokenRevoke(r)
        PROVE  StoreOK'
    <2>1. req[r].op.token \in Tokens
      BY <1>9, InFlight, RequestFields, OpTypes DEF HandleTokenRevoke, Handles, At, Inv
    <2>2. QED
      BY <1>9, <2>1, TableTypes DEF HandleTokenRevoke
  <1>10. ASSUME NEW r \in Reqs, Succeed(r)
        PROVE  StoreOK'
    BY <1>10 DEF Succeed
  <1>11. ASSUME NEW r \in Reqs, Reread(r)
        PROVE  StoreOK'
    BY <1>11 DEF Reread
  <1>12. ASSUME NEW r \in Reqs, Fail(r)
        PROVE  StoreOK'
    BY <1>12 DEF Fail
  <1>13. CASE Flush
    BY <1>13 DEF Flush
  <1>14. CASE Break
    BY <1>14 DEF Break
  <1>15. CASE Crash
    BY <1>15 DEF Crash
  <1>16. CASE Restart
    BY <1>16 DEF Restart
  <1>17. CASE Clock
    BY <1>17 DEF Clock
  <1>18. CASE UNCHANGED vars
    BY <1>18 DEF vars
  <1>19. QED
    BY <1>1, <1>2, <1>3, <1>4, <1>5, <1>6, <1>7, <1>8, <1>9, <1>10, <1>11, <1>12,
       <1>13, <1>14, <1>15, <1>16, <1>17, <1>18 DEF Next, Step

\* Request q has become n, which may be at another place.
Same(n, q) ==
  /\ n \in Requests /\ n.op = q.op /\ n.tok = q.tok /\ n.uid = q.uid
  /\ n.late = q.late /\ n.undone = q.undone

\* The other requests stay what they are.
Others(r) == \A x \in Reqs \ {r} : req'[x] = req[x]

Flight == req \in [Reqs -> Requests \cup {Nil}]

\* A request is answered.
LEMMA AnswerStep ==
  ASSUME Flight, NEW r \in Reqs, Answer(r)
  PROVE  Flight' /\ req'[r] = Nil /\ Others(r)
  BY DEF Flight, Answer, Others

\* A request goes on to l.
LEMMA GoStep ==
  ASSUME Flight, NEW r \in Reqs, req[r] # Nil,
         NEW l \in {"token", "user", "handle", "issue", "wait", "done", "reread"},
         Go(r, l)
  PROVE  Flight' /\ Same(req'[r], req[r]) /\ req'[r].pc = l /\ Others(r)
  <1>1. req[r] \in Requests
    BY DEF Flight
  <1>2. req' = [req EXCEPT ![r] = [req[r] EXCEPT !.pc = l]]
    BY DEF Go
  <1>3. PICK n : n = [req[r] EXCEPT !.pc = l]
    OBVIOUS
  <1>4. Same(n, req[r]) /\ n.pc = l
    BY <1>1, <1>3 DEF Same, Requests
  <1>5. n \in Requests
    BY <1>4 DEF Same
  <1>6. QED
    BY <1>2, <1>3, <1>4, <1>5 DEF Flight, Others

\* A request arrives.
LEMMA ArriveStep ==
  ASSUME Flight, NEW r \in Reqs, NEW o \in Ops, NEW t \in Tokens, Begin(r, o, t)
  PROVE  /\ Flight' /\ Others(r)
         /\ req'[r].pc = "token" /\ req'[r].op = o /\ req'[r].tok = t
         /\ "revoked" \in req'[r].late <=> t \in dead
         /\ "disabled" \in req'[r].late <=> owner[t] \in barred
  <1> DEFINE late == {why \in {"revoked", "disabled"} :
                        \/ why = "revoked" /\ t \in dead
                        \/ why = "disabled" /\ owner[t] \in barred}
  <1>1. PICK n : n = [pc |-> "token", op |-> o, tok |-> t, uid |-> Nil,
                      undone |-> FALSE, late |-> late]
    OBVIOUS
  <1>2. late \in SUBSET {"revoked", "disabled"}
    OBVIOUS
  <1>3. "revoked" \in late <=> t \in dead
    OBVIOUS
  <1>4. "disabled" \in late <=> owner[t] \in barred
    OBVIOUS
  <1>5. req' = [req EXCEPT ![r] = n]
    BY <1>1 DEF Begin
  <1> HIDE DEF late
  <1>6. n \in Requests
    BY <1>1, <1>2, Zenon DEF Requests
  <1>7. n.pc = "token" /\ n.op = o /\ n.tok = t /\ n.late = late
    BY <1>1
  <1>8. QED
    BY <1>3, <1>4, <1>5, <1>6, <1>7 DEF Flight, Others

\* authenticate has read an active token, whose user it now knows.
LEMMA ReadTokenStep ==
  ASSUME Inv, NEW r \in Reqs, ReadToken(r), Active(tokens[req[r].tok], now)
  PROVE  /\ Flight' /\ Others(r)
         /\ req'[r].pc = "user" /\ req'[r].op = req[r].op /\ req'[r].tok = req[r].tok
         /\ req'[r].late = req[r].late /\ req'[r].undone = req[r].undone
         /\ req'[r].uid = owner[req[r].tok] /\ req'[r].uid \in Users
         /\ tokens[req[r].tok] # Nil
  <1> DEFINE q == req[r]
             token == tokens[q.tok]
  <1>1. q \in Requests /\ Flight
    BY InFlight DEF ReadToken, At, Inv, TypeOK, Flight
  <1>2. q.tok \in Tokens
    BY <1>1, RequestFields
  <1>3. token \in TokenRecords
    BY <1>2 DEF Inv, TypeOK, TokenTables, Active
  <1>4. token.user \in Users /\ token # Nil
    BY <1>3 DEF TokenRecords
  <1>5. owner[q.tok] = token.user
    BY <1>2, <1>4 DEF Inv, OwnerInv
  <1>6. PICK n : n = [q EXCEPT !.pc = "user", !.uid = token.user]
    OBVIOUS
  <1>7. req' = [req EXCEPT ![r] = n]
    BY <1>6 DEF ReadToken
  <1>8. /\ n \in Requests /\ n.pc = "user" /\ n.op = q.op /\ n.tok = q.tok
        /\ n.uid = token.user /\ n.late = q.late /\ n.undone = q.undone
    BY <1>1, <1>4, <1>6 DEF Requests
  <1> HIDE DEF q, token
  <1>9. QED
    BY <1>1, <1>4, <1>5, <1>7, <1>8 DEF Flight, Others, q, token

\* Those who wait are woken.
LEMMA WokenStep ==
  ASSUME Flight, req' = Woken
  PROVE  /\ Flight'
         /\ \A x \in Reqs :
              \/ req'[x] = req[x] /\ ~At(x, "wait")
              \/ req[x] # Nil /\ At(x, "wait") /\ Same(req'[x], req[x]) /\ req'[x].pc = "done"
  <1>1. ASSUME NEW x \in Reqs, At(x, "wait")
        PROVE  req[x] # Nil /\ Same(req'[x], req[x]) /\ req'[x].pc = "done" /\ req'[x] \in Requests
    <2>1. req[x] \in Requests /\ req[x] # Nil
      BY <1>1 DEF At, Flight
    <2>2. PICK n : n = [req[x] EXCEPT !.pc = "done"]
      OBVIOUS
    <2>3. req'[x] = n
      BY <1>1, <2>2 DEF Woken
    <2>4. Same(n, req[x]) /\ n.pc = "done"
      BY <2>1, <2>2 DEF Same, Requests
    <2>5. QED
      BY <2>1, <2>3, <2>4 DEF Same
  <1>2. ASSUME NEW x \in Reqs, ~At(x, "wait")
        PROVE  req'[x] = req[x]
    BY <1>2 DEF Woken
  <1>3. req' = [x \in Reqs |-> req'[x]]
    BY DEF Woken
  <1>4. QED
    BY <1>1, <1>2, <1>3 DEF Flight

\* Request q has become n when user u is updated, and enabled by that or not.
Touched(n, q, u, enables) ==
  /\ n \in Requests /\ n.op = q.op /\ n.tok = q.tok /\ n.uid = q.uid
  /\ n.late = IF enables /\ owner[q.tok] = u THEN q.late \ {"disabled"} ELSE q.late

Undone(q, u, enables) ==
  q.undone \/ (enables /\ q.op.kind = "update" /\ q.op.user = u)

Enables(o) == o.disabled = FALSE

\* A user is changed: its own request waits, and when that enables the user
\* then nobody is late because of it, and earlier disablings are undone.
LEMMA UpdateStep ==
  ASSUME Inv, NEW r \in Reqs, HandleUserUpdate(r),
         ~(Answer(r) /\ UNCHANGED <<users, barred>>),
         NEW u, u = req[r].op.user, NEW enables, enables = Enables(req[r].op)
  PROVE  /\ Flight'
         /\ \A x \in Reqs : req[x] = Nil => req'[x] = Nil
         /\ Touched(req'[r], req[r], u, enables) /\ req'[r].pc = "wait"
         /\ \A x \in Reqs \ {r} : req[x] # Nil =>
              /\ Touched(req'[x], req[x], u, enables) /\ req'[x].pc = req[x].pc
              /\ req'[x].undone = Undone(req[x], u, enables)
  <1> USE DEF Enables
  <1> DEFINE After == IF req[r].op.disabled = FALSE THEN AfterEnabling(req[r].op.user) ELSE req
  <1>1. Flight /\ req[r] # Nil /\ req[r] \in Requests
    BY InFlight DEF HandleUserUpdate, Handles, At, Inv, TypeOK, Flight
  <1>2. req' = [After EXCEPT ![r].pc = "wait", ![r].undone = FALSE]
    BY DEF HandleUserUpdate
  <1>3. ASSUME NEW x \in Reqs, req[x] # Nil
        PROVE  /\ Touched(After[x], req[x], u, enables) /\ After[x].pc = req[x].pc
               /\ After[x].undone = Undone(req[x], u, enables)
    <2> DEFINE q == req[x]
               s == IF owner[q.tok] = u THEN q.late \ {"disabled"} ELSE q.late
               b == q.undone \/ (q.op.kind = "update" /\ q.op.user = u)
    <2>1. q \in Requests
      BY <1>1, <1>3 DEF Flight
    <2>2. s \in SUBSET {"revoked", "disabled"} /\ q.undone \in BOOLEAN
      BY <2>1, RequestFields
    <2>3. b \in BOOLEAN
      BY Zenon
    <2>4. CASE ~enables
      <3>1. After[x] = q
        BY <2>4
      <3>2. QED
        BY <2>1, <2>2, <2>4, <3>1 DEF Touched, Undone
    <2>5. CASE enables
      <3>1. After[x] = [q EXCEPT !.late = s, !.undone = b]
        BY <1>3, <2>5 DEF AfterEnabling
      <3> HIDE DEF s, b, After
      <3>2. /\ After[x] \in Requests /\ After[x].pc = q.pc /\ After[x].op = q.op
            /\ After[x].tok = q.tok /\ After[x].uid = q.uid
            /\ After[x].late = s /\ After[x].undone = b
        BY <2>1, <2>2, <2>3, <3>1 DEF Requests
      <3>3. QED
        BY <2>5, <3>2 DEF s, b, Touched, Undone
    <2>6. QED
      BY <2>4, <2>5
  <1>4. \A x \in Reqs : req[x] = Nil => After[x] = Nil
    BY DEF AfterEnabling
  <1>5. After = [x \in Reqs |-> After[x]]
    BY <1>1 DEF AfterEnabling, Flight
  <1> HIDE DEF After
  <1>6. \A x \in Reqs : req[x] # Nil => After[x] \in Requests
    BY <1>3 DEF Touched
  <1>7. PICK n : n = [After[r] EXCEPT !.pc = "wait", !.undone = FALSE]
    OBVIOUS
  <1>8. req' = [After EXCEPT ![r] = n]
    BY <1>2, <1>5, <1>7
  <1>9. n \in Requests
    BY <1>1, <1>6, <1>7, Zenon DEF Requests
  <1>10. /\ n.pc = "wait" /\ n.op = After[r].op /\ n.tok = After[r].tok
         /\ n.uid = After[r].uid /\ n.late = After[r].late
    BY <1>1, <1>6, <1>7 DEF Requests
  <1>11. \A x \in Reqs : req'[x] = IF x = r THEN n ELSE After[x]
    BY <1>5, <1>8
  <1>12. Flight'
    BY <1>4, <1>5, <1>6, <1>8, <1>9 DEF Flight
  <1>13. Touched(n, req[r], u, enables)
    BY <1>1, <1>3, <1>9, <1>10 DEF Touched
  <1>14. QED
    BY <1>1, <1>3, <1>4, <1>10, <1>11, <1>12, <1>13, SMTT(30)

\* The flags are set or not.
LEMMA FlagTypes == Inv /\ [Next]_vars => Flags'
  <1> SUFFICES ASSUME Inv, [Next]_vars
               PROVE  Flags'
    OBVIOUS
  <1> USE DEF Inv, TypeOK, Flags
  <1>1. ASSUME NEW r \in Reqs, NEW o \in Ops, NEW t \in Tokens, Begin(r, o, t)
        PROVE  Flags'
    BY <1>1, Zenon DEF Begin, dbVars
  <1>2. ASSUME NEW r \in Reqs, ReadToken(r)
        PROVE  Flags'
    BY <1>2, Zenon DEF ReadToken, dbVars
  <1>3. ASSUME NEW r \in Reqs, ReadUser(r)
        PROVE  Flags'
    BY <1>3, Zenon DEF ReadUser, dbVars
  <1>4. ASSUME NEW r \in Reqs, HandleData(r)
        PROVE  Flags'
    BY <1>4, Zenon DEF HandleData, dbVars
  <1>5. ASSUME NEW r \in Reqs, HandleUserCreate(r)
        PROVE  Flags'
    BY <1>5, Zenon DEF HandleUserCreate, dbVars
  <1>6. ASSUME NEW r \in Reqs, HandleUserUpdate(r)
        PROVE  Flags'
    BY <1>6, Zenon DEF HandleUserUpdate, dbVars
  <1>7. ASSUME NEW r \in Reqs, HandleTokenCreate(r)
        PROVE  Flags'
    BY <1>7, Zenon DEF HandleTokenCreate, dbVars
  <1>8. ASSUME NEW r \in Reqs, IssueToken(r)
        PROVE  Flags'
    BY <1>8, Zenon DEF IssueToken, dbVars
  <1>9. ASSUME NEW r \in Reqs, HandleTokenRevoke(r)
        PROVE  Flags'
    BY <1>9, Zenon DEF HandleTokenRevoke, dbVars
  <1>10. ASSUME NEW r \in Reqs, Succeed(r)
        PROVE  Flags'
    BY <1>10, Zenon DEF Succeed, dbVars
  <1>11. ASSUME NEW r \in Reqs, Reread(r)
        PROVE  Flags'
    BY <1>11, Zenon DEF Reread, dbVars
  <1>12. ASSUME NEW r \in Reqs, Fail(r)
        PROVE  Flags'
    BY <1>12, Zenon DEF Fail, dbVars
  <1>13. CASE Flush
    BY <1>13, Zenon DEF Flush, dbVars
  <1>14. CASE Break
    BY <1>14, Zenon DEF Break, dbVars
  <1>15. CASE Crash
    BY <1>15, Zenon DEF Crash, dbVars
  <1>16. CASE Restart
    BY <1>16, Zenon DEF Restart, dbVars
  <1>17. CASE Clock
    BY <1>17, Zenon DEF Clock, dbVars
  <1>18. CASE UNCHANGED vars
    BY <1>18 DEF vars, dbVars
  <1>19. QED
    BY <1>1, <1>2, <1>3, <1>4, <1>5, <1>6, <1>7, <1>8, <1>9, <1>10, <1>11, <1>12,
       <1>13, <1>14, <1>15, <1>16, <1>17, <1>18 DEF Next, Step

\* The requests in flight keep their shape.
LEMMA FlightStep == Inv /\ [Next]_vars => Flight'
  <1> SUFFICES ASSUME Inv, [Next]_vars
               PROVE  Flight'
    OBVIOUS
  <1>a. Flight
    BY DEF Inv, TypeOK, Flight
  <1>1. ASSUME NEW r \in Reqs, NEW o \in Ops, NEW t \in Tokens, Begin(r, o, t)
        PROVE  Flight'
    BY <1>a, <1>1, ArriveStep
  <1>2. ASSUME NEW r \in Reqs, ReadToken(r)
        PROVE  Flight'
    <2>1. CASE Active(tokens[req[r].tok], now)
      BY <1>2, <2>1, ReadTokenStep
    <2>2. CASE ~Active(tokens[req[r].tok], now)
      BY <1>2, <1>a, <2>2, AnswerStep DEF ReadToken
    <2>3. QED
      BY <2>1, <2>2
  <1>3. ASSUME NEW r \in Reqs, ReadUser(r)
        PROVE  Flight'
    <2>1. req[r] # Nil /\ (Answer(r) \/ Go(r, "handle"))
      BY <1>3 DEF ReadUser, Handles, At
    <2>2. QED
      BY <1>a, <2>1, AnswerStep, GoStep
  <1>4. ASSUME NEW r \in Reqs, HandleData(r)
        PROVE  Flight'
    <2>1. Answer(r)
      BY <1>4 DEF HandleData
    <2>2. QED
      BY <1>a, <2>1, AnswerStep
  <1>5. ASSUME NEW r \in Reqs, HandleUserCreate(r)
        PROVE  Flight'
    <2>1. req[r] # Nil /\ Go(r, "wait")
      BY <1>5 DEF HandleUserCreate, Handles, At
    <2>2. QED
      BY <1>a, <2>1, GoStep
  <1>6. ASSUME NEW r \in Reqs, HandleUserUpdate(r)
        PROVE  Flight'
    <2>1. CASE ~(Answer(r) /\ UNCHANGED <<users, barred>>)
      BY <1>6, <2>1, UpdateStep
    <2>2. CASE Answer(r)
      BY <1>a, <2>2, AnswerStep
    <2>3. QED
      BY <2>1, <2>2
  <1>7. ASSUME NEW r \in Reqs, HandleTokenCreate(r)
        PROVE  Flight'
    <2>1. req[r] # Nil /\ (Answer(r) \/ Go(r, "issue"))
      BY <1>7 DEF HandleTokenCreate, Handles, At
    <2>2. QED
      BY <1>a, <2>1, AnswerStep, GoStep
  <1>8. ASSUME NEW r \in Reqs, IssueToken(r)
        PROVE  Flight'
    <2>1. req[r] # Nil /\ (Answer(r) \/ Go(r, "wait"))
      BY <1>8 DEF IssueToken, Handles, At
    <2>2. QED
      BY <1>a, <2>1, AnswerStep, GoStep
  <1>9. ASSUME NEW r \in Reqs, HandleTokenRevoke(r)
        PROVE  Flight'
    <2>1. req[r] # Nil /\ Go(r, "wait")
      BY <1>9 DEF HandleTokenRevoke, Handles, At
    <2>2. QED
      BY <1>a, <2>1, GoStep
  <1>10. ASSUME NEW r \in Reqs, Succeed(r)
        PROVE  Flight'
    <2>1. req[r] # Nil /\ (Answer(r) \/ Go(r, "reread"))
      BY <1>10 DEF Succeed, Handles, At
    <2>2. QED
      BY <1>a, <2>1, AnswerStep, GoStep
  <1>11. ASSUME NEW r \in Reqs, Reread(r)
        PROVE  Flight'
    <2>1. Answer(r)
      BY <1>11 DEF Reread
    <2>2. QED
      BY <1>a, <2>1, AnswerStep
  <1>12. ASSUME NEW r \in Reqs, Fail(r)
        PROVE  Flight'
    <2>1. Answer(r)
      BY <1>12 DEF Fail
    <2>2. QED
      BY <1>a, <2>1, AnswerStep
  <1>13. CASE Flush
    BY <1>a, <1>13, WokenStep DEF Flush
  <1>14. CASE Break
    BY <1>a, <1>14 DEF Break, Flight
  <1>15. CASE Crash
    BY <1>15 DEF Crash, Flight
  <1>16. CASE Restart
    BY <1>a, <1>16 DEF Restart, Flight
  <1>17. CASE Clock
    BY <1>a, <1>17 DEF Clock, Flight
  <1>18. CASE UNCHANGED vars
    BY <1>18, <1>a DEF vars, Flight
  <1>19. QED
    BY <1>1, <1>2, <1>3, <1>4, <1>5, <1>6, <1>7, <1>8, <1>9, <1>10, <1>11, <1>12,
       <1>13, <1>14, <1>15, <1>16, <1>17, <1>18 DEF Next, Step

\* The owners after a step.
OwnerNext ==
  /\ owner' \in [Tokens -> Users \cup {Nil}]
  /\ \A t \in Tokens : owner[t] # Nil => owner'[t] = owner[t]
  /\ \A t \in Tokens :
       /\ tokens'[t] # Nil => owner'[t] = tokens'[t].user
       /\ disk'.tokens[t] # Nil => owner'[t] = disk'.tokens[t].user

\* A token that has an owner keeps it.
LEMMA OwnerStep == Inv /\ [Next]_vars => OwnerNext
  <1> SUFFICES ASSUME Inv, [Next]_vars
               PROVE  OwnerNext
    OBVIOUS
  <1> USE DEF OwnerNext, dbVars, ghosts
  <1>a. /\ owner \in [Tokens -> Users \cup {Nil}]
        /\ \A t \in Tokens :
             /\ tokens[t] # Nil => owner[t] = tokens[t].user
             /\ disk.tokens[t] # Nil => owner[t] = disk.tokens[t].user
    BY DEF Inv, TypeOK, OwnerInv
  <1>1. ASSUME NEW r \in Reqs, NEW o \in Ops, NEW t \in Tokens, Begin(r, o, t)
        PROVE  OwnerNext
    BY <1>1, <1>a DEF Begin
  <1>2. ASSUME NEW r \in Reqs, ReadToken(r)
        PROVE  OwnerNext
    BY <1>2, <1>a DEF ReadToken
  <1>3. ASSUME NEW r \in Reqs, ReadUser(r)
        PROVE  OwnerNext
    BY <1>3, <1>a DEF ReadUser
  <1>4. ASSUME NEW r \in Reqs, HandleData(r)
        PROVE  OwnerNext
    BY <1>4, <1>a DEF HandleData
  <1>5. ASSUME NEW r \in Reqs, HandleUserCreate(r)
        PROVE  OwnerNext
    BY <1>5, <1>a DEF HandleUserCreate
  <1>6. ASSUME NEW r \in Reqs, HandleUserUpdate(r)
        PROVE  OwnerNext
    BY <1>6, <1>a DEF HandleUserUpdate
  <1>7. ASSUME NEW r \in Reqs, HandleTokenCreate(r)
        PROVE  OwnerNext
    BY <1>7, <1>a DEF HandleTokenCreate
  <1>8. ASSUME NEW r \in Reqs, IssueToken(r)
        PROVE  OwnerNext
    <2>1. CASE UNCHANGED <<tokens, owner>>
      BY <1>8, <1>a, <2>1 DEF IssueToken
    <2>2. CASE \E t \in FreshTokens :
                 /\ tokens' = [tokens EXCEPT ![t] =
                                 NewToken(req[r].op.user, "other", now, req[r].op.expires)]
                 /\ owner' = [owner EXCEPT ![t] = req[r].op.user]
      <3>1. PICK t \in FreshTokens :
                 /\ tokens' = [tokens EXCEPT ![t] =
                                 NewToken(req[r].op.user, "other", now, req[r].op.expires)]
                 /\ owner' = [owner EXCEPT ![t] = req[r].op.user]
        BY <2>2
      <3>2. req[r].op.user \in Users
        BY <1>8, InFlight, RequestFields, OpTypes DEF IssueToken, At, Inv, ReqInv, ReqOK
      <3>3. t \in Tokens /\ owner[t] = Nil
        BY DEF FreshTokens
      <3>4. disk.tokens[t] = Nil
        <4>1. disk.tokens[t] \in TokenRecords \cup {Nil}
          BY <3>3 DEF Inv, TypeOK, TokenTables
        <4>2. disk.tokens[t] # Nil => disk.tokens[t].user \in Users
          BY <4>1 DEF TokenRecords
        <4>3. QED
          BY <1>a, <3>3, <4>2
      <3>5. tokens \in [Tokens -> TokenRecords \cup {Nil}] /\ owner \in [Tokens -> Users \cup {Nil}]
        BY DEF Inv, TypeOK, TokenTables
      <3>6. NewToken(req[r].op.user, "other", now, req[r].op.expires).user = req[r].op.user
        BY DEF NewToken
      <3>7. disk' = disk
        BY <1>8 DEF IssueToken
      <3>8. \A s \in Tokens \ {t} : tokens'[s] = tokens[s] /\ owner'[s] = owner[s]
        BY <3>1, <3>5
      <3>9. /\ tokens'[t].user = req[r].op.user /\ owner'[t] = req[r].op.user
            /\ owner' \in [Tokens -> Users \cup {Nil}]
        BY <3>1, <3>2, <3>3, <3>5, <3>6
      <3>10. QED
        BY <1>a, <3>3, <3>4, <3>7, <3>8, <3>9
    <2>3. QED
      BY <1>8, <2>1, <2>2 DEF IssueToken
  <1>9. ASSUME NEW r \in Reqs, HandleTokenRevoke(r)
        PROVE  OwnerNext
    <2>1. \A t \in Tokens : tokens'[t] # Nil => tokens'[t] = tokens[t]
      BY <1>9 DEF HandleTokenRevoke, Inv, TypeOK, TokenTables
    <2>2. QED
      BY <1>9, <1>a, <2>1 DEF HandleTokenRevoke
  <1>10. ASSUME NEW r \in Reqs, Succeed(r)
        PROVE  OwnerNext
    BY <1>10, <1>a DEF Succeed
  <1>11. ASSUME NEW r \in Reqs, Reread(r)
        PROVE  OwnerNext
    BY <1>11, <1>a DEF Reread
  <1>12. ASSUME NEW r \in Reqs, Fail(r)
        PROVE  OwnerNext
    BY <1>12, <1>a DEF Fail
  <1>13. CASE Flush
    <2>1. disk'.tokens \in {disk.tokens, tokens} /\ UNCHANGED <<tokens, owner>>
      BY <1>13 DEF Flush, Memory
    <2>2. QED
      BY <1>a, <2>1
  <1>14. CASE Break
    <2>1. disk'.tokens \in {disk.tokens, tokens} /\ UNCHANGED <<tokens, owner>>
      BY <1>14 DEF Break, Memory
    <2>2. QED
      BY <1>a, <2>1
  <1>15. CASE Crash
    BY <1>15, <1>a DEF Crash
  <1>16. CASE Restart
    BY <1>16, <1>a DEF Restart
  <1>17. CASE Clock
    BY <1>17, <1>a DEF Clock
  <1>18. CASE UNCHANGED vars
    BY <1>18, <1>a DEF vars
  <1>19. QED
    BY <1>1, <1>2, <1>3, <1>4, <1>5, <1>6, <1>7, <1>8, <1>9, <1>10, <1>11, <1>12,
       <1>13, <1>14, <1>15, <1>16, <1>17, <1>18 DEF Next, Step

\* The revoked tokens after a step.
DeadNext ==
  /\ dead \subseteq dead' /\ dead' \subseteq Tokens
  /\ \A t \in dead' : tokens'[t] = Nil /\ disk'.tokens[t] = Nil

\* A revoked token is never stored again.
LEMMA DeadStep == Inv /\ [Next]_vars => DeadNext
  <1> SUFFICES ASSUME Inv, [Next]_vars
               PROVE  DeadNext
    OBVIOUS
  <1> USE DEF DeadNext, dbVars, ghosts
  <1>a. \A t \in dead : tokens[t] = Nil /\ disk.tokens[t] = Nil
    BY DEF Inv, DeadInv
  <1>b. dead \subseteq Tokens
    BY DEF Inv, TypeOK
  <1>1. ASSUME NEW r \in Reqs, NEW o \in Ops, NEW t \in Tokens, Begin(r, o, t)
        PROVE  DeadNext
    BY <1>1, <1>a, <1>b DEF Begin
  <1>2. ASSUME NEW r \in Reqs, ReadToken(r)
        PROVE  DeadNext
    BY <1>2, <1>a, <1>b DEF ReadToken
  <1>3. ASSUME NEW r \in Reqs, ReadUser(r)
        PROVE  DeadNext
    BY <1>3, <1>a, <1>b DEF ReadUser
  <1>4. ASSUME NEW r \in Reqs, HandleData(r)
        PROVE  DeadNext
    BY <1>4, <1>a, <1>b DEF HandleData
  <1>5. ASSUME NEW r \in Reqs, HandleUserCreate(r)
        PROVE  DeadNext
    BY <1>5, <1>a, <1>b DEF HandleUserCreate
  <1>6. ASSUME NEW r \in Reqs, HandleUserUpdate(r)
        PROVE  DeadNext
    BY <1>6, <1>a, <1>b DEF HandleUserUpdate
  <1>7. ASSUME NEW r \in Reqs, HandleTokenCreate(r)
        PROVE  DeadNext
    BY <1>7, <1>a, <1>b DEF HandleTokenCreate
  <1>8. ASSUME NEW r \in Reqs, IssueToken(r)
        PROVE  DeadNext
    <2>1. \A t \in dead : tokens'[t] = tokens[t]
      BY <1>8, <1>b DEF IssueToken, FreshTokens, Inv, TypeOK, TokenTables
    <2>2. QED
      BY <1>8, <1>a, <1>b, <2>1 DEF IssueToken
  <1>9. ASSUME NEW r \in Reqs, HandleTokenRevoke(r)
        PROVE  DeadNext
    <2>1. \A t \in dead : tokens'[t] = Nil
      BY <1>9, <1>a, <1>b DEF HandleTokenRevoke, Inv, TypeOK, TokenTables
    <2>2. QED
      BY <1>9, <1>a, <1>b, <2>1 DEF HandleTokenRevoke
  <1>10. ASSUME NEW r \in Reqs, Succeed(r)
        PROVE  DeadNext
    <2>1. req[r].op.kind = "revoke" =>
            /\ req[r].op.token \in Tokens
            /\ tokens[req[r].op.token] = Nil /\ disk.tokens[req[r].op.token] = Nil
      BY <1>10, InFlight, RequestFields, OpTypes DEF Succeed, At, Inv, ReqInv,
         ReqOK, Revokes
    <2>2. UNCHANGED <<tokens, disk>>
      BY <1>10 DEF Succeed
    <2>3. QED
      BY <1>10, <1>a, <1>b, <2>1, <2>2 DEF Succeed
  <1>11. ASSUME NEW r \in Reqs, Reread(r)
        PROVE  DeadNext
    BY <1>11, <1>a, <1>b DEF Reread
  <1>12. ASSUME NEW r \in Reqs, Fail(r)
        PROVE  DeadNext
    BY <1>12, <1>a, <1>b DEF Fail
  <1>13. CASE Flush
    <2>1. disk'.tokens \in {disk.tokens, tokens} /\ UNCHANGED <<tokens, dead>>
      BY <1>13 DEF Flush, Memory
    <2>2. QED
      BY <1>a, <1>b, <2>1
  <1>14. CASE Break
    <2>1. disk'.tokens \in {disk.tokens, tokens} /\ UNCHANGED <<tokens, dead>>
      BY <1>14 DEF Break, Memory
    <2>2. QED
      BY <1>a, <1>b, <2>1
  <1>15. CASE Crash
    BY <1>15, <1>a, <1>b DEF Crash
  <1>16. CASE Restart
    BY <1>16, <1>a, <1>b DEF Restart
  <1>17. CASE Clock
    BY <1>17, <1>a, <1>b DEF Clock
  <1>18. CASE UNCHANGED vars
    BY <1>18, <1>a, <1>b DEF vars
  <1>19. QED
    BY <1>1, <1>2, <1>3, <1>4, <1>5, <1>6, <1>7, <1>8, <1>9, <1>10, <1>11, <1>12,
       <1>13, <1>14, <1>15, <1>16, <1>17, <1>18 DEF Next, Step

\* The users who are kept out after a step.
BarredNext ==
  /\ barred' \subseteq Users
  /\ \A u \in barred' : Off(users', u) /\ Off(disk'.users, u)

\* Who is kept out stays disabled until enabled.
LEMMA BarredStep == Inv /\ [Next]_vars => BarredNext
  <1> SUFFICES ASSUME Inv, [Next]_vars
               PROVE  BarredNext
    OBVIOUS
  <1> USE DEF BarredNext, dbVars, ghosts
  <1>a. barred \subseteq Users /\ \A u \in barred : Off(users, u) /\ Off(disk.users, u)
    BY DEF Inv, TypeOK, BarredInv
  <1>1. ASSUME NEW r \in Reqs, NEW o \in Ops, NEW t \in Tokens, Begin(r, o, t)
        PROVE  BarredNext
    BY <1>1, <1>a DEF Begin
  <1>2. ASSUME NEW r \in Reqs, ReadToken(r)
        PROVE  BarredNext
    BY <1>2, <1>a DEF ReadToken
  <1>3. ASSUME NEW r \in Reqs, ReadUser(r)
        PROVE  BarredNext
    BY <1>3, <1>a DEF ReadUser
  <1>4. ASSUME NEW r \in Reqs, HandleData(r)
        PROVE  BarredNext
    BY <1>4, <1>a DEF HandleData
  <1>5. ASSUME NEW r \in Reqs, HandleUserCreate(r)
        PROVE  BarredNext
    <2>1. \A u \in barred : users'[u] = users[u]
      BY <1>5, <1>a DEF HandleUserCreate, FreshUsers, Inv, TypeOK, UserTables, Off
    <2>2. QED
      BY <1>5, <1>a, <2>1 DEF HandleUserCreate, Off
  <1>6. ASSUME NEW r \in Reqs, HandleUserUpdate(r)
        PROVE  BarredNext
    <2>1. CASE UNCHANGED <<users, barred>>
      BY <1>6, <1>a, <2>1, ZenonT(40) DEF HandleUserUpdate
    <2>2. CASE ~UNCHANGED <<users, barred>>
      <3> DEFINE o == req[r].op
      <3>1. o \in Ops /\ o.kind = "update" /\ o.user \in Users /\ o.disabled \in BOOLEAN \cup {Nil}
        BY <1>6, InFlight, RequestFields, OpTypes DEF HandleUserUpdate, Handles, At, Inv
      <3>2. /\ users[o.user] # Nil
            /\ users' = [users EXCEPT ![o.user] =
                 [users[o.user] EXCEPT !.role = IF o.role = Nil THEN @ ELSE o.role,
                           !.disabled = IF o.disabled = Nil THEN @ ELSE o.disabled,
                           !.updated = now]]
            /\ barred' = IF o.disabled = FALSE THEN barred \ {o.user} ELSE barred
            /\ disk' = disk
        BY <1>6, <2>2 DEF HandleUserUpdate
      <3>3. users[o.user] \in UserRecords /\ users \in [Users -> UserRecords \cup {Nil}]
        BY <3>1, <3>2 DEF Inv, TypeOK, UserTables
      <3>4. users'[o.user] \in UserRecords
        BY <3>1, <3>2, <3>3, UpdatedRecord DEF Inv, TypeOK
      <3>5. users'[o.user].disabled = IF o.disabled = Nil THEN users[o.user].disabled ELSE o.disabled
        BY <3>1, <3>2, <3>3 DEF UserRecords
      <3>6. \A u \in Users \ {o.user} : users'[u] = users[u]
        BY <3>2, <3>3
      <3>7. o.user \in barred' => o.disabled # FALSE /\ o.user \in barred
        BY <3>2
      <3>8. o.user \in barred' => Off(users', o.user)
        BY <1>a, <3>1, <3>4, <3>5, <3>7 DEF Off
      <3>9. \A u \in barred' : u \in barred
        BY <3>2
      <3>10. QED
        BY <1>a, <3>2, <3>6, <3>8, <3>9, ZenonT(40) DEF Off
    <2>3. QED
      BY <2>1, <2>2
  <1>7. ASSUME NEW r \in Reqs, HandleTokenCreate(r)
        PROVE  BarredNext
    BY <1>7, <1>a DEF HandleTokenCreate
  <1>8. ASSUME NEW r \in Reqs, IssueToken(r)
        PROVE  BarredNext
    BY <1>8, <1>a DEF IssueToken
  <1>9. ASSUME NEW r \in Reqs, HandleTokenRevoke(r)
        PROVE  BarredNext
    BY <1>9, <1>a DEF HandleTokenRevoke
  <1>10. ASSUME NEW r \in Reqs, Succeed(r)
        PROVE  BarredNext
    <2>1. Disables(req[r]) => /\ req[r].op.user \in Users
                              /\ Off(users, req[r].op.user) /\ Off(disk.users, req[r].op.user)
      BY <1>10, InFlight, RequestFields, OpTypes DEF Succeed, At, Inv, ReqInv,
         ReqOK, Disables
    <2>2. UNCHANGED <<users, disk>>
      BY <1>10 DEF Succeed
    <2>3. QED
      BY <1>10, <1>a, <2>1, <2>2 DEF Succeed, Disables
  <1>11. ASSUME NEW r \in Reqs, Reread(r)
        PROVE  BarredNext
    BY <1>11, <1>a DEF Reread
  <1>12. ASSUME NEW r \in Reqs, Fail(r)
        PROVE  BarredNext
    BY <1>12, <1>a DEF Fail
  <1>13. CASE Flush
    <2>1. disk'.users \in {disk.users, users} /\ UNCHANGED <<users, barred>>
      BY <1>13 DEF Flush, Memory
    <2>2. QED
      BY <1>a, <2>1
  <1>14. CASE Break
    <2>1. disk'.users \in {disk.users, users} /\ UNCHANGED <<users, barred>>
      BY <1>14 DEF Break, Memory
    <2>2. QED
      BY <1>a, <2>1
  <1>15. CASE Crash
    BY <1>15, <1>a DEF Crash
  <1>16. CASE Restart
    BY <1>16, <1>a DEF Restart
  <1>17. CASE Clock
    BY <1>17, <1>a DEF Clock
  <1>18. CASE UNCHANGED vars
    BY <1>18, <1>a DEF vars
  <1>19. QED
    BY <1>1, <1>2, <1>3, <1>4, <1>5, <1>6, <1>7, <1>8, <1>9, <1>10, <1>11, <1>12,
       <1>13, <1>14, <1>15, <1>16, <1>17, <1>18 DEF Next, Step

\* What ReqOK says of n after a step.
ReqNext(n) ==
  /\ n.pc # "token" => n.uid \in Users /\ n.uid = owner'[n.tok]
  /\ "revoked" \in n.late => n.tok \in dead' /\ n.pc = "token"
  /\ "disabled" \in n.late => owner'[n.tok] \in barred' /\ n.pc \in {"token", "user"}
  /\ n.pc = "issue" => n.op.kind = "token"
  /\ n.pc \in {"wait", "done"} /\ Revokes(n) => tokens'[n.op.token] = Nil
  /\ n.pc = "done" /\ Revokes(n) => disk'.tokens[n.op.token] = Nil
  /\ n.pc \in {"wait", "done"} /\ Disables(n) => Off(users', n.op.user)
  /\ n.pc = "done" /\ Disables(n) => Off(disk'.users, n.op.user)
FlightNext == \A x \in Reqs : req'[x] # Nil => ReqNext(req'[x])

\* The store keeps what the requests in flight rely on.
Calm ==
  /\ barred \subseteq barred'
  /\ \A t \in Tokens : tokens[t] = Nil =>
       \/ tokens'[t] = Nil
       \/ \A x \in Reqs : req[x] # Nil => ~(Revokes(req[x]) /\ req[x].op.token = t)
  /\ \A u \in Users : Off(users, u) => Off(users', u)
  /\ \/ disk' = disk
     \/ disk' = Memory

\* A request that does not move.
LEMMA ReqStays ==
  ASSUME Inv, OwnerNext, DeadNext, Calm, NEW x \in Reqs, req[x] # Nil, req'[x] = req[x]
  PROVE  ReqNext(req'[x])
  <1> DEFINE q == req[x]
  <1>1. q \in Requests /\ ReqOK(q)
    BY InFlight DEF Inv, ReqInv
  <1>2. q.tok \in Tokens /\ q.op \in Ops
    BY <1>1, RequestFields
  <1>3. /\ q.op.kind = "revoke" => q.op.token \in Tokens
        /\ q.op.kind = "update" => q.op.user \in Users
    BY <1>2, OpTypes
  <1>4. owner[q.tok] # Nil => owner'[q.tok] = owner[q.tok]
    BY <1>2 DEF OwnerNext
  <1>5. barred \subseteq Users
    BY DEF Inv, TypeOK
  <1> HIDE DEF q
  <1>6. \/ disk'.tokens = disk.tokens /\ disk'.users = disk.users
        \/ disk'.tokens = tokens /\ disk'.users = users
    BY DEF Memory, Calm
  <1>7. ReqNext(q)
    BY <1>1, <1>2, <1>3, <1>4, <1>5, <1>6 DEF ReqOK, ReqNext, DeadNext, Revokes,
       Disables, Calm, q
  <1>8. QED
    BY <1>7 DEF q

\* One request moves.
LEMMA OneMoves ==
  ASSUME Inv, OwnerNext, DeadNext, Calm, NEW r \in Reqs, Others(r),
         req'[r] # Nil => ReqNext(req'[r])
  PROVE  FlightNext
  BY ReqStays DEF FlightNext, Others

\* A request that goes on, by where it goes.
LEMMA ReqMoves ==
  ASSUME Inv, OwnerNext, DeadNext, NEW r \in Reqs, req[r] # Nil, req[r].pc # "token",
         Same(req'[r], req[r]),
         \/ req[r].pc = "user" => ~Off(users, req[r].uid)
         \/ "disabled" \notin req[r].late,
         req'[r].pc \in {"handle", "issue", "wait", "reread"},
         req'[r].pc = "issue" => req[r].op.kind = "token",
         req'[r].pc = "wait" => /\ Revokes(req[r]) => tokens'[req[r].op.token] = Nil
                                /\ Disables(req[r]) => Off(users', req[r].op.user)
  PROVE  ReqNext(req'[r])
  <1> DEFINE q == req[r]
             n == req'[r]
  <1>1. q \in Requests /\ ReqOK(q) /\ BarredInv
    BY InFlight DEF Inv, ReqInv
  <1>2. q.tok \in Tokens
    BY <1>1, RequestFields
  <1>3. q.uid \in Users /\ q.uid = owner[q.tok] /\ q.uid # Nil
    BY <1>1 DEF ReqOK
  <1>4. owner'[q.tok] = q.uid
    BY <1>2, <1>3 DEF OwnerNext
  <1>5. "revoked" \notin q.late /\ "disabled" \notin q.late
    BY <1>1, <1>3 DEF ReqOK, BarredInv
  <1>6. /\ n.op = q.op /\ n.tok = q.tok /\ n.uid = q.uid /\ n.late = q.late
        /\ n.undone = q.undone
    BY DEF Same
  <1> HIDE DEF q, n
  <1>7. /\ n.pc \in {"handle", "issue", "wait", "reread"}
        /\ n.pc = "issue" => q.op.kind = "token"
        /\ n.pc = "wait" => /\ Revokes(q) => tokens'[q.op.token] = Nil
                            /\ Disables(q) => Off(users', q.op.user)
    BY DEF q, n
  <1>8. ReqNext(n)
    BY <1>3, <1>4, <1>5, <1>6, <1>7 DEF ReqNext, Revokes, Disables
  <1>9. QED
    BY <1>8 DEF n

\* A change of a user, and what it does to the requests in flight.
LEMMA UpdateNext ==
  ASSUME Inv, OwnerNext, DeadNext, NEW r \in Reqs, HandleUserUpdate(r)
  PROVE  FlightNext
  <1> DEFINE o == req[r].op
  <1>1. /\ Flight /\ req[r] # Nil /\ req[r].pc = "handle" /\ ReqOK(req[r])
        /\ req[r] \in Requests
    BY InFlight DEF HandleUserUpdate, Handles, At, Inv, TypeOK, Flight, ReqInv
  <1>2. /\ o \in Ops /\ o.kind = "update" /\ o.user \in Users
        /\ o.disabled \in BOOLEAN \cup {Nil}
    BY <1>1, RequestFields, OpTypes DEF HandleUserUpdate, Handles
  <1>3. CASE Answer(r) /\ UNCHANGED <<users, barred>>
    <2>1. Calm
      BY <1>3 DEF HandleUserUpdate, Calm
    <2>2. QED
      BY <1>1, <1>3, <2>1, AnswerStep, OneMoves
  <1>4. CASE ~(Answer(r) /\ UNCHANGED <<users, barred>>)
    <2>1. PICK e : e = Enables(o)
      OBVIOUS
    <2>2. PICK u : u = o.user
      OBVIOUS
    <2>3. /\ \A x \in Reqs : req[x] = Nil => req'[x] = Nil
          /\ Touched(req'[r], req[r], u, e) /\ req'[r].pc = "wait"
          /\ \A x \in Reqs \ {r} : req[x] # Nil =>
               /\ Touched(req'[x], req[x], u, e) /\ req'[x].pc = req[x].pc
               /\ req'[x].undone = Undone(req[x], u, e)
      BY <1>4, <2>1, <2>2, UpdateStep
    <2>4. /\ users[o.user] # Nil
          /\ users' = [users EXCEPT ![o.user] =
               [users[o.user] EXCEPT !.role = IF o.role = Nil THEN @ ELSE o.role,
                         !.disabled = IF o.disabled = Nil THEN @ ELSE o.disabled,
                         !.updated = now]]
          /\ barred' = IF o.disabled = FALSE THEN barred \ {o.user} ELSE barred
          /\ UNCHANGED <<disk, tokens, owner, dead>>
      BY <1>4 DEF HandleUserUpdate
    <2>5. users[o.user] \in UserRecords /\ users \in [Users -> UserRecords \cup {Nil}]
      BY <1>2, <2>4 DEF Inv, TypeOK, UserTables
    <2>6. users'[o.user] \in UserRecords /\ users'[o.user] # Nil
      <3>1. users'[o.user] \in UserRecords
        BY <1>2, <2>4, <2>5, UpdatedRecord DEF Inv, TypeOK
      <3>2. QED
        BY <3>1
    <2>7. users'[o.user].disabled = IF o.disabled = Nil THEN users[o.user].disabled ELSE o.disabled
      BY <1>2, <2>4, <2>5 DEF UserRecords
    <2>8. \A v \in Users : Off(users, v) /\ ~(e /\ v = u) => Off(users', v)
      <3>1. ASSUME NEW v \in Users, v # u, Off(users, v)
            PROVE  Off(users', v)
        BY <2>2, <2>4, <2>5, <3>1 DEF Off
      <3>2. ASSUME Off(users, u), ~e
            PROVE  Off(users', u)
        BY <1>2, <2>1, <2>2, <2>6, <2>7, <3>2 DEF Off, Enables
      <3>3. QED
        BY <3>1, <3>2
    <2>9. o.disabled = TRUE => Off(users', u)
      <3>1. TRUE # Nil
        BY Zenon
      <3>2. QED
        BY <2>2, <2>6, <2>7, <3>1, Zenon DEF Off
    <2>10. ReqNext(req'[r])
      <3>1. /\ req[r].uid \in Users /\ req[r].uid = owner[req[r].tok]
            /\ "revoked" \notin req[r].late /\ "disabled" \notin req[r].late
        BY <1>1 DEF ReqOK
      <3>2. /\ req'[r].uid = req[r].uid /\ req'[r].tok = req[r].tok /\ req'[r].op = o
            /\ "revoked" \notin req'[r].late /\ "disabled" \notin req'[r].late
        BY <2>3, <3>1 DEF Touched
      <3>3. QED
        BY <1>2, <2>2, <2>3, <2>4, <2>9, <3>1, <3>2 DEF ReqNext, Revokes, Disables
    <2>11. ASSUME NEW x \in Reqs \ {r}, req[x] # Nil
           PROVE  ReqNext(req'[x])
      <3> DEFINE q == req[x]
                 n == req'[x]
      <3>1. q \in Requests /\ ReqOK(q)
        BY <2>11, InFlight DEF Inv, ReqInv
      <3>2. q.tok \in Tokens /\ q.op \in Ops
        BY <3>1, RequestFields
      <3>3. q.op.kind = "update" => q.op.user \in Users
        BY <3>2, OpTypes
      <3>4. /\ n.op = q.op /\ n.tok = q.tok /\ n.uid = q.uid /\ n.pc = q.pc
            /\ n.late = IF e /\ owner[q.tok] = u THEN q.late \ {"disabled"} ELSE q.late
        BY <2>3, <2>11 DEF Touched
      <3>5. n.undone = (q.undone \/ (e /\ q.op.kind = "update" /\ q.op.user = u))
        BY <2>3, <2>11 DEF Undone
      <3> HIDE DEF q, n
      <3>6. "disabled" \in n.late => owner[q.tok] \in barred'
        BY <2>1, <2>2, <2>4, <3>1, <3>4 DEF ReqOK, Enables
      <3>7. /\ "revoked" \in n.late <=> "revoked" \in q.late
            /\ "disabled" \in n.late => "disabled" \in q.late
        BY <3>4
      <3>8. Disables(n) => Disables(q) /\ ~(e /\ q.op.user = u) /\ q.op.user \in Users
        BY <3>3, <3>4, <3>5 DEF Disables
      <3>9. Revokes(n) <=> Revokes(q)
        BY <3>4 DEF Revokes
      <3>10. ReqNext(n)
        BY <2>4, <2>8, <3>1, <3>4, <3>6, <3>7, <3>8, <3>9 DEF ReqOK, ReqNext
      <3>11. QED
        BY <3>10 DEF n
    <2>12. QED
      BY <2>3, <2>10, <2>11 DEF FlightNext
  <1>5. QED
    BY <1>3, <1>4

\* Requests in flight keep what they rely on.
LEMMA ReqStep == Inv /\ [Next]_vars => FlightNext
  <1> SUFFICES ASSUME Inv, [Next]_vars
               PROVE  FlightNext
    OBVIOUS
  <1> USE DEF dbVars, ghosts
  <1>a. Flight /\ OwnerNext /\ DeadNext
    BY OwnerStep, DeadStep DEF Inv, TypeOK, Flight
  <1>b. UNCHANGED <<users, tokens, disk, barred>> => Calm
    BY DEF Calm
  <1>1. ASSUME NEW r \in Reqs, NEW o \in Ops, NEW t \in Tokens, Begin(r, o, t)
        PROVE  FlightNext
    <2>1. Calm
      BY <1>1, <1>b DEF Begin
    <2>2. /\ Others(r) /\ req'[r].pc = "token" /\ req'[r].tok = t
          /\ "revoked" \in req'[r].late <=> t \in dead
          /\ "disabled" \in req'[r].late <=> owner[t] \in barred
      BY <1>1, <1>a, ArriveStep
    <2>3. dead' = dead /\ barred' = barred /\ owner' = owner
      BY <1>1 DEF Begin
    <2>4. ReqNext(req'[r])
      BY <2>2, <2>3 DEF ReqNext
    <2>5. QED
      BY <1>a, <2>1, <2>2, <2>4, OneMoves
  <1>2. ASSUME NEW r \in Reqs, ReadToken(r)
        PROVE  FlightNext
    <2>1. Calm
      BY <1>2, <1>b DEF ReadToken
    <2>2. CASE ~Active(tokens[req[r].tok], now)
      <3>1. req'[r] = Nil /\ Others(r)
        BY <1>2, <1>a, <2>2, AnswerStep DEF ReadToken
      <3>2. QED
        BY <1>a, <2>1, <3>1, OneMoves
    <2>3. CASE Active(tokens[req[r].tok], now)
      <3> DEFINE q == req[r]
                 n == req'[r]
      <3>1. /\ Others(r) /\ n.pc = "user" /\ n.op = q.op /\ n.tok = q.tok
            /\ n.late = q.late /\ n.uid = owner[q.tok] /\ n.uid \in Users
            /\ tokens[q.tok] # Nil
        BY <1>2, <2>3, ReadTokenStep
      <3>2. /\ "revoked" \in q.late => q.tok \in dead
            /\ "disabled" \in q.late => owner[q.tok] \in barred
        BY <1>2 DEF ReadToken, At, Inv, ReqInv, ReqOK
      <3>3. "revoked" \notin q.late
        BY <3>1, <3>2 DEF Inv, DeadInv
      <3>4. owner' = owner /\ barred' = barred
        BY <1>2 DEF ReadToken
      <3> HIDE DEF q, n
      <3>5. ReqNext(n)
        BY <3>1, <3>2, <3>3, <3>4 DEF ReqNext
      <3>6. QED
        BY <1>a, <2>1, <3>1, <3>5, OneMoves DEF n
    <2>4. QED
      BY <2>2, <2>3
  <1>3. ASSUME NEW r \in Reqs, ReadUser(r)
        PROVE  FlightNext
    <2>1. Calm
      BY <1>3, <1>b DEF ReadUser
    <2>2. req[r] # Nil /\ req[r] \in Requests /\ req[r].pc # "token"
      BY <1>3, InFlight DEF ReadUser, Handles, At, Inv
    <2>3. CASE Answer(r)
      BY <1>a, <2>1, <2>3, AnswerStep, OneMoves
    <2>4. CASE Go(r, "handle")
      <3>1. Same(req'[r], req[r]) /\ req'[r].pc = "handle" /\ Others(r)
        BY <1>a, <2>2, <2>4, GoStep
      <3>2. CASE Off(users, req[r].uid)
        BY <1>3, <1>a, <2>1, <3>2, AnswerStep, OneMoves DEF ReadUser, Enabled, Off
      <3>3. CASE ~Off(users, req[r].uid)
        <4>1. ReqNext(req'[r])
          BY <1>a, <2>2, <3>1, <3>3, ReqMoves
        <4>2. QED
          BY <1>a, <2>1, <3>1, <4>1, OneMoves
      <3>4. QED
        BY <3>2, <3>3
    <2>5. QED
      BY <1>3, <2>3, <2>4 DEF ReadUser
  <1>4. ASSUME NEW r \in Reqs, HandleData(r)
        PROVE  FlightNext
    <2>1. Calm
      BY <1>4, <1>b DEF HandleData
    <2>2. req'[r] = Nil /\ Others(r)
      BY <1>4, <1>a, AnswerStep DEF HandleData
    <2>3. QED
      BY <1>a, <2>1, <2>2, OneMoves
  <1>5. ASSUME NEW r \in Reqs, HandleUserCreate(r)
        PROVE  FlightNext
    <2>1. Calm
      <3>1. \A u \in Users : Off(users, u) => Off(users', u)
        BY <1>5 DEF HandleUserCreate, FreshUsers, Inv, TypeOK, UserTables, Off
      <3>2. QED
        BY <1>5, <3>1 DEF HandleUserCreate, Calm
    <2>2. req[r] # Nil /\ req[r] \in Requests /\ req[r].pc # "token"
      BY <1>5, InFlight DEF HandleUserCreate, Handles, At, Inv
    <2>3. CASE Answer(r)
      BY <1>a, <2>1, <2>3, AnswerStep, OneMoves
    <2>4. CASE Go(r, "wait")
      <3>1. Same(req'[r], req[r]) /\ req'[r].pc = "wait" /\ Others(r)
        BY <1>a, <2>2, <2>4, GoStep
      <3>2. "disabled" \notin req[r].late
        BY <1>5, <2>2 DEF HandleUserCreate, Handles, At, Inv, ReqInv, ReqOK
      <3>3. ~Revokes(req[r]) /\ ~Disables(req[r])
        BY <1>5, <2>2 DEF HandleUserCreate, Handles, At, Inv, ReqInv, ReqOK,
           Revokes, Disables
      <3>4. ReqNext(req'[r])
        BY <1>a, <2>2, <3>1, <3>2, <3>3, ReqMoves
      <3>5. QED
        BY <1>a, <2>1, <3>1, <3>4, OneMoves
    <2>5. QED
      BY <1>5, <2>3, <2>4 DEF HandleUserCreate
  <1>6. ASSUME NEW r \in Reqs, HandleUserUpdate(r)
        PROVE  FlightNext
    BY <1>6, <1>a, UpdateNext
  <1>7. ASSUME NEW r \in Reqs, HandleTokenCreate(r)
        PROVE  FlightNext
    <2>1. Calm
      BY <1>7, <1>b DEF HandleTokenCreate
    <2>2. req[r] # Nil /\ req[r] \in Requests /\ req[r].pc # "token"
      BY <1>7, InFlight DEF HandleTokenCreate, Handles, At, Inv
    <2>3. CASE Answer(r)
      BY <1>a, <2>1, <2>3, AnswerStep, OneMoves
    <2>4. CASE Go(r, "issue")
      <3>1. Same(req'[r], req[r]) /\ req'[r].pc = "issue" /\ Others(r)
        BY <1>a, <2>2, <2>4, GoStep
      <3>2. "disabled" \notin req[r].late
        BY <1>7, <2>2 DEF HandleTokenCreate, Handles, At, Inv, ReqInv, ReqOK
      <3>3. req[r].op.kind = "token"
        BY <1>7, <2>2 DEF HandleTokenCreate, Handles, At, Inv, ReqInv, ReqOK,
           Revokes, Disables
      <3>4. ReqNext(req'[r])
        BY <1>a, <2>2, <3>1, <3>2, <3>3, ReqMoves
      <3>5. QED
        BY <1>a, <2>1, <3>1, <3>4, OneMoves
    <2>5. QED
      BY <1>7, <2>3, <2>4 DEF HandleTokenCreate
  <1>8. ASSUME NEW r \in Reqs, IssueToken(r)
        PROVE  FlightNext
    <2>1. Calm
      <3>1. \A t \in Tokens : tokens[t] = Nil =>
              \/ tokens'[t] = Nil
              \/ \A x \in Reqs : req[x] # Nil => ~(Revokes(req[x]) /\ req[x].op.token = t)
        BY <1>8 DEF IssueToken, FreshTokens, Revokes, Inv, TypeOK, TokenTables
      <3>2. QED
        BY <1>8, <3>1 DEF IssueToken, Calm
    <2>2. req[r] # Nil /\ req[r] \in Requests /\ req[r].pc # "token"
      BY <1>8, InFlight DEF IssueToken, Handles, At, Inv
    <2>3. CASE Answer(r)
      BY <1>a, <2>1, <2>3, AnswerStep, OneMoves
    <2>4. CASE Go(r, "wait")
      <3>1. Same(req'[r], req[r]) /\ req'[r].pc = "wait" /\ Others(r)
        BY <1>a, <2>2, <2>4, GoStep
      <3>2. "disabled" \notin req[r].late
        BY <1>8, <2>2 DEF IssueToken, Handles, At, Inv, ReqInv, ReqOK
      <3>3. ~Revokes(req[r]) /\ ~Disables(req[r])
        BY <1>8, <2>2 DEF IssueToken, Handles, At, Inv, ReqInv, ReqOK, Revokes, Disables
      <3>4. ReqNext(req'[r])
        BY <1>a, <2>2, <3>1, <3>2, <3>3, ReqMoves
      <3>5. QED
        BY <1>a, <2>1, <3>1, <3>4, OneMoves
    <2>5. QED
      BY <1>8, <2>3, <2>4 DEF IssueToken
  <1>9. ASSUME NEW r \in Reqs, HandleTokenRevoke(r)
        PROVE  FlightNext
    <2>1. Calm
      <3>1. \A t \in Tokens : tokens[t] = Nil => tokens'[t] = Nil
        BY <1>9 DEF HandleTokenRevoke, Inv, TypeOK, TokenTables
      <3>2. QED
        BY <1>9, <3>1 DEF HandleTokenRevoke, Calm
    <2>2. req[r] # Nil /\ req[r] \in Requests /\ req[r].pc # "token"
      BY <1>9, InFlight DEF HandleTokenRevoke, Handles, At, Inv
    <2>3. CASE Answer(r)
      BY <1>a, <2>1, <2>3, AnswerStep, OneMoves
    <2>4. CASE Go(r, "wait")
      <3>1. Same(req'[r], req[r]) /\ req'[r].pc = "wait" /\ Others(r)
        BY <1>a, <2>2, <2>4, GoStep
      <3>2. "disabled" \notin req[r].late /\ ~Disables(req[r]) /\ req[r].op.kind = "revoke"
        BY <1>9, <2>2 DEF HandleTokenRevoke, Handles, At, Inv, ReqInv, ReqOK, Disables
      <3>3. req[r].op.token \in Tokens
        BY <2>2, <3>2, RequestFields, OpTypes
      <3>4. tokens'[req[r].op.token] = Nil
        BY <1>9, <3>3 DEF HandleTokenRevoke, Inv, TypeOK, TokenTables
      <3>5. ReqNext(req'[r])
        BY <1>a, <2>2, <3>1, <3>2, <3>4, ReqMoves
      <3>6. QED
        BY <1>a, <2>1, <3>1, <3>5, OneMoves
    <2>5. QED
      BY <1>9, <2>3, <2>4 DEF HandleTokenRevoke
  <1>10. ASSUME NEW r \in Reqs, Succeed(r)
        PROVE  FlightNext
    <2>1. Calm
      BY <1>10 DEF Succeed, Calm
    <2>2. req[r] # Nil /\ req[r] \in Requests /\ req[r].pc # "token"
      BY <1>10, InFlight DEF Succeed, Handles, At, Inv
    <2>3. CASE Answer(r)
      BY <1>a, <2>1, <2>3, AnswerStep, OneMoves
    <2>4. CASE Go(r, "reread")
      <3>1. Same(req'[r], req[r]) /\ req'[r].pc = "reread" /\ Others(r)
        BY <1>a, <2>2, <2>4, GoStep
      <3>2. "disabled" \notin req[r].late
        BY <1>10, <2>2 DEF Succeed, Handles, At, Inv, ReqInv, ReqOK
      <3>4. ReqNext(req'[r])
        BY <1>a, <2>2, <3>1, <3>2, ReqMoves
      <3>5. QED
        BY <1>a, <2>1, <3>1, <3>4, OneMoves
    <2>5. QED
      BY <1>10, <2>3, <2>4 DEF Succeed
  <1>11. ASSUME NEW r \in Reqs, Reread(r)
        PROVE  FlightNext
    <2>1. Calm
      BY <1>11, <1>b DEF Reread
    <2>2. req'[r] = Nil /\ Others(r)
      BY <1>11, <1>a, AnswerStep DEF Reread
    <2>3. QED
      BY <1>a, <2>1, <2>2, OneMoves
  <1>12. ASSUME NEW r \in Reqs, Fail(r)
        PROVE  FlightNext
    <2>1. Calm
      BY <1>12, <1>b DEF Fail
    <2>2. req'[r] = Nil /\ Others(r)
      BY <1>12, <1>a, AnswerStep DEF Fail
    <2>3. QED
      BY <1>a, <2>1, <2>2, OneMoves
  <1>13. CASE Flush
    <2>1. Calm /\ disk'.tokens = tokens /\ disk'.users = users
          /\ UNCHANGED <<users, tokens, owner, dead, barred>>
      BY <1>13 DEF Flush, Calm, Memory
    <2>2. ASSUME NEW x \in Reqs, req'[x] # Nil
          PROVE  ReqNext(req'[x])
      <3>1. CASE req'[x] = req[x]
        BY <1>a, <2>1, <2>2, <3>1, ReqStays
      <3>2. CASE At(x, "wait") /\ Same(req'[x], req[x]) /\ req'[x].pc = "done"
        <4>1. ReqOK(req[x]) /\ req[x].pc = "wait"
          BY <3>2 DEF At, Inv, ReqInv
        <4>2. QED
          BY <2>1, <3>2, <4>1 DEF ReqOK, ReqNext, Same, Revokes, Disables
      <3>3. QED
        BY <1>13, <1>a, <3>1, <3>2, WokenStep DEF Flush
    <2>3. QED
      BY <2>2 DEF FlightNext
  <1>14. CASE Break
    <2>1. Calm /\ req' = req
      BY <1>14 DEF Break, Calm
    <2>2. QED
      BY <1>a, <2>1, ReqStays DEF FlightNext
  <1>15. CASE Crash
    BY <1>15 DEF Crash, FlightNext
  <1>16. CASE Restart
    <2>1. Calm /\ req' = req
      BY <1>16 DEF Restart, Calm
    <2>2. QED
      BY <1>a, <2>1, ReqStays DEF FlightNext
  <1>17. CASE Clock
    <2>1. Calm /\ req' = req
      BY <1>17 DEF Clock, Calm
    <2>2. QED
      BY <1>a, <2>1, ReqStays DEF FlightNext
  <1>18. CASE UNCHANGED vars
    <2>1. Calm /\ req' = req
      BY <1>18 DEF vars, Calm
    <2>2. QED
      BY <1>a, <2>1, ReqStays DEF FlightNext
  <1>19. QED
    BY <1>1, <1>2, <1>3, <1>4, <1>5, <1>6, <1>7, <1>8, <1>9, <1>10, <1>11, <1>12,
       <1>13, <1>14, <1>15, <1>16, <1>17, <1>18 DEF Next, Step

-----------------------------------------------------------------------------
(* The theorems *)

Bounds ==
  /\ now \in Times
  /\ used \in [req : 0..MaxReqs, stop : 0..MaxStops, back : 0..MaxBack]

\* The clock and the bounds keep their ranges.
LEMMA BoundsStep == Bounds /\ [Next]_vars => Bounds'
  <1> SUFFICES ASSUME Bounds, [Next]_vars
               PROVE  Bounds'
    OBVIOUS
  <1> USE DEF Bounds, Times, dbVars, ghosts
  <1>1. ASSUME NEW r \in Reqs, Step(r)
        PROVE  Bounds'
    <2>1. CASE \E o \in Ops, t \in Tokens : Begin(r, o, t)
      BY <2>1 DEF Begin
    <2>2. CASE UNCHANGED <<now, used>>
      BY <2>2
    <2>3. QED
      BY <1>1, <2>1, <2>2 DEF Step, ReadToken, ReadUser, HandleData, HandleUserCreate,
            HandleUserUpdate, HandleTokenCreate, IssueToken, HandleTokenRevoke,
            Succeed, Reread, Fail
  <1>2. CASE Flush \/ Restart
    BY <1>2 DEF Flush, Restart
  <1>3. CASE Break
    BY <1>3 DEF Break
  <1>4. CASE Crash
    BY <1>4 DEF Crash
  <1>5. CASE Clock
    BY <1>5 DEF Clock
  <1>6. CASE UNCHANGED vars
    BY <1>6 DEF vars
  <1>7. QED
    BY <1>1, <1>2, <1>3, <1>4, <1>5, <1>6 DEF Next

\* The first state: two users with a token each, and nobody asks for anything.
LEMMA InitInv == Init => Inv
  <1> SUFFICES ASSUME Init
               PROVE  Inv
    OBVIOUS
  <1>1. 0 \in Times /\ "admin" \in Roles /\ "writer" \in Roles
    BY DEF Times, Roles
  <1>2. PICK n \in Names :
          users = [u \in Users |-> CASE u = Root -> NewUser(n, "admin", 0)
                                     [] u = Clerk -> NewUser(n, "writer", 0)
                                     [] OTHER -> Nil]
    BY DEF Init
  <1>3. /\ NewUser(n, "admin", 0) \in UserRecords
        /\ NewUser(n, "writer", 0) \in UserRecords
    BY <1>1, NewRecords
  <1>4. users \in UserTables
    BY <1>2, <1>3 DEF UserTables
  <1>5. owner \in [Tokens -> Users \cup {Nil}]
    BY DEF Init
  <1>6. ASSUME NEW t \in Tokens
        PROVE  /\ tokens[t] = Nil \/ tokens[t] \in TokenRecords
               /\ tokens[t] # Nil => owner[t] = tokens[t].user
    <2>1. CASE owner[t] = Nil
      BY <2>1 DEF Init
    <2>2. CASE owner[t] # Nil
      <3>1. PICK k : k = NewToken(owner[t], "other", 0, Nil)
        OBVIOUS
      <3>2. k \in TokenRecords
        BY <1>1, <1>5, <2>2, <3>1, NewRecords
      <3>3. k.user = owner[t]
        BY <3>1 DEF NewToken
      <3>4. tokens[t] = k
        BY <2>2, <3>1 DEF Init
      <3>5. QED
        BY <3>2, <3>3, <3>4
    <2>3. QED
      BY <2>1, <2>2
  <1>7. tokens = [t \in Tokens |-> tokens[t]]
    BY DEF Init
  <1>8. tokens \in TokenTables
    BY <1>6, <1>7 DEF TokenTables
  <1>9. disk = [users |-> users, tokens |-> tokens]
    BY DEF Init, Memory
  <1>10. StoreOK
    BY <1>4, <1>8, <1>9 DEF StoreOK
  <1>11. Flags
    BY Zenon DEF Init, Flags
  <1>12. Flight /\ \A r \in Reqs : req[r] = Nil
    BY DEF Init, Flight
  <1>13. Bounds /\ dead = {} /\ barred = {}
    BY <1>1 DEF Init, Bounds
  <1>14. TypeOK
    BY <1>5, <1>10, <1>11, <1>12, <1>13 DEF TypeOK, StoreOK, Flags, Flight, Bounds
  <1>15. OwnerInv
    BY <1>6, <1>9 DEF OwnerInv
  <1>16. QED
    BY <1>12, <1>13, <1>14, <1>15 DEF Inv, DeadInv, BarredInv, ReqInv

\* Every step keeps the invariant.
LEMMA InvStep == Inv /\ [Next]_vars => Inv'
  <1> SUFFICES ASSUME Inv, [Next]_vars
               PROVE  Inv'
    OBVIOUS
  <1>1. StoreOK' /\ Flags' /\ Flight' /\ OwnerNext /\ DeadNext /\ BarredNext /\ FlightNext
    BY StoreTypes, FlagTypes, FlightStep, OwnerStep, DeadStep, BarredStep, ReqStep
  <1>2. Bounds'
    BY BoundsStep DEF Inv, TypeOK, Bounds
  <1>3. ReqInv'
    BY <1>1 DEF ReqInv, ReqOK, FlightNext, ReqNext
  <1>4. TypeOK'
    BY <1>1, <1>2, <1>3 DEF TypeOK, StoreOK, Flags, Flight, OwnerNext, DeadNext,
                            BarredNext, Bounds, ReqInv, ReqOK
  <1>5. OwnerInv' /\ DeadInv' /\ BarredInv'
    BY <1>1 DEF OwnerNext, DeadNext, BarredNext, OwnerInv, DeadInv, BarredInv
  <1>6. QED
    BY <1>3, <1>4, <1>5 DEF Inv

\* What the requests in flight and the store owe each other holds in every
\* state.
THEOREM InvHolds == Spec => []Inv
  BY InitInv, InvStep, PTL DEF Spec

\* The tables, the clock and the requests keep their shape, and a request
\* that is past authenticate's first read knows whose token it came with.
THEOREM TypeCorrect == Spec => []TypeOK
  <1>1. Inv => TypeOK
    BY DEF Inv
  <1>2. QED
    BY <1>1, InvHolds, PTL

\* A request that arrives after the revocation of its token was answered never
\* gets past authenticate, for any number of users, tokens and requests.
THEOREM RevokedStaysOutHolds == Spec => []RevokedStaysOut
  <1>1. Inv => RevokedStaysOut
    BY DEF Inv, ReqInv, ReqOK, RevokedStaysOut, Admitted
  <1>2. QED
    BY <1>1, InvHolds, PTL

\* A request that arrives after the disabling of its user was answered never
\* gets past authenticate, until the user is enabled.
THEOREM DisabledStaysOutHolds == Spec => []DisabledStaysOut
  <1>1. Inv => DisabledStaysOut
    BY DEF Inv, ReqInv, ReqOK, DisabledStaysOut, Admitted
  <1>2. QED
    BY <1>1, InvHolds, PTL

-----------------------------------------------------------------------------
(* Stored credentials *)

\* CredInv after a step.
CredNext ==
  /\ UsersOK(users', now') /\ UsersOK(disk'.users, now')
  /\ TokensOK(users', tokens') /\ TokensOK(disk'.users, disk'.tokens)
  /\ \A x \in Reqs : req'[x] # Nil /\ req'[x].pc = "issue" =>
       users'[req'[x].op.user] # Nil

\* A request moves and the store stays.
LEMMA CredMoves ==
  ASSUME Inv, CredInv, NEW r \in Reqs, UNCHANGED <<now, users, tokens, disk>>, Others(r),
         req'[r] # Nil /\ req'[r].pc = "issue" => users[req'[r].op.user] # Nil
  PROVE  CredNext
  BY DEF CredNext, CredInv, IssueInv, At, Others

\* A step of request r keeps the credentials valid.
LEMMA CredRequest ==
  ASSUME Inv, CredInv, NEW r \in Reqs, Step(r)
  PROVE  CredNext
  <1> USE DEF dbVars, ghosts
  <1>a. Flight /\ now \in Times /\ users \in UserTables /\ tokens \in TokenTables
    BY DEF Inv, TypeOK, Flight
  <1>b. Times \subseteq Nat
    BY DEF Times
  <1>1. CASE \E o \in Ops, t \in Tokens : Begin(r, o, t)
    <2>1. PICK o \in Ops, t \in Tokens : Begin(r, o, t)
      BY <1>1
    <2>2. Others(r) /\ req'[r].pc = "token"
      BY <1>a, <2>1, ArriveStep
    <2>3. UNCHANGED <<now, users, tokens, disk>>
      BY <2>1 DEF Begin
    <2>4. QED
      BY <2>2, <2>3, CredMoves
  <1>2. CASE ReadToken(r)
    <2>1. UNCHANGED <<now, users, tokens, disk>>
      BY <1>2 DEF ReadToken
    <2>2. CASE Active(tokens[req[r].tok], now)
      BY <1>2, <2>1, <2>2, ReadTokenStep, CredMoves
    <2>3. CASE ~Active(tokens[req[r].tok], now)
      <3>1. Answer(r)
        BY <1>2, <2>3 DEF ReadToken
      <3>2. QED
        BY <1>a, <2>1, <3>1, AnswerStep, CredMoves
    <2>4. QED
      BY <2>2, <2>3
  <1>3. CASE UNCHANGED <<now, users, tokens, disk>> /\ Answer(r)
    BY <1>a, <1>3, AnswerStep, CredMoves
  <1>4. CASE ReadUser(r)
    <2>1. UNCHANGED <<now, users, tokens, disk>> /\ req[r] # Nil /\ (Answer(r) \/ Go(r, "handle"))
      BY <1>4 DEF ReadUser, At
    <2>2. CASE Go(r, "handle")
      BY <1>a, <2>1, <2>2, GoStep, CredMoves
    <2>3. QED
      BY <1>3, <2>1, <2>2
  <1>5. CASE HandleUserCreate(r)
    <2>1. req[r] # Nil /\ Go(r, "wait") /\ UNCHANGED <<now, tokens, disk>>
      BY <1>5 DEF HandleUserCreate, Handles, At
    <2>2. req[r] \in Requests /\ req[r].op.role \in Roles
      BY <1>5, InFlight, RequestFields, OpTypes DEF HandleUserCreate, Handles, At, Inv
    <2>3. PICK u \in Users, n \in Names :
            users' = [users EXCEPT ![u] = NewUser(n, req[r].op.role, now)]
      BY <1>5 DEF HandleUserCreate, FreshUsers
    <2>4. PICK k : k = NewUser(n, req[r].op.role, now)
      OBVIOUS
    <2>5. k \in UserRecords /\ k # Nil
      <3>1. k \in UserRecords
        BY <1>a, <2>2, <2>4, NewRecords
      <3>2. QED
        BY <3>1
    <2>6. k.created <= now /\ validateUserRecord(k)
      BY <1>a, <1>b, <2>4 DEF NewUser, validateUserRecord
    <2>7. \A v \in Users : users'[v] = IF v = u THEN k ELSE users[v]
      BY <1>a, <2>3, <2>4 DEF UserTables
    <2>8. UsersOK(users', now')
      BY <2>1, <2>6, <2>7 DEF CredInv, UsersOK
    <2>9. \A v \in Users : users[v] # Nil => users'[v] # Nil
      BY <2>5, <2>7
    <2>10. TokensOK(users', tokens')
      BY <1>a, <2>1, <2>9 DEF CredInv, TokensOK, TokenTables, TokenRecords
    <2>11. Others(r) /\ req'[r].pc = "wait"
      BY <1>a, <2>1, GoStep
    <2>12. ASSUME NEW x \in Reqs, req'[x] # Nil, req'[x].pc = "issue"
           PROVE  users'[req'[x].op.user] # Nil
      <3>1. x # r /\ req'[x] = req[x]
        BY <2>11, <2>12 DEF Others
      <3>2. req[x].op.user \in Users
        BY <2>12, <3>1, InFlight, RequestFields, OpTypes DEF Inv, ReqInv, ReqOK
      <3>3. users[req[x].op.user] # Nil
        BY <2>12, <3>1 DEF CredInv, IssueInv, At
      <3>4. QED
        BY <2>9, <3>1, <3>2, <3>3
    <2>13. QED
      BY <2>1, <2>8, <2>10, <2>12 DEF CredInv, CredNext
  <1>6. CASE HandleUserUpdate(r)
    <2>1. UNCHANGED <<now, tokens, disk>> /\ req[r] # Nil
      BY <1>6 DEF HandleUserUpdate, Handles, At
    <2>2. CASE Answer(r) /\ UNCHANGED <<users, barred>>
      BY <1>3, <2>1, <2>2
    <2>3. CASE ~(Answer(r) /\ UNCHANGED <<users, barred>>)
      <3> DEFINE o == req[r].op
      <3>1. /\ users[o.user] # Nil
            /\ users' = [users EXCEPT ![o.user] =
                 [users[o.user] EXCEPT !.role = IF o.role = Nil THEN @ ELSE o.role,
                           !.disabled = IF o.disabled = Nil THEN @ ELSE o.disabled,
                           !.updated = now]]
        BY <1>6, <2>3, ZenonT(40) DEF HandleUserUpdate
      <3>2. o \in Ops /\ o.kind = "update" /\ o.user \in Users
        BY <1>6, <2>1, InFlight, RequestFields, OpTypes DEF HandleUserUpdate,
           Handles, Inv
      <3>3. users[o.user] \in UserRecords
        BY <1>a, <3>1, <3>2 DEF UserTables
      <3>4. PICK k : k = [users[o.user] EXCEPT !.role = IF o.role = Nil THEN @ ELSE o.role,
                           !.disabled = IF o.disabled = Nil THEN @ ELSE o.disabled,
                           !.updated = now]
        OBVIOUS
      <3>5. k \in UserRecords
        BY <1>a, <3>2, <3>3, <3>4, UpdatedRecord
      <3>6. k.created = users[o.user].created /\ k.updated = now
        BY <3>3, <3>4 DEF UserRecords
      <3>7. k # Nil /\ k.created <= now /\ validateUserRecord(k)
        <4>1. k # Nil
          BY <3>5
        <4>2. k.created <= now
          BY <3>1, <3>2, <3>6 DEF CredInv, UsersOK
        <4>3. k.created \in Nat /\ now \in Nat
          BY <1>a, <1>b, <3>5 DEF UserRecords
        <4>4. QED
          BY <3>6, <4>1, <4>2, <4>3 DEF validateUserRecord
      <3>8. \A v \in Users : users'[v] = IF v = o.user THEN k ELSE users[v]
        BY <1>a, <3>1, <3>2, <3>4 DEF UserTables
      <3>9. UsersOK(users', now')
        BY <2>1, <3>7, <3>8 DEF CredInv, UsersOK
      <3>10. \A v \in Users : users[v] # Nil => users'[v] # Nil
        BY <3>7, <3>8
      <3>11. TokensOK(users', tokens')
        BY <1>a, <2>1, <3>10 DEF CredInv, TokensOK, TokenTables, TokenRecords
      <3>12. PICK e : e = Enables(o)
        OBVIOUS
      <3>13. PICK u : u = o.user
        OBVIOUS
      <3>14. /\ \A x \in Reqs : req[x] = Nil => req'[x] = Nil
             /\ req'[r].pc = "wait"
             /\ \A x \in Reqs \ {r} : req[x] # Nil =>
                  /\ Touched(req'[x], req[x], u, e) /\ req'[x].pc = req[x].pc
        BY <1>6, <2>3, <3>12, <3>13, UpdateStep
      <3>15. ASSUME NEW x \in Reqs, req'[x] # Nil, req'[x].pc = "issue"
             PROVE  users'[req'[x].op.user] # Nil
        <4>1. x # r /\ req[x] # Nil
          BY <3>14, <3>15
        <4>2. req[x].pc = "issue" /\ req'[x].op = req[x].op
          BY <3>14, <3>15, <4>1 DEF Touched
        <4>3. req[x].op.user \in Users
          BY <4>1, <4>2, InFlight, RequestFields, OpTypes DEF Inv, ReqInv, ReqOK
        <4>4. users[req[x].op.user] # Nil
          BY <4>1, <4>2 DEF CredInv, IssueInv, At
        <4>5. QED
          BY <3>10, <4>2, <4>3, <4>4
      <3>16. QED
        BY <2>1, <3>9, <3>11, <3>15 DEF CredInv, CredNext
    <2>4. QED
      BY <2>2, <2>3
  <1>7. CASE HandleTokenCreate(r)
    <2>1. UNCHANGED <<now, users, tokens, disk>> /\ req[r] # Nil
      BY <1>7 DEF HandleTokenCreate, Handles, At
    <2>2. CASE Enabled(users[req[r].op.user])
      <3>1. Go(r, "issue")
        BY <1>7, <2>2 DEF HandleTokenCreate
      <3>2. Same(req'[r], req[r]) /\ Others(r)
        BY <1>a, <2>1, <3>1, GoStep
      <3>3. users[req'[r].op.user] # Nil
        BY <2>2, <3>2 DEF Enabled, Same
      <3>4. QED
        BY <2>1, <3>2, <3>3, CredMoves
    <2>3. CASE ~Enabled(users[req[r].op.user])
      BY <1>3, <1>7, <2>1, <2>3 DEF HandleTokenCreate
    <2>4. QED
      BY <2>2, <2>3
  <1>8. CASE IssueToken(r)
    <2>1. UNCHANGED <<now, users, disk>> /\ req[r] # Nil /\ req[r].pc = "issue"
      BY <1>8 DEF IssueToken, At
    <2>2. CASE Answer(r) /\ UNCHANGED tokens
      BY <1>3, <2>1, <2>2
    <2>3. CASE ~(Answer(r) /\ UNCHANGED tokens)
      <3> DEFINE o == req[r].op
      <3>1. o.expires # Nil => o.expires > now
        BY <1>8, <2>3 DEF IssueToken
      <3>2. PICK t \in Tokens :
              tokens' = [tokens EXCEPT ![t] = NewToken(o.user, "other", now, o.expires)]
        BY <1>8, <2>3 DEF IssueToken, FreshTokens
      <3>3. Go(r, "wait")
        BY <1>8, <2>3 DEF IssueToken
      <3>4. PICK k : k = NewToken(o.user, "other", now, o.expires)
        OBVIOUS
      <3>5. validateTokenRecord(k) /\ k.user = o.user
        BY <3>1, <3>4 DEF NewToken, validateTokenRecord
      <3>6. users[o.user] # Nil
        BY <2>1 DEF CredInv, IssueInv, At
      <3>7. \A v \in Tokens : tokens'[v] = IF v = t THEN k ELSE tokens[v]
        BY <1>a, <3>2, <3>4 DEF TokenTables
      <3>8. TokensOK(users', tokens')
        BY <2>1, <3>5, <3>6, <3>7 DEF CredInv, TokensOK
      <3>9. Others(r) /\ req'[r].pc = "wait"
        BY <1>a, <2>1, <3>3, GoStep
      <3>10. QED
        BY <2>1, <3>8, <3>9 DEF CredInv, CredNext, Others, IssueInv, At
    <2>4. QED
      BY <2>2, <2>3
  <1>9. CASE HandleTokenRevoke(r)
    <2>1. UNCHANGED <<now, users, disk>> /\ req[r] # Nil /\ Go(r, "wait")
      BY <1>9 DEF HandleTokenRevoke, Handles, At
    <2>2. \A t \in Tokens : tokens'[t] # Nil => tokens'[t] = tokens[t]
      BY <1>9, <1>a DEF HandleTokenRevoke, TokenTables
    <2>3. TokensOK(users', tokens')
      BY <2>1, <2>2 DEF CredInv, TokensOK
    <2>4. Others(r) /\ req'[r].pc = "wait"
      BY <1>a, <2>1, GoStep
    <2>5. QED
      BY <2>1, <2>3, <2>4 DEF CredInv, CredNext, Others, IssueInv, At
  <1>10. CASE Succeed(r)
    <2>1. /\ UNCHANGED <<now, users, tokens, disk>> /\ req[r] # Nil
          /\ Answer(r) \/ Go(r, "reread")
      BY <1>10 DEF Succeed, At
    <2>2. CASE Go(r, "reread")
      BY <1>a, <2>1, <2>2, GoStep, CredMoves
    <2>3. QED
      BY <1>3, <2>1, <2>2
  <1>11. CASE HandleData(r) \/ Reread(r) \/ Fail(r)
    <2>1. UNCHANGED <<now, users, tokens, disk>> /\ Answer(r)
      BY <1>11 DEF HandleData, Reread, Fail
    <2>2. QED
      BY <1>3, <2>1
  <1>12. QED
    BY <1>1, <1>2, <1>4, <1>5, <1>6, <1>7, <1>8, <1>9, <1>10, <1>11 DEF Step

\* So does every other step, unless it sets the clock back.
LEMMA CredStep ==
  ASSUME MaxBack = 0
  PROVE  Inv /\ CredInv /\ [Next]_vars => CredInv'
  <1> SUFFICES ASSUME Inv, CredInv, [Next]_vars
               PROVE  CredInv'
    OBVIOUS
  <1> USE DEF dbVars, ghosts
  <1>a. Flight /\ now \in Times /\ users \in UserTables /\ disk.users \in UserTables
    BY DEF Inv, TypeOK, Flight
  <1>b. Times \subseteq Nat
    BY DEF Times
  <1>c. CredNext => CredInv'
    BY DEF CredNext, CredInv, IssueInv, At
  <1>1. ASSUME NEW r \in Reqs, Step(r)
        PROVE  CredNext
    BY <1>1, CredRequest
  <1>2. CASE Flush
    <2>1. disk' = [users |-> users, tokens |-> tokens] /\ UNCHANGED <<now, users, tokens>>
      BY <1>2 DEF Flush, Memory
    <2>2. \A x \in Reqs : req'[x] # Nil /\ req'[x].pc = "issue" => req'[x] = req[x]
      BY <1>2, <1>a, WokenStep DEF Flush
    <2>3. QED
      BY <2>1, <2>2 DEF CredInv, CredNext, IssueInv, At
  <1>3. CASE Break
    <2>1. /\ disk' = disk \/ disk' = [users |-> users, tokens |-> tokens]
          /\ UNCHANGED <<now, users, tokens, req>>
      BY <1>3 DEF Break, Memory
    <2>2. QED
      BY <2>1 DEF CredInv, CredNext, IssueInv, At
  <1>4. CASE Crash
    <2>1. users' = disk.users /\ tokens' = disk.tokens /\ UNCHANGED <<now, disk>>
      BY <1>4 DEF Crash
    <2>2. \A x \in Reqs : req'[x] = Nil
      BY <1>4 DEF Crash
    <2>3. QED
      BY <1>c, <2>1, <2>2 DEF CredInv, CredNext
  <1>5. CASE Restart
    BY <1>5 DEF Restart, CredInv, CredNext, IssueInv, At
  <1>6. CASE Clock
    <2>1. now' = now + 1 /\ UNCHANGED <<users, tokens, disk, req>>
      <3>1. used.back \in 0..0
        BY DEF Inv, TypeOK
      <3>2. QED
        BY <1>6, <3>1 DEF Clock
    <2>2. ASSUME NEW table \in UserTables, UsersOK(table, now)
          PROVE  UsersOK(table, now')
      <3>1. ASSUME NEW u \in Users, table[u] # Nil
            PROVE  table[u].created <= now' /\ validateUserRecord(table[u])
        <4>1. table[u] \in UserRecords
          BY <3>1 DEF UserTables
        <4>2. table[u].created \in Nat /\ now \in Nat
          BY <1>a, <1>b, <4>1 DEF UserRecords
        <4>3. table[u].created <= now /\ validateUserRecord(table[u])
          BY <2>2, <3>1 DEF UsersOK
        <4>4. QED
          BY <2>1, <4>2, <4>3
      <3>2. QED
        BY <3>1 DEF UsersOK
    <2>3. QED
      BY <1>a, <2>1, <2>2 DEF CredInv, CredNext, IssueInv, At
  <1>7. CASE UNCHANGED vars
    BY <1>7 DEF vars, CredInv, CredNext, IssueInv, At
  <1>8. QED
    BY <1>c, <1>1, <1>2, <1>3, <1>4, <1>5, <1>6, <1>7 DEF Next

\* The first users and tokens are valid.
LEMMA InitCred == Init => CredInv
  <1> SUFFICES ASSUME Init
               PROVE  CredInv
    OBVIOUS
  <1>1. \A u \in Users : users[u] # Nil => \E n \in Names, k \in {"admin", "writer"} :
          users[u] = NewUser(n, k, 0)
    BY DEF Init
  <1>2. UsersOK(users, now)
    BY <1>1 DEF UsersOK, NewUser, validateUserRecord, Init
  <1>3. users[Root] # Nil /\ users[Clerk] # Nil
    <2>1. PICK n \in Names :
            users = [u \in Users |-> CASE u = Root -> NewUser(n, "admin", 0)
                                       [] u = Clerk -> NewUser(n, "writer", 0)
                                       [] OTHER -> Nil]
      BY DEF Init
    <2>2. /\ NewUser(n, "admin", 0) \in UserRecords
          /\ NewUser(n, "writer", 0) \in UserRecords
      BY NewRecords DEF Times, Roles
    <2>3. QED
      BY <2>1, <2>2
  <1>4. \A t \in Tokens : tokens[t] # Nil =>
          /\ tokens[t] = NewToken(owner[t], "other", 0, Nil)
          /\ owner[t] \in {Root, Clerk}
    BY DEF Init
  <1>5. TokensOK(users, tokens)
    <2>1. ASSUME NEW t \in Tokens, tokens[t] # Nil
          PROVE  validateTokenRecord(tokens[t]) /\ users[tokens[t].user] # Nil
      <3>1. tokens[t].expires = Nil /\ tokens[t].user = owner[t]
        <4>1. PICK k : k = NewToken(owner[t], "other", 0, Nil)
          OBVIOUS
        <4>2. k.expires = Nil /\ k.user = owner[t]
          BY <4>1 DEF NewToken
        <4>3. QED
          BY <1>4, <2>1, <4>1, <4>2
      <3>2. QED
        BY <1>3, <1>4, <2>1, <3>1 DEF validateTokenRecord
    <2>2. QED
      BY <2>1 DEF TokensOK
  <1>6. disk.users = users /\ disk.tokens = tokens
    BY DEF Init, Memory
  <1>7. IssueInv
    BY DEF Init, IssueInv, At
  <1>8. QED
    BY <1>2, <1>5, <1>6, <1>7 DEF CredInv

\* As long as the wall clock is never set back, what the handlers store is
\* what authenticate accepts, in memory and after a restart.  (When it is set
\* back, a record may be older than its user: the run AuthClock.)
THEOREM CredentialsAcceptedHolds ==
  ASSUME MaxBack = 0
  PROVE  Spec => []CredentialsAccepted
  <1>1. Init => Inv /\ CredInv
    BY InitInv, InitCred
  <1>2. Inv /\ CredInv /\ [Next]_vars => (Inv /\ CredInv)'
    BY InvStep, CredStep
  <1>3. Inv /\ CredInv => CredentialsAccepted
    <2> SUFFICES ASSUME Inv, CredInv, NEW db \in {Memory, disk}, NEW t \in Tokens,
                        db.tokens[t] # Nil,
                        db.tokens[t].expires = Nil \/ now < db.tokens[t].expires
                 PROVE  LET user == db.users[db.tokens[t].user] IN
                        /\ user # Nil
                        /\ ~user.disabled => Active(db.tokens[t], now) /\ Enabled(user)
      BY DEF CredentialsAccepted
    <2>1. Memory.users = users /\ Memory.tokens = tokens
      BY DEF Memory
    <2>2. /\ UsersOK(db.users, now) /\ TokensOK(db.users, db.tokens)
          /\ db.tokens \in TokenTables
      BY <2>1 DEF CredInv, Inv, TypeOK
    <2>3. db.tokens[t] \in TokenRecords
      BY <2>2 DEF TokenTables
    <2>4. db.tokens[t].user \in Users
      BY <2>3 DEF TokenRecords
    <2>5. validateTokenRecord(db.tokens[t]) /\ db.users[db.tokens[t].user] # Nil
      BY <2>2 DEF TokensOK
    <2>6. validateUserRecord(db.users[db.tokens[t].user])
      BY <2>2, <2>4, <2>5 DEF UsersOK
    <2>7. QED
      BY <2>5, <2>6 DEF Active, Enabled
  <1>4. QED
    BY <1>1, <1>2, <1>3, PTL DEF Spec

-----------------------------------------------------------------------------
(* Tokens are for enabled users *)

\* Nothing can disable a user between handleTokenCreate's look at it and the
\* token: there is one request at a time, or no request disables anybody and
\* no clock set back makes a record malformed.
Unraced ==
  \/ \A q, r \in Reqs : q = r
  \/ /\ MaxBack = 0
     /\ \A o \in Ops : o.kind = "update" => o.disabled # TRUE

\* A request that is about to issue a token has its user enabled.
EnabledInv ==
  \A r \in Reqs : At(r, "issue") => Enabled(users[req[r].op.user])

\* The same after a step.
EnabledNext ==
  \A x \in Reqs : req'[x] # Nil /\ req'[x].pc = "issue" =>
    Enabled(users'[req'[x].op.user])

\* A request moves and the users stay.
LEMMA EnabledMoves ==
  ASSUME EnabledInv, NEW r \in Reqs, UNCHANGED users, Others(r),
         req'[r] # Nil /\ req'[r].pc = "issue" => Enabled(users[req'[r].op.user])
  PROVE  EnabledNext
  BY DEF EnabledNext, EnabledInv, At, Others

\* A user is changed: the request that is about to issue a token is another
\* one, and its user is not disabled.
LEMMA EnabledUpdate ==
  ASSUME Inv, Unraced, MaxBack = 0 => CredInv, EnabledInv,
         NEW r \in Reqs, HandleUserUpdate(r)
  PROVE  EnabledNext
  <1>a. Flight /\ now \in Times /\ users \in UserTables
    BY DEF Inv, TypeOK, Flight
  <1>1. req[r] # Nil
    BY DEF HandleUserUpdate, Handles, At
  <1>2. CASE Answer(r) /\ UNCHANGED <<users, barred>>
    BY <1>a, <1>2, AnswerStep, EnabledMoves
  <1>3. CASE ~(Answer(r) /\ UNCHANGED <<users, barred>>)
    <2> DEFINE o == req[r].op
    <2>1. PICK e : e = Enables(o)
      OBVIOUS
    <2>2. PICK u : u = o.user
      OBVIOUS
    <2>3. /\ \A x \in Reqs : req[x] = Nil => req'[x] = Nil
          /\ req'[r].pc = "wait"
          /\ \A x \in Reqs \ {r} : req[x] # Nil =>
               /\ Touched(req'[x], req[x], u, e) /\ req'[x].pc = req[x].pc
      BY <1>3, <2>1, <2>2, UpdateStep
    <2>4. ASSUME NEW x \in Reqs, req'[x] # Nil, req'[x].pc = "issue"
          PROVE  Enabled(users'[req'[x].op.user])
      <3>1. x # r /\ req[x] # Nil
        BY <2>3, <2>4
      <3>2. req[x].pc = "issue" /\ req'[x].op = req[x].op
        BY <2>3, <2>4, <3>1 DEF Touched
      <3>3. req[x].op.user \in Users /\ Enabled(users[req[x].op.user])
        BY <3>1, <3>2, InFlight, RequestFields, OpTypes
           DEF Inv, ReqInv, ReqOK, EnabledInv, At
      <3>4. CredInv /\ \A p \in Ops : p.kind = "update" => p.disabled # TRUE
        BY <3>1 DEF Unraced
      <3>5. /\ users[o.user] # Nil
            /\ users' = [users EXCEPT ![o.user] =
                 [users[o.user] EXCEPT !.role = IF o.role = Nil THEN @ ELSE o.role,
                           !.disabled = IF o.disabled = Nil THEN @ ELSE o.disabled,
                           !.updated = now]]
        BY <1>3, ZenonT(40) DEF HandleUserUpdate
      <3>6. o \in Ops /\ o.kind = "update" /\ o.user \in Users
        BY <1>1, InFlight, RequestFields, OpTypes DEF HandleUserUpdate, Handles, Inv
      <3>7. users[o.user] \in UserRecords
        BY <1>a, <3>5, <3>6 DEF UserTables
      <3>8. PICK k : k = [users[o.user] EXCEPT
                           !.role = IF o.role = Nil THEN @ ELSE o.role,
                           !.disabled = IF o.disabled = Nil THEN @ ELSE o.disabled,
                           !.updated = now]
        OBVIOUS
      <3>9. k \in UserRecords
        BY <1>a, <3>6, <3>7, <3>8, UpdatedRecord
      <3>10. /\ k.created = users[o.user].created /\ k.updated = now
             /\ k.disabled = IF o.disabled = Nil THEN users[o.user].disabled
                             ELSE o.disabled
        BY <3>7, <3>8 DEF UserRecords
      <3>11. validateUserRecord(k)
        <4>1. k.created <= now
          BY <3>4, <3>5, <3>6, <3>10 DEF CredInv, UsersOK
        <4>2. k.created \in Int /\ now \in Int
          BY <1>a, <3>9 DEF UserRecords, Times
        <4>3. QED
          BY <3>10, <4>1, <4>2 DEF validateUserRecord
      <3>12. o.disabled \in {FALSE, Nil}
        BY <3>4, <3>6, OpTypes
      <3>13. ~users[o.user].disabled => ~k.disabled
        BY <3>10, <3>12
      <3>14. \A v \in Users : users'[v] = IF v = o.user THEN k ELSE users[v]
        BY <1>a, <3>5, <3>6, <3>8 DEF UserTables
      <3>15. k # Nil
        BY <3>9
      <3>16. QED
        BY <3>2, <3>3, <3>11, <3>13, <3>14, <3>15 DEF Enabled
    <2>5. QED
      BY <2>4 DEF EnabledNext
  <1>4. QED
    BY <1>2, <1>3

\* A step of request r.
LEMMA EnabledRequest ==
  ASSUME Inv, Unraced, MaxBack = 0 => CredInv, EnabledInv, NEW r \in Reqs, Step(r)
  PROVE  EnabledNext
  <1> USE DEF dbVars, ghosts
  <1>a. Flight /\ users \in UserTables
    BY DEF Inv, TypeOK, Flight
  <1>1. CASE \E o \in Ops, t \in Tokens : Begin(r, o, t)
    <2>1. PICK o \in Ops, t \in Tokens : Begin(r, o, t)
      BY <1>1
    <2>2. Others(r) /\ req'[r].pc = "token" /\ UNCHANGED users
      BY <1>a, <2>1, ArriveStep DEF Begin
    <2>3. QED
      BY <2>2, EnabledMoves
  <1>2. CASE UNCHANGED users /\ Answer(r)
    BY <1>a, <1>2, AnswerStep, EnabledMoves
  <1>3. CASE ReadToken(r)
    <2>1. UNCHANGED users
      BY <1>3 DEF ReadToken
    <2>2. CASE Active(tokens[req[r].tok], now)
      BY <1>3, <2>1, <2>2, ReadTokenStep, EnabledMoves
    <2>3. CASE ~Active(tokens[req[r].tok], now)
      BY <1>2, <1>3, <2>1, <2>3 DEF ReadToken
    <2>4. QED
      BY <2>2, <2>3
  <1>4. ASSUME UNCHANGED users, req[r] # Nil,
               NEW l \in {"handle", "wait", "reread"}, Go(r, l)
        PROVE  EnabledNext
    BY <1>a, <1>4, GoStep, EnabledMoves
  <1>5. CASE ReadUser(r)
    <2>1. UNCHANGED users /\ req[r] # Nil /\ (Answer(r) \/ Go(r, "handle"))
      BY <1>5 DEF ReadUser, At
    <2>2. QED
      BY <1>2, <1>4, <2>1
  <1>6. CASE HandleUserCreate(r)
    <2>1. req[r] # Nil /\ Go(r, "wait")
      BY <1>6 DEF HandleUserCreate, Handles, At
    <2>2. Others(r) /\ req'[r].pc = "wait"
      BY <1>a, <2>1, GoStep
    <2>3. PICK u \in Users, n \in Names :
            /\ users[u] = Nil
            /\ users' = [users EXCEPT ![u] = NewUser(n, req[r].op.role, now)]
      BY <1>6 DEF HandleUserCreate, FreshUsers
    <2>4. \A v \in Users : users[v] # Nil => users'[v] = users[v]
      BY <1>a, <2>3 DEF UserTables
    <2>5. ASSUME NEW x \in Reqs, req'[x] # Nil, req'[x].pc = "issue"
          PROVE  Enabled(users'[req'[x].op.user])
      <3>1. x # r /\ req'[x] = req[x]
        BY <2>2, <2>5 DEF Others
      <3>2. req[x].op.user \in Users /\ Enabled(users[req[x].op.user])
        BY <2>5, <3>1, InFlight, RequestFields, OpTypes
           DEF Inv, ReqInv, ReqOK, EnabledInv, At
      <3>3. QED
        BY <2>4, <3>1, <3>2 DEF Enabled
    <2>6. QED
      BY <2>5 DEF EnabledNext
  <1>7. CASE HandleUserUpdate(r)
    BY <1>7, EnabledUpdate
  <1>8. CASE HandleTokenCreate(r)
    <2>1. UNCHANGED users /\ req[r] # Nil
      BY <1>8 DEF HandleTokenCreate, Handles, At
    <2>2. CASE Enabled(users[req[r].op.user])
      <3>1. Go(r, "issue")
        BY <1>8, <2>2 DEF HandleTokenCreate
      <3>2. Same(req'[r], req[r]) /\ Others(r)
        BY <1>a, <2>1, <3>1, GoStep
      <3>3. req'[r].op = req[r].op
        BY <3>2 DEF Same
      <3>4. QED
        BY <2>1, <2>2, <3>2, <3>3, EnabledMoves
    <2>3. CASE ~Enabled(users[req[r].op.user])
      BY <1>2, <1>8, <2>1, <2>3 DEF HandleTokenCreate
    <2>4. QED
      BY <2>2, <2>3
  <1>9. CASE IssueToken(r)
    <2>1. UNCHANGED users /\ req[r] # Nil /\ (Answer(r) \/ Go(r, "wait"))
      BY <1>9 DEF IssueToken, At
    <2>2. QED
      BY <1>2, <1>4, <2>1
  <1>10. CASE HandleTokenRevoke(r)
    <2>1. UNCHANGED users /\ req[r] # Nil /\ Go(r, "wait")
      BY <1>10 DEF HandleTokenRevoke, Handles, At
    <2>2. QED
      BY <1>4, <2>1
  <1>11. CASE Succeed(r)
    <2>1. UNCHANGED users /\ req[r] # Nil /\ (Answer(r) \/ Go(r, "reread"))
      BY <1>11 DEF Succeed, At
    <2>2. QED
      BY <1>2, <1>4, <2>1
  <1>12. CASE HandleData(r) \/ Reread(r) \/ Fail(r)
    <2>1. UNCHANGED users /\ Answer(r)
      BY <1>12 DEF HandleData, Reread, Fail
    <2>2. QED
      BY <1>2, <2>1
  <1>13. QED
    BY <1>1, <1>3, <1>5, <1>6, <1>7, <1>8, <1>9, <1>10, <1>11, <1>12 DEF Step

\* Every step.
LEMMA EnabledStep ==
  ASSUME Unraced
  PROVE  Inv /\ (MaxBack = 0 => CredInv) /\ EnabledInv /\ [Next]_vars => EnabledInv'
  <1> SUFFICES ASSUME Inv, MaxBack = 0 => CredInv, EnabledInv, [Next]_vars
               PROVE  EnabledNext
    BY DEF EnabledNext, EnabledInv, At
  <1> USE DEF dbVars
  <1>a. Flight
    BY DEF Inv, TypeOK, Flight
  <1>1. ASSUME NEW r \in Reqs, Step(r)
        PROVE  EnabledNext
    BY <1>1, EnabledRequest
  <1>2. CASE Flush
    <2>1. \A x \in Reqs : req'[x] # Nil /\ req'[x].pc = "issue" => req'[x] = req[x]
      BY <1>2, <1>a, WokenStep DEF Flush
    <2>2. QED
      BY <1>2, <2>1 DEF Flush, EnabledNext, EnabledInv, At
  <1>3. CASE Crash
    BY <1>3 DEF Crash, EnabledNext
  <1>4. CASE Break \/ Restart \/ Clock \/ UNCHANGED vars
    <2>1. UNCHANGED <<users, req>>
      BY <1>4 DEF Break, Restart, Clock, vars
    <2>2. QED
      BY <2>1 DEF EnabledNext, EnabledInv, At
  <1>5. QED
    BY <1>1, <1>2, <1>3, <1>4 DEF Next

\* A step stores, while the server runs, a token for an enabled user only.
Granted ==
  \A t \in Tokens : up /\ up' /\ tokens[t] = Nil /\ tokens'[t] # Nil =>
    Enabled(users[tokens'[t].user])

\* Only IssueToken stores a token, and it stores one for its user.
LEMMA GrantedStep == Inv /\ EnabledInv /\ [Next]_vars => Granted
  <1> SUFFICES ASSUME Inv, EnabledInv, [Next]_vars, NEW t \in Tokens, up, up',
                      tokens[t] = Nil, tokens'[t] # Nil
               PROVE  Enabled(users[tokens'[t].user])
    BY DEF Granted
  <1> USE DEF dbVars
  <1>a. tokens \in TokenTables
    BY DEF Inv, TypeOK
  <1>1. tokens' # tokens
    OBVIOUS
  <1>2. ASSUME NEW r \in Reqs, HandleTokenRevoke(r)
        PROVE  FALSE
    BY <1>2, <1>a DEF HandleTokenRevoke, TokenTables
  <1>3. ASSUME NEW r \in Reqs, Step(r), ~IssueToken(r), ~HandleTokenRevoke(r)
        PROVE  FALSE
    BY <1>1, <1>3 DEF Step, Begin, ReadToken, ReadUser, HandleData, HandleUserCreate,
       HandleUserUpdate, HandleTokenCreate, Succeed, Reread, Fail
  <1>4. ~(Flush \/ Break \/ Crash \/ Restart \/ Clock \/ UNCHANGED vars)
    BY <1>1 DEF Flush, Break, Crash, Restart, Clock, vars
  <1>5. PICK r \in Reqs : IssueToken(r)
    BY <1>2, <1>3, <1>4 DEF Next
  <1>6. PICK k : k = NewToken(req[r].op.user, "other", now, req[r].op.expires)
    OBVIOUS
  <1>7. k.user = req[r].op.user
    BY <1>6 DEF NewToken
  <1>8. tokens'[t] = k
    <2>1. PICK v \in Tokens : tokens' = [tokens EXCEPT ![v] = k]
      BY <1>1, <1>5, <1>6 DEF IssueToken, FreshTokens
    <2>2. QED
      BY <1>a, <2>1 DEF TokenTables
  <1>9. Enabled(users[req[r].op.user])
    BY <1>5 DEF IssueToken, EnabledInv
  <1>10. QED
    BY <1>7, <1>8, <1>9

\* handleTokenCreate issues tokens to enabled users only, as long as there is
\* one request at a time, or nobody is disabled and the wall clock is not set
\* back.  (With two requests one disables the user between the other's look
\* and its token: the run AuthRace.)
THEOREM TokenForEnabledUnraced ==
  ASSUME Unraced
  PROVE  Spec => TokenForEnabled
  <1> DEFINE I == Inv /\ (MaxBack = 0 => CredInv) /\ EnabledInv
  <1>1. Init => I
    BY InitInv, InitCred DEF Init, EnabledInv, At
  <1>2. I /\ [Next]_vars => I'
    BY InvStep, CredStep, EnabledStep
  <1>3. I /\ [Next]_vars => [Granted]_vars
    BY GrantedStep
  <1>4. QED
    BY <1>1, <1>2, <1>3, PTL DEF Spec, TokenForEnabled, Granted
==============================================================================

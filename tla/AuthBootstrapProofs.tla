------------------------- MODULE AuthBootstrapProofs -------------------------
(***************************************************************************)
(* That initializeAuth and "medb auth recover" leave a store from which    *)
(* the server can go on, wherever they are stopped and whichever           *)
(* environments follow, for any number of users, tokens and stops.         *)
(*                                                                         *)
(* Both write the token, then the user, then the marker.  ProcInv says     *)
(* what is in the store at each step, HasAdmin that there is a credential  *)
(* which no passage of time takes away, and BootInv what an unfinished     *)
(* initialization has left: nothing, or its token and perhaps its user.    *)
(***************************************************************************)
EXTENDS AuthBootstrap, FiniteSetTheorems, TLAPS

Bare(table) == \A k \in DOMAIN table : table[k] = Nil
Only(table, k) == table[k] # Nil /\ \A j \in DOMAIN table : j # k => table[j] = Nil

\* An administrator's record, and the tokens that never expire.
Admin(user) == Enabled(user) /\ user.role = "admin"
Lasting(token, u) == token # Nil /\ token.user = u /\ token.expires = Nil
Initial(token, u) == Lasting(token, u) /\ token.label = "initial"

\* An administrator can log in, at any time of the clock.
HasAdmin == \E t \in Tokens, u \in Users : Lasting(tokens[t], u) /\ Admin(users[u])

\* The user that an initialization in environment e stores.
Accepted(user, e) == Admin(user) /\ user.name = e.name

\* What the store holds when the process is at each of its steps.
ProcInv ==
  /\ outcome = "running" <=> mode # "down"
  /\ mode \in {"serving", "rclose"} => state
  /\ mode \in {"token", "user", "marker"} => ~state /\ tid = env.token
  /\ mode = "token" => Bare(tokens) /\ Bare(users)
  /\ mode \in {"user", "marker"} => Only(tokens, tid) /\ Initial(tokens[tid], uid)
  /\ mode = "marker" => Only(users, uid) /\ Accepted(users[uid], env)
  /\ mode = "rtoken" => tokens[tid] = Nil
  /\ mode \in {"rtoken", "ruser"} => users[uid] = Nil
  /\ mode = "ruser" => Lasting(tokens[tid], uid)
  /\ mode \in {"marker", "rmarker", "rclose"} => HasAdmin
  /\ mode \in {"ruser", "rmarker", "rclose"} => boot = Nil

\* What an unfinished initialization has left.
BootInv ==
  ~state /\ boot # Nil =>
    /\ boot.token # Nil
    /\ \/ Bare(tokens) /\ Bare(users)
       \/ \E u \in Users :
            /\ Only(tokens, boot.token) /\ Initial(tokens[boot.token], u)
            /\ Bare(users) \/ (Only(users, u) /\ Accepted(users[u], boot))

\* With the marker there is an administrator, unless they have changed it; and
\* there is one when recover has said so.
MarkerInv == state /\ ~managed => HasAdmin
RecoverInv == recovered => state /\ HasAdmin /\ outcome \notin Refusals

\* The inductive invariant.
Inv == TypeOK /\ ProcInv /\ BootInv /\ MarkerInv /\ RecoverInv /\ NotRefused

USE RecordsAssumption, BootstrapAssumption

-----------------------------------------------------------------------------
(* Records and tables *)

\* Counting the records of a table.
LEMMA CountIs ==
  ASSUME NEW table, IsFiniteSet(DOMAIN table)
  PROVE  /\ Count(table) = 0 <=> Bare(table)
         /\ \A k \in DOMAIN table : Only(table, k) <=> table[k] # Nil /\ Count(table) = 1
  <1> DEFINE S == {k \in DOMAIN table : table[k] # Nil}
  <1>1. IsFiniteSet(S) /\ Count(table) = Cardinality(S)
    BY FS_Subset DEF Count
  <1>2. Cardinality(S) = 0 <=> S = {}
    BY <1>1, FS_EmptySet
  <1>3. ASSUME NEW k \in S
        PROVE  Cardinality(S) = 1 <=> \A j \in S : j = k
    <2>1. ASSUME Cardinality(S) = 1
          PROVE  \A j \in S : j = k
      <3>1. PICK x : S = {x}
        BY <1>1, <2>1, FS_Singleton
      <3>2. QED
        BY <3>1
    <2>2. ASSUME \A j \in S : j = k
          PROVE  Cardinality(S) = 1
      <3>1. S = {k}
        BY <2>2
      <3>2. QED
        BY <3>1, FS_Singleton
    <2>3. QED
      BY <2>1, <2>2
  <1>4. QED
    BY <1>1, <1>2, <1>3 DEF Bare, Only

\* The tables have the ids as their domains.
LEMMA Counts ==
  ASSUME TypeOK
  PROVE  /\ Count(users) = 0 <=> Bare(users)
         /\ Count(tokens) = 0 <=> Bare(tokens)
         /\ \A u \in Users : Only(users, u) <=> users[u] # Nil /\ Count(users) = 1
         /\ \A t \in Tokens : Only(tokens, t) <=> tokens[t] # Nil /\ Count(tokens) = 1
  <1>1. DOMAIN users = Users /\ DOMAIN tokens = Tokens
    BY DEF TypeOK, UserTables, TokenTables
  <1>2. QED
    BY <1>1, CountIs

\* The records that initialization and recovery make.
LEMMA NewRecords ==
  /\ \A n \in Names, t \in Times :
       /\ NewUser(n, "admin", t) \in UserRecords
       /\ Admin(NewUser(n, "admin", t)) /\ NewUser(n, "admin", t).name = n
  /\ \A u \in Users, l \in {"initial", "recovery", "other"}, t \in Times, e \in Times \cup {Nil} :
       NewToken(u, l, t, e) \in TokenRecords
  /\ \A u \in Users, t \in Times : Initial(NewToken(u, "initial", t, Nil), u)
  /\ \A u \in Users, t \in Times : Lasting(NewToken(u, "recovery", t, Nil), u)
  <1>1. ASSUME NEW n \in Names, NEW t \in Times
        PROVE  /\ NewUser(n, "admin", t) \in UserRecords
               /\ Admin(NewUser(n, "admin", t)) /\ NewUser(n, "admin", t).name = n
    <2>1. NewUser(n, "admin", t) \in UserRecords
      BY Zenon DEF NewUser, UserRecords, Roles
    <2>2. NewUser(n, "admin", t) # Nil
      BY <2>1
    <2>3. QED
      BY <2>1, <2>2 DEF Admin, Enabled, validateUserRecord, NewUser, Times
  <1>2. ASSUME NEW u \in Users, NEW l \in {"initial", "recovery", "other"},
               NEW t \in Times, NEW e \in Times \cup {Nil}
        PROVE  NewToken(u, l, t, e) \in TokenRecords /\ NewToken(u, l, t, e) # Nil
    BY DEF NewToken, TokenRecords
  <1>3. ASSUME NEW u \in Users, NEW t \in Times
        PROVE  /\ Initial(NewToken(u, "initial", t, Nil), u)
               /\ Lasting(NewToken(u, "recovery", t, Nil), u)
    BY <1>2 DEF Initial, Lasting, NewToken
  <1>4. QED
    BY <1>1, <1>2, <1>3

\* A record can be stored.
LEMMA TableTypes ==
  /\ \A f \in UserTables, u \in Users, r \in UserRecords \cup {Nil} :
       [f EXCEPT ![u] = r] \in UserTables
  /\ \A f \in TokenTables, t \in Tokens, r \in TokenRecords \cup {Nil} :
       [f EXCEPT ![t] = r] \in TokenTables
  BY DEF UserTables, TokenTables

\* hasActiveAdmin finds whom authenticate accepts.
LEMMA SameChecks == TypeOK => (hasActiveAdmin(users, tokens, now) <=> AdminCanLogIn)
  BY DEF hasActiveAdmin, AdminCanLogIn, Active, Enabled

\* A lasting credential of an administrator is an active one.
LEMMA AdminActive ==
  ASSUME TypeOK, HasAdmin
  PROVE  hasActiveAdmin(users, tokens, now) /\ AdminCanLogIn
  <1>1. AdminCanLogIn
    BY DEF HasAdmin, Lasting, Admin, AdminCanLogIn, Active, validateTokenRecord
  <1>2. QED
    BY <1>1, SameChecks

\* Storing a record where there was none takes no administrator away.
LEMMA AdminStays ==
  ASSUME TypeOK, HasAdmin,
         \/ UNCHANGED <<users, tokens>>
         \/ /\ \E r : \E t \in Tokens : tokens[t] = Nil /\ tokens' = [tokens EXCEPT ![t] = r]
            /\ users' = users
         \/ /\ \E r : \E u \in Users : users[u] = Nil /\ users' = [users EXCEPT ![u] = r]
            /\ tokens' = tokens
  PROVE  HasAdmin'
  <1>1. PICK t \in Tokens, u \in Users : Lasting(tokens[t], u) /\ Admin(users[u])
    BY DEF HasAdmin
  <1>2. tokens[t] # Nil /\ users[u] # Nil
    BY <1>1 DEF Lasting, Admin, Enabled
  <1>3. tokens'[t] = tokens[t] /\ users'[u] = users[u]
    BY <1>2 DEF TypeOK, UserTables, TokenTables
  <1>4. QED
    BY <1>1, <1>3 DEF HasAdmin

-----------------------------------------------------------------------------
(* The invariant is inductive *)

\* The tables keep their shape.
LEMMA StoreTypes == Inv /\ [Next]_vars => users' \in UserTables /\ tokens' \in TokenTables
  <1> SUFFICES ASSUME Inv, [Next]_vars
               PROVE  users' \in UserTables /\ tokens' \in TokenTables
    OBVIOUS
  <1> USE DEF Inv, TypeOK, storeVars
  <1>1. ASSUME NEW e \in Envs, Start(e)
        PROVE  users' \in UserTables /\ tokens' \in TokenTables
    BY <1>1 DEF Start
  <1>2. CASE CheckInitialized
    BY <1>2 DEF CheckInitialized, Exit
  <1>3. CASE CheckRefuses
    BY <1>3 DEF CheckRefuses, Exit
  <1>4. CASE CheckEmpty
    BY <1>4 DEF CheckEmpty
  <1>5. CASE CheckResumes
    BY <1>5 DEF CheckResumes
  <1>6. CASE InitToken
    <2>1. NewToken(uid, "initial", now, Nil) \in TokenRecords
      BY <1>6, NewRecords DEF InitToken
    <2>2. QED
      BY <1>6, <2>1, TableTypes DEF InitToken, SetToken
  <1>7. CASE InitUser
    <2>1. uid \in Users /\ NewUser(env.name, "admin", now) \in UserRecords
      BY <1>7, NewRecords DEF InitUser, Envs
    <2>2. QED
      BY <1>7, <2>1, TableTypes DEF InitUser, SetUser
  <1>8. CASE InitMarker
    BY <1>8 DEF InitMarker, SetMarker, Then, Exit, Spend
  <1>9. CASE Stop
    BY <1>9 DEF Stop, Exit
  <1>10. ASSUME NEW u \in Users, ManageUser(u)
        PROVE  users' \in UserTables /\ tokens' \in TokenTables
    <2>1. PICK r \in Roles, d \in BOOLEAN :
            users' = [users EXCEPT ![u].role = r, ![u].disabled = d, ![u].updated = now]
      BY <1>10 DEF ManageUser
    <2>2. users[u] \in UserRecords
      BY <1>10 DEF ManageUser, UserTables
    <2>3. [users[u] EXCEPT !.role = r, !.disabled = d, !.updated = now] \in UserRecords
      BY <2>2 DEF UserRecords
    <2>4. users' = [users EXCEPT ![u] = [users[u] EXCEPT !.role = r, !.disabled = d, !.updated = now]]
      BY <2>1 DEF UserTables
    <2>5. users' \in UserTables
      BY <2>3, <2>4, TableTypes
    <2>6. QED
      BY <1>10, <2>5 DEF ManageUser
  <1>11. ASSUME NEW t \in Tokens, ManageToken(t)
        PROVE  users' \in UserTables /\ tokens' \in TokenTables
    <2>1. CASE tokens' = [tokens EXCEPT ![t] = Nil]
      BY <1>11, <2>1, TableTypes DEF ManageToken
    <2>2. CASE \E u \in Users, e \in (now + 1)..MaxClock \cup {Nil} :
                 tokens' = [tokens EXCEPT ![t] = NewToken(u, "other", now, e)]
      <3>1. \A e \in (now + 1)..MaxClock : e \in Times
        BY DEF Times
      <3>2. PICK u \in Users, e \in Times \cup {Nil} :
              tokens' = [tokens EXCEPT ![t] = NewToken(u, "other", now, e)]
        BY <2>2, <3>1
      <3>3. NewToken(u, "other", now, e) \in TokenRecords
        BY NewRecords
      <3>4. QED
        BY <1>11, <3>2, <3>3, TableTypes DEF ManageToken
    <2>3. QED
      BY <1>11, <2>1, <2>2 DEF ManageToken
  <1>12. ASSUME NEW n \in Names, Recover(n)
        PROVE  users' \in UserTables /\ tokens' \in TokenTables
    BY <1>12 DEF Recover
  <1>13. CASE RecoverToken
    <2>1. NewToken(uid, "recovery", now, Nil) \in TokenRecords
      BY <1>13, NewRecords DEF RecoverToken
    <2>2. QED
      BY <1>13, <2>1, TableTypes DEF RecoverToken, SetToken
  <1>14. CASE RecoverUser
    <2>1. tokens[tid] \in TokenRecords /\ env.name \in Names
      BY <1>14 DEF RecoverUser, ProcInv, Lasting, TokenTables, Envs
    <2>2. tokens[tid].created \in Times
      BY <2>1 DEF TokenRecords
    <2>3. uid \in Users /\ NewUser(env.name, "admin", tokens[tid].created) \in UserRecords
      BY <1>14, <2>1, <2>2, NewRecords DEF RecoverUser
    <2>4. QED
      BY <1>14, <2>3, TableTypes DEF RecoverUser, SetUser
  <1>15. CASE RecoverMarker
    BY <1>15 DEF RecoverMarker, SetMarker, Then, Exit, Spend
  <1>16. CASE RecoverClose
    BY <1>16 DEF RecoverClose, Exit, Spend
  <1>17. CASE Kill
    BY <1>17 DEF Kill, Exit, Spend
  <1>18. CASE Clock
    BY <1>18 DEF Clock
  <1>19. CASE UNCHANGED vars
    BY <1>19 DEF vars
  <1>20. QED
    BY <1>1, <1>2, <1>3, <1>4, <1>5, <1>6, <1>7, <1>8, <1>9, <1>10, <1>11, <1>12,
       <1>13, <1>14, <1>15, <1>16, <1>17, <1>18, <1>19 DEF Next

\* The flags are set or not.
LEMMA FlagTypes ==
  Inv /\ [Next]_vars =>
    state' \in BOOLEAN /\ managed' \in BOOLEAN /\ recovered' \in BOOLEAN
  <1> SUFFICES ASSUME Inv, [Next]_vars
               PROVE  state' \in BOOLEAN /\ managed' \in BOOLEAN /\ recovered' \in BOOLEAN
    OBVIOUS
  <1> USE DEF Inv, TypeOK
  <1>1. ASSUME NEW e \in Envs, Start(e)
        PROVE  state' \in BOOLEAN /\ managed' \in BOOLEAN /\ recovered' \in BOOLEAN
    BY <1>1, Zenon DEF Start, storeVars, ghosts
  <1>2. CASE CheckInitialized
    BY <1>2, Zenon DEF CheckInitialized, Exit, storeVars, ghosts
  <1>3. CASE CheckRefuses
    BY <1>3, Zenon DEF CheckRefuses, Exit, storeVars, ghosts
  <1>4. CASE CheckEmpty
    BY <1>4, Zenon DEF CheckEmpty, storeVars, ghosts
  <1>5. CASE CheckResumes
    BY <1>5, Zenon DEF CheckResumes, storeVars, ghosts
  <1>6. CASE InitToken
    BY <1>6, Zenon DEF InitToken, SetToken, Then, Exit, Spend, storeVars, ghosts
  <1>7. CASE InitUser
    BY <1>7, Zenon DEF InitUser, SetUser, Then, Exit, Spend, storeVars, ghosts
  <1>8. CASE InitMarker
    BY <1>8, Zenon DEF InitMarker, SetMarker, Then, Exit, Spend, storeVars, ghosts
  <1>9. CASE Stop
    BY <1>9, Zenon DEF Stop, Exit, storeVars, ghosts
  <1>10. ASSUME NEW u \in Users, ManageUser(u)
        PROVE  state' \in BOOLEAN /\ managed' \in BOOLEAN /\ recovered' \in BOOLEAN
    BY <1>10, Zenon DEF ManageUser, Manages, Spend, storeVars, ghosts
  <1>11. ASSUME NEW t \in Tokens, ManageToken(t)
        PROVE  state' \in BOOLEAN /\ managed' \in BOOLEAN /\ recovered' \in BOOLEAN
    BY <1>11, Zenon DEF ManageToken, Manages, Spend, storeVars, ghosts
  <1>12. ASSUME NEW n \in Names, Recover(n)
        PROVE  state' \in BOOLEAN /\ managed' \in BOOLEAN /\ recovered' \in BOOLEAN
    BY <1>12, Zenon DEF Recover, storeVars, ghosts
  <1>13. CASE RecoverToken
    BY <1>13, Zenon DEF RecoverToken, SetToken, Then, Exit, Spend, storeVars, ghosts
  <1>14. CASE RecoverUser
    BY <1>14, Zenon DEF RecoverUser, SetUser, Then, Exit, Spend, storeVars, ghosts
  <1>15. CASE RecoverMarker
    BY <1>15, Zenon DEF RecoverMarker, SetMarker, Then, Exit, Spend, storeVars, ghosts
  <1>16. CASE RecoverClose
    BY <1>16, Zenon DEF RecoverClose, Exit, Spend, storeVars, ghosts
  <1>17. CASE Kill
    BY <1>17, Zenon DEF Kill, Exit, Spend, storeVars, ghosts
  <1>18. CASE Clock
    BY <1>18, Zenon DEF Clock, storeVars, ghosts
  <1>19. CASE UNCHANGED vars
    BY <1>19 DEF vars, storeVars, ghosts
  <1>20. QED
    BY <1>1, <1>2, <1>3, <1>4, <1>5, <1>6, <1>7, <1>8, <1>9, <1>10, <1>11, <1>12,
       <1>13, <1>14, <1>15, <1>16, <1>17, <1>18, <1>19 DEF Next

\* Every variable keeps its shape.
LEMMA TypeStep == Inv /\ [Next]_vars => TypeOK'
  <1> SUFFICES ASSUME Inv, [Next]_vars
               PROVE  TypeOK'
    OBVIOUS
  <1> USE DEF Inv, TypeOK, Refusals, storeVars, procVars, ghosts
  <1>a. /\ users' \in UserTables /\ tokens' \in TokenTables
        /\ state' \in BOOLEAN /\ managed' \in BOOLEAN /\ recovered' \in BOOLEAN
    BY StoreTypes, FlagTypes
  <1>1. ASSUME NEW e \in Envs, Start(e)
        PROVE  TypeOK'
    BY <1>1, <1>a DEF Start
  <1>2. CASE CheckInitialized
    BY <1>2, <1>a DEF CheckInitialized, Exit
  <1>3. CASE CheckRefuses
    BY <1>3, <1>a DEF CheckRefuses, Exit
  <1>4. CASE CheckEmpty
    BY <1>4, <1>a DEF CheckEmpty, FreshUsers, Envs
  <1>5. CASE CheckResumes
    <2>1. /\ env.token \in Tokens /\ tokens[env.token] \in TokenRecords
          /\ uid' = tokens[env.token].user
      BY <1>5 DEF CheckResumes, Envs, TokenTables
    <2>2. uid' \in Users
      BY <2>1 DEF TokenRecords
    <2>3. uid' # Nil /\ tid' \in Tokens /\ tid' # Nil
      BY <1>5, <2>1, <2>2 DEF CheckResumes
    <2>4. QED
      BY <1>5, <1>a, <2>2, <2>3 DEF CheckResumes
  <1>6. CASE InitToken
    BY <1>6, <1>a DEF InitToken, SetToken, Then, Exit, Spend
  <1>7. CASE InitUser
    BY <1>7, <1>a DEF InitUser, SetUser, Then, Exit, Spend
  <1>8. CASE InitMarker
    <2>1. Then("serving") \/ (Spend /\ Exit("storage"))
      BY <1>8, Zenon DEF InitMarker, SetMarker
    <2>2. /\ used' \in [stop : 0..MaxStops, back : 0..MaxBack]
          /\ mode' \in {"down", "serving", "rclose"} /\ outcome' \in {outcome, "storage"}
          /\ (uid' = uid /\ tid' = tid) \/ (mode' = "down" /\ uid' = Nil /\ tid' = Nil)
      BY <2>1 DEF Then, Exit, Spend
    <2>3. uid # Nil /\ tid # Nil /\ UNCHANGED <<now, env, boot>>
      BY <1>8 DEF InitMarker
    <2>4. QED
      BY <1>a, <2>2, <2>3
  <1>9. CASE Stop
    BY <1>9, <1>a DEF Stop, Exit
  <1>10. ASSUME NEW u \in Users, ManageUser(u)
        PROVE  TypeOK'
    BY <1>10, <1>a DEF ManageUser, Manages, Spend
  <1>11. ASSUME NEW t \in Tokens, ManageToken(t)
        PROVE  TypeOK'
    BY <1>11, <1>a DEF ManageToken, Manages, Spend
  <1>12. ASSUME NEW n \in Names, Recover(n)
        PROVE  TypeOK'
    BY <1>12, <1>a DEF Recover, FreshUsers, Envs
  <1>13. CASE RecoverToken
    BY <1>13, <1>a DEF RecoverToken, SetToken, Then, Exit, Spend
  <1>14. CASE RecoverUser
    BY <1>14, <1>a DEF RecoverUser, SetUser, Then, Exit, Spend
  <1>15. CASE RecoverMarker
    <2>1. Then("rclose") \/ (Spend /\ Exit("storage"))
      BY <1>15, Zenon DEF RecoverMarker, SetMarker
    <2>2. /\ used' \in [stop : 0..MaxStops, back : 0..MaxBack]
          /\ mode' \in {"down", "serving", "rclose"} /\ outcome' \in {outcome, "storage"}
          /\ (uid' = uid /\ tid' = tid) \/ (mode' = "down" /\ uid' = Nil /\ tid' = Nil)
      BY <2>1 DEF Then, Exit, Spend
    <2>3. uid # Nil /\ tid # Nil /\ UNCHANGED <<now, env, boot>>
      BY <1>15 DEF RecoverMarker
    <2>4. QED
      BY <1>a, <2>2, <2>3
  <1>16. CASE RecoverClose
    BY <1>16, <1>a DEF RecoverClose, Exit, Spend
  <1>17. CASE Kill
    BY <1>17, <1>a DEF Kill, Exit, Spend
  <1>18. CASE Clock
    BY <1>18, <1>a DEF Clock, Times
  <1>19. CASE UNCHANGED vars
    BY <1>19, <1>a DEF vars
  <1>20. QED
    BY <1>1, <1>2, <1>3, <1>4, <1>5, <1>6, <1>7, <1>8, <1>9, <1>10, <1>11, <1>12,
       <1>13, <1>14, <1>15, <1>16, <1>17, <1>18, <1>19 DEF Next

\* Initialization adds to a store without the marker, and only administrators
\* take an administrator away.
LEMMA AdminKept ==
  ASSUME Inv, [Next]_vars
  PROVE  \/ HasAdmin => HasAdmin'
         \/ mode \in {"token", "user"} /\ ~state' /\ UNCHANGED recovered
         \/ managed' /\ ~recovered'
  <1> USE DEF storeVars
  <1>1. CASE InitToken
    BY <1>1 DEF InitToken, SetToken, Inv, ProcInv
  <1>2. CASE InitUser
    BY <1>2 DEF InitUser, SetUser, Inv, ProcInv
  <1>3. CASE \/ \E u \in Users : ManageUser(u)
             \/ \E t \in Tokens : ManageToken(t)
    BY <1>3 DEF ManageUser, ManageToken, Manages
  <1>4. CASE RecoverToken
    BY <1>4, AdminStays DEF RecoverToken, SetToken, Inv, ProcInv, TypeOK
  <1>5. CASE RecoverUser
    BY <1>5, AdminStays DEF RecoverUser, SetUser, Inv, ProcInv, TypeOK
  <1>6. CASE UNCHANGED <<users, tokens>>
    BY <1>6, AdminStays DEF Inv
  <1>7. ASSUME ~ \/ InitToken \/ InitUser \/ RecoverToken \/ RecoverUser
                 \/ \E u \in Users : ManageUser(u)
                 \/ \E t \in Tokens : ManageToken(t)
        PROVE  UNCHANGED <<users, tokens>>
    BY <1>7 DEF Next, vars, Start, CheckInitialized, CheckRefuses, CheckEmpty,
       CheckResumes,
                InitMarker, SetMarker, Stop, Recover, RecoverMarker, RecoverClose, Kill, Clock
  <1>8. QED
    BY <1>1, <1>2, <1>3, <1>4, <1>5, <1>6, <1>7

\* The marker comes after the administrator.
LEMMA MarkerStep == Inv /\ [Next]_vars => MarkerInv'
  <1> SUFFICES ASSUME Inv, [Next]_vars
               PROVE  MarkerInv'
    OBVIOUS
  <1> USE DEF Inv, TypeOK, MarkerInv, ProcInv, storeVars, procVars, ghosts
  <1>a. \/ HasAdmin => HasAdmin'
        \/ mode \in {"token", "user"} /\ ~state' /\ UNCHANGED recovered
        \/ managed' /\ ~recovered'
    BY AdminKept
  <1>1. ASSUME NEW e \in Envs, Start(e)
        PROVE  MarkerInv'
    BY <1>1, <1>a DEF Start
  <1>2. CASE CheckInitialized
    BY <1>2, <1>a DEF CheckInitialized, Exit
  <1>3. CASE CheckRefuses
    BY <1>3, <1>a DEF CheckRefuses, Exit
  <1>4. CASE CheckEmpty
    BY <1>4, <1>a DEF CheckEmpty
  <1>5. CASE CheckResumes
    BY <1>5, <1>a DEF CheckResumes
  <1>6. CASE InitToken
    BY <1>6, <1>a DEF InitToken, SetToken, Then, Exit, Spend
  <1>7. CASE InitUser
    BY <1>7, <1>a DEF InitUser, SetUser, Then, Exit, Spend
  <1>8. CASE InitMarker
    BY <1>8, <1>a DEF InitMarker, SetMarker, Then, Exit, Spend
  <1>9. CASE Stop
    BY <1>9, <1>a DEF Stop, Exit
  <1>10. ASSUME NEW u \in Users, ManageUser(u)
        PROVE  MarkerInv'
    BY <1>10, <1>a DEF ManageUser, Manages, Spend
  <1>11. ASSUME NEW t \in Tokens, ManageToken(t)
        PROVE  MarkerInv'
    BY <1>11, <1>a DEF ManageToken, Manages, Spend
  <1>12. ASSUME NEW n \in Names, Recover(n)
        PROVE  MarkerInv'
    BY <1>12, <1>a DEF Recover
  <1>13. CASE RecoverToken
    BY <1>13, <1>a DEF RecoverToken, SetToken, Then, Exit, Spend
  <1>14. CASE RecoverUser
    BY <1>14, <1>a DEF RecoverUser, SetUser, Then, Exit, Spend
  <1>15. CASE RecoverMarker
    BY <1>15, <1>a DEF RecoverMarker, SetMarker, Then, Exit, Spend
  <1>16. CASE RecoverClose
    BY <1>16, <1>a DEF RecoverClose, Exit, Spend
  <1>17. CASE Kill
    BY <1>17, <1>a DEF Kill, Exit, Spend
  <1>18. CASE Clock
    BY <1>18, <1>a DEF Clock
  <1>19. CASE UNCHANGED vars
    BY <1>19, <1>a DEF vars
  <1>20. QED
    BY <1>1, <1>2, <1>3, <1>4, <1>5, <1>6, <1>7, <1>8, <1>9, <1>10, <1>11, <1>12,
       <1>13, <1>14, <1>15, <1>16, <1>17, <1>18, <1>19 DEF Next

\* A recovered store stays one.
LEMMA RecoverStep == Inv /\ [Next]_vars => RecoverInv'
  <1> SUFFICES ASSUME Inv, [Next]_vars
               PROVE  RecoverInv'
    OBVIOUS
  <1> USE DEF Inv, RecoverInv, ProcInv, Refusals, storeVars, procVars, ghosts
  <1>a. \/ HasAdmin => HasAdmin'
        \/ mode \in {"token", "user"} /\ ~state' /\ UNCHANGED recovered
        \/ managed' /\ ~recovered'
    BY AdminKept
  <1>1. ASSUME NEW e \in Envs, Start(e)
        PROVE  RecoverInv'
    BY <1>1, <1>a DEF Start
  <1>2. CASE CheckInitialized
    <2>1. recovered => hasActiveAdmin(users, tokens, now)
      BY AdminActive
    <2>2. QED
      BY <1>2, <1>a, <2>1 DEF CheckInitialized, Exit
  <1>3. CASE CheckRefuses
    BY <1>3, <1>a DEF CheckRefuses, Exit
  <1>4. CASE CheckEmpty
    BY <1>4, <1>a DEF CheckEmpty
  <1>5. CASE CheckResumes
    BY <1>5, <1>a DEF CheckResumes
  <1>6. CASE InitToken
    BY <1>6, <1>a DEF InitToken, SetToken, Then, Exit, Spend
  <1>7. CASE InitUser
    BY <1>7, <1>a DEF InitUser, SetUser, Then, Exit, Spend
  <1>8. CASE InitMarker
    BY <1>8, <1>a DEF InitMarker, SetMarker, Then, Exit, Spend
  <1>9. CASE Stop
    BY <1>9, <1>a DEF Stop, Exit
  <1>10. ASSUME NEW u \in Users, ManageUser(u)
        PROVE  RecoverInv'
    BY <1>10, <1>a DEF ManageUser, Manages, Spend
  <1>11. ASSUME NEW t \in Tokens, ManageToken(t)
        PROVE  RecoverInv'
    BY <1>11, <1>a DEF ManageToken, Manages, Spend
  <1>12. ASSUME NEW n \in Names, Recover(n)
        PROVE  RecoverInv'
    BY <1>12, <1>a DEF Recover
  <1>13. CASE RecoverToken
    BY <1>13, <1>a DEF RecoverToken, SetToken, Then, Exit, Spend
  <1>14. CASE RecoverUser
    BY <1>14, <1>a DEF RecoverUser, SetUser, Then, Exit, Spend
  <1>15. CASE RecoverMarker
    BY <1>15, <1>a DEF RecoverMarker, SetMarker, Then, Exit, Spend
  <1>16. CASE RecoverClose
    BY <1>16, <1>a DEF RecoverClose, Exit, Spend
  <1>17. CASE Kill
    BY <1>17, <1>a DEF Kill, Exit, Spend
  <1>18. CASE Clock
    BY <1>18, <1>a DEF Clock
  <1>19. CASE UNCHANGED vars
    BY <1>19, <1>a DEF vars
  <1>20. QED
    BY <1>1, <1>2, <1>3, <1>4, <1>5, <1>6, <1>7, <1>8, <1>9, <1>10, <1>11, <1>12,
       <1>13, <1>14, <1>15, <1>16, <1>17, <1>18, <1>19 DEF Next

\* The first record of a table is its only one.
LEMMA FirstRecord ==
  /\ \A r : \A f \in UserTables, u \in Users :
       Bare(f) /\ r # Nil => Only([f EXCEPT ![u] = r], u) /\ [f EXCEPT ![u] = r][u] = r
  /\ \A r : \A f \in TokenTables, t \in Tokens :
       Bare(f) /\ r # Nil => Only([f EXCEPT ![t] = r], t) /\ [f EXCEPT ![t] = r][t] = r
  BY DEF UserTables, TokenTables, Bare, Only

\* What initializeAuth stores as the token.
LEMMA InitTokenStores ==
  ASSUME Inv, InitToken
  PROVE  /\ uid \in Users /\ tid \in Tokens /\ tid = env.token /\ ~state /\ ~state'
         /\ UNCHANGED users /\ Bare(users)
         /\ \/ tokens' = tokens /\ Bare(tokens) /\ Exit("storage")
            \/ /\ Only(tokens', tid) /\ Initial(tokens'[tid], uid)
               /\ Exit("storage") \/ Then("user")
  <1>1. /\ uid \in Users /\ tid \in Tokens /\ tid = env.token /\ ~state
        /\ Bare(tokens) /\ Bare(users) /\ tokens \in TokenTables /\ now \in Times
    BY DEF InitToken, Inv, TypeOK, ProcInv
  <1> DEFINE r == NewToken(uid, "initial", now, Nil)
  <1>2. Initial(r, uid) /\ r \in TokenRecords /\ r # Nil
    <2>1. r \in TokenRecords
      BY <1>1, NewRecords
    <2>2. QED
      BY <1>1, <2>1, NewRecords DEF Initial, Lasting
  <1> HIDE DEF r
  <1>3. Only([tokens EXCEPT ![tid] = r], tid) /\ [tokens EXCEPT ![tid] = r][tid] = r
    BY <1>1, <1>2 DEF TokenTables, Bare, Only
  <1>4. /\ \/ tokens' = [tokens EXCEPT ![tid] = r] /\ Then("user")
           \/ tokens' \in {tokens, [tokens EXCEPT ![tid] = r]} /\ Exit("storage")
        /\ UNCHANGED <<state, users>>
    BY DEF InitToken, SetToken, r
  <1>5. QED
    BY <1>1, <1>2, <1>3, <1>4

\* What it does about the user.
LEMMA InitUserStores ==
  ASSUME Inv, InitUser
  PROVE  /\ uid \in Users /\ tid \in Tokens /\ tid = env.token /\ ~state /\ ~state'
         /\ UNCHANGED tokens /\ Only(tokens, tid) /\ Initial(tokens[tid], uid)
         /\ \/ /\ users' = users /\ Bare(users) /\ boot' = env /\ Exit("storage")
            \/ /\ Only(users', uid) /\ Accepted(users'[uid], env) /\ boot' = env
               /\ Exit("storage") \/ Then("marker")
            \/ /\ users' = users /\ Only(users, uid) /\ Accepted(users[uid], env)
               /\ boot' = boot /\ Then("marker")
            \/ /\ users' = users /\ boot' = boot /\ Exit("conflict") /\ ~Bare(users)
               /\ ~(Only(users, uid) /\ Accepted(users[uid], env))
  <1>1. /\ uid \in Users /\ tid \in Tokens /\ tid = env.token /\ ~state
        /\ Only(tokens, tid) /\ Initial(tokens[tid], uid)
        /\ users \in UserTables /\ now \in Times /\ env.name \in Names
    BY DEF InitUser, Inv, TypeOK, ProcInv, Envs
  <1>2. /\ users[uid] = Nil /\ Count(users) = 0 <=> Bare(users)
        /\ Only(users, uid) <=> users[uid] # Nil /\ Count(users) = 1
    <2>1. Bare(users) => users[uid] = Nil
      BY <1>1 DEF Bare, UserTables
    <2>2. QED
      BY <1>1, <2>1, Counts DEF Inv
  <1> DEFINE r == NewUser(env.name, "admin", now)
  <1>3. Accepted(r, env) /\ r # Nil
    BY <1>1, NewRecords DEF Accepted, Admin, Enabled
  <1> HIDE DEF r
  <1>4. Bare(users) => /\ Only([users EXCEPT ![uid] = r], uid)
                       /\ [users EXCEPT ![uid] = r][uid] = r
    BY <1>1, <1>3, FirstRecord
  <1>5. Accepted(users[uid], env) <=>
          /\ users[uid] # Nil /\ validateUserRecord(users[uid])
          /\ users[uid].name = env.name /\ users[uid].role = "admin"
          /\ ~users[uid].disabled
    BY DEF Accepted, Admin, Enabled
  <1>6. /\ UNCHANGED <<state, tokens>>
        /\ \/ /\ Bare(users) /\ boot' = env
              /\ \/ users' = [users EXCEPT ![uid] = r] /\ Then("marker")
                 \/ users' \in {users, [users EXCEPT ![uid] = r]} /\ Exit("storage")
           \/ /\ Only(users, uid) /\ Accepted(users[uid], env)
              /\ Then("marker") /\ boot' = boot /\ users' = users
           \/ /\ ~Bare(users) /\ ~(Only(users, uid) /\ Accepted(users[uid], env))
              /\ Exit("conflict") /\ boot' = boot /\ users' = users
    BY <1>2, <1>5 DEF InitUser, SetUser, storeVars, r
  <1>7. QED
    BY <1>1, <1>3, <1>4, <1>6

\* Each step finds what the ones before it have stored.
LEMMA ProcStep == Inv /\ [Next]_vars => ProcInv'
  <1> SUFFICES ASSUME Inv, [Next]_vars
               PROVE  ProcInv'
    OBVIOUS
  <1> USE DEF Inv, ProcInv, storeVars, procVars, ghosts
  <1>a. UNCHANGED <<users, tokens>> => (HasAdmin <=> HasAdmin')
    BY DEF HasAdmin
  <1>1. ASSUME NEW e \in Envs, Start(e)
        PROVE  ProcInv'
    BY <1>1, <1>a DEF Start
  <1>2. CASE CheckInitialized
    BY <1>2, <1>a DEF CheckInitialized, Exit
  <1>3. CASE CheckRefuses
    BY <1>3, <1>a DEF CheckRefuses, Exit
  <1>4. CASE CheckEmpty
    <2>1. Bare(users) /\ Bare(tokens)
      BY <1>4, Counts DEF CheckEmpty
    <2>2. QED
      BY <1>4, <2>1 DEF CheckEmpty
  <1>5. CASE CheckResumes
    <2>1. env.token \in Tokens
      BY <1>5 DEF CheckResumes, Envs, TypeOK
    <2>2. Only(tokens, env.token) /\ Initial(tokens[env.token], tokens[env.token].user)
      BY <1>5, <2>1, Counts DEF CheckResumes, Initial, Lasting
    <2>3. QED
      BY <1>5, <2>2 DEF CheckResumes
  <1>6. CASE InitToken
    <2>1. /\ tid = env.token /\ ~state' /\ UNCHANGED users
          /\ \/ Exit("storage")
             \/ Then("user") /\ Only(tokens', tid) /\ Initial(tokens'[tid], uid)
      BY <1>6, InitTokenStores
    <2>2. QED
      BY <1>6, <2>1 DEF InitToken, Then, Exit
  <1>7. CASE InitUser
    <2>1. /\ uid \in Users /\ tid \in Tokens /\ tid = env.token /\ ~state' /\ UNCHANGED tokens
          /\ Only(tokens, tid) /\ Initial(tokens[tid], uid)
          /\ \/ Exit("storage") \/ Exit("conflict")
             \/ Then("marker") /\ Only(users', uid) /\ Accepted(users'[uid], env)
      BY <1>7, InitUserStores
    <2>2. CASE Then("marker") /\ Only(users', uid) /\ Accepted(users'[uid], env)
      <3>1. HasAdmin'
        BY <2>1, <2>2 DEF HasAdmin, Initial, Accepted
      <3>2. QED
        BY <1>7, <2>1, <2>2, <3>1 DEF InitUser, Then
    <2>3. CASE Exit("storage") \/ Exit("conflict")
      BY <1>7, <2>1, <2>3 DEF InitUser, Exit
    <2>4. QED
      BY <2>1, <2>2, <2>3
  <1>8. CASE InitMarker
    BY <1>8, <1>a DEF InitMarker, SetMarker, Then, Exit, Spend
  <1>9. CASE Stop
    BY <1>9, <1>a DEF Stop, Exit
  <1>10. ASSUME NEW u \in Users, ManageUser(u)
        PROVE  ProcInv'
    BY <1>10, <1>a DEF ManageUser, Manages, Spend
  <1>11. ASSUME NEW t \in Tokens, ManageToken(t)
        PROVE  ProcInv'
    BY <1>11, <1>a DEF ManageToken, Manages, Spend
  <1>12. ASSUME NEW n \in Names, Recover(n)
        PROVE  ProcInv'
    BY <1>12, <1>a DEF Recover, FreshUsers
  <1>13. CASE RecoverToken
    <2>1. /\ uid \in Users /\ tid \in Tokens /\ users[uid] = Nil
          /\ tokens \in TokenTables /\ now \in Times
      BY <1>13 DEF RecoverToken, TypeOK
    <2>2. Lasting(NewToken(uid, "recovery", now, Nil), uid)
      BY <2>1, NewRecords
    <2>3. CASE Then("ruser") /\ tokens' = [tokens EXCEPT ![tid] = NewToken(uid, "recovery", now, Nil)]
      <3>1. Lasting(tokens'[tid], uid)
        BY <2>1, <2>2, <2>3 DEF TokenTables
      <3>2. QED
        BY <1>13, <2>1, <2>3, <3>1 DEF RecoverToken, SetToken, Then
    <2>4. CASE Exit("storage")
      BY <1>13, <2>4 DEF RecoverToken, SetToken, Exit
    <2>5. QED
      BY <1>13, <2>3, <2>4 DEF RecoverToken, SetToken
  <1>14. CASE RecoverUser
    <2>1. /\ uid \in Users /\ tid \in Tokens /\ Lasting(tokens[tid], uid)
          /\ users \in UserTables /\ tokens[tid] \in TokenRecords /\ env.name \in Names
      BY <1>14 DEF RecoverUser, TypeOK, Lasting, TokenTables, Envs
    <2>2. tokens[tid].created \in Times
      BY <2>1 DEF TokenRecords
    <2>3. Admin(NewUser(env.name, "admin", tokens[tid].created))
      BY <2>1, <2>2, NewRecords
    <2>4. CASE /\ Then("rmarker")
               /\ users' = [users EXCEPT ![uid] = NewUser(env.name, "admin", tokens[tid].created)]
      <3>1. Admin(users'[uid]) /\ tokens' = tokens
        BY <1>14, <2>1, <2>3, <2>4 DEF UserTables, RecoverUser, SetUser
      <3>2. HasAdmin'
        BY <2>1, <3>1 DEF HasAdmin
      <3>3. QED
        BY <1>14, <2>4, <3>2 DEF RecoverUser, SetUser, Then
    <2>5. CASE Exit("storage")
      BY <1>14, <2>5 DEF RecoverUser, SetUser, Exit
    <2>6. QED
      BY <1>14, <2>4, <2>5 DEF RecoverUser, SetUser
  <1>15. CASE RecoverMarker
    BY <1>15, <1>a DEF RecoverMarker, SetMarker, Then, Exit, Spend
  <1>16. CASE RecoverClose
    BY <1>16, <1>a DEF RecoverClose, Exit, Spend
  <1>17. CASE Kill
    BY <1>17, <1>a DEF Kill, Exit, Spend
  <1>18. CASE Clock
    BY <1>18, <1>a DEF Clock
  <1>19. CASE UNCHANGED vars
    BY <1>19, <1>a DEF vars
  <1>20. QED
    BY <1>1, <1>2, <1>3, <1>4, <1>5, <1>6, <1>7, <1>8, <1>9, <1>10, <1>11, <1>12,
       <1>13, <1>14, <1>15, <1>16, <1>17, <1>18, <1>19 DEF Next

\* An unfinished initialization leaves its own records only.
LEMMA BootStep == Inv /\ [Next]_vars => BootInv'
  <1> SUFFICES ASSUME Inv, [Next]_vars
               PROVE  BootInv'
    OBVIOUS
  <1> USE DEF Inv, BootInv, ProcInv, storeVars, procVars, ghosts
  <1>1. ASSUME NEW e \in Envs, Start(e)
        PROVE  BootInv'
    BY <1>1 DEF Start
  <1>2. CASE CheckInitialized
    BY <1>2 DEF CheckInitialized, Exit
  <1>3. CASE CheckRefuses
    BY <1>3 DEF CheckRefuses, Exit
  <1>4. CASE CheckEmpty
    BY <1>4 DEF CheckEmpty
  <1>5. CASE CheckResumes
    BY <1>5 DEF CheckResumes
  <1>6. CASE InitToken
    <2>1. /\ boot' = env /\ env.token # Nil /\ uid \in Users /\ tid = env.token
      BY <1>6, InitTokenStores DEF InitToken, TypeOK
    <2>2. QED
      BY <2>1, <1>6, InitTokenStores
  <1>7. CASE InitUser
    <2>1. /\ uid \in Users /\ tid = env.token /\ tid \in Tokens /\ tid # Nil /\ ~state
          /\ UNCHANGED tokens /\ Only(tokens, tid) /\ Initial(tokens[tid], uid)
      BY <1>7, InitUserStores DEF InitUser, TypeOK
    <2>2. CASE boot' = env
      BY <1>7, <2>1, <2>2, InitUserStores
    <2>3. CASE boot' = boot /\ users' = users
      BY <2>1, <2>3
    <2>4. QED
      BY <1>7, <2>2, <2>3, InitUserStores
  <1>8. CASE InitMarker
    BY <1>8 DEF InitMarker, SetMarker, Then, Exit, Spend
  <1>9. CASE Stop
    BY <1>9 DEF Stop, Exit
  <1>10. ASSUME NEW u \in Users, ManageUser(u)
        PROVE  BootInv'
    BY <1>10 DEF ManageUser, Manages, Spend
  <1>11. ASSUME NEW t \in Tokens, ManageToken(t)
        PROVE  BootInv'
    BY <1>11 DEF ManageToken, Manages, Spend
  <1>12. ASSUME NEW n \in Names, Recover(n)
        PROVE  BootInv'
    BY <1>12 DEF Recover
  <1>13. CASE RecoverToken
    BY <1>13 DEF RecoverToken, SetToken, Then, Exit, Spend
  <1>14. CASE RecoverUser
    BY <1>14 DEF RecoverUser, SetUser, Then, Exit, Spend
  <1>15. CASE RecoverMarker
    BY <1>15 DEF RecoverMarker, SetMarker, Then, Exit, Spend
  <1>16. CASE RecoverClose
    BY <1>16 DEF RecoverClose, Exit, Spend
  <1>17. CASE Kill
    BY <1>17 DEF Kill, Exit, Spend
  <1>18. CASE Clock
    BY <1>18 DEF Clock
  <1>19. CASE UNCHANGED vars
    BY <1>19 DEF vars
  <1>20. QED
    BY <1>1, <1>2, <1>3, <1>4, <1>5, <1>6, <1>7, <1>8, <1>9, <1>10, <1>11, <1>12,
       <1>13, <1>14, <1>15, <1>16, <1>17, <1>18, <1>19 DEF Next

\* Only another environment is refused.
LEMMA ResumeStep == Inv /\ [Next]_vars => NotRefused'
  <1> SUFFICES ASSUME Inv, [Next]_vars
               PROVE  NotRefused'
    OBVIOUS
  <1> USE DEF Inv, NotRefused, ProcInv, storeVars, procVars, ghosts
  <1>1. ASSUME NEW e \in Envs, Start(e)
        PROVE  NotRefused'
    BY <1>1 DEF Start
  <1>2. CASE CheckInitialized
    BY <1>2 DEF CheckInitialized, Exit
  <1>3. CASE CheckRefuses
    <2>1. SUFFICES ASSUME env = boot, outcome' \in {"unrelated", "conflict"}
                   PROVE  FALSE
      BY <1>3 DEF CheckRefuses
    <2>2. ~state /\ env.token \in Tokens /\ env.token # Nil /\ boot # Nil
      BY <1>3, <2>1 DEF CheckRefuses, Exit, Envs, TypeOK
    <2>3. CASE Bare(tokens) /\ Bare(users)
      <3>1. Count(tokens) = 0 /\ Count(users) = 0 /\ tokens[env.token] = Nil
        BY <2>2, <2>3, Counts DEF Bare, TypeOK, TokenTables
      <3>2. QED
        BY <1>3, <2>1, <3>1 DEF CheckRefuses, Exit
    <2>4. CASE \E u \in Users : Only(tokens, boot.token) /\ Initial(tokens[boot.token], u)
      <3>1. /\ Count(tokens) = 1 /\ tokens[env.token] # Nil
            /\ tokens[env.token].label = "initial" /\ tokens[env.token].expires = Nil
        BY <2>1, <2>2, <2>4, Counts DEF Initial, Lasting
      <3>2. validateTokenRecord(tokens[env.token])
        BY <3>1 DEF validateTokenRecord
      <3>3. QED
        BY <1>3, <2>1, <3>1, <3>2 DEF CheckRefuses, Exit
    <2>5. QED
      BY <2>2, <2>3, <2>4 DEF BootInv
  <1>4. CASE CheckEmpty
    BY <1>4 DEF CheckEmpty
  <1>5. CASE CheckResumes
    BY <1>5 DEF CheckResumes
  <1>6. CASE InitToken
    BY <1>6 DEF InitToken, SetToken, Then, Exit, Spend
  <1>7. CASE InitUser
    <2>1. SUFFICES ASSUME env = boot, outcome' = "conflict", boot' = boot
                   PROVE  FALSE
      BY <1>7, InitUserStores DEF InitUser, Exit, Then
    <2>2. /\ ~state /\ tid = env.token /\ Only(tokens, tid) /\ Initial(tokens[tid], uid)
          /\ boot # Nil /\ ~Bare(users) /\ ~(Only(users, uid) /\ Accepted(users[uid], env))
      BY <1>7, <2>1, InitUserStores DEF TypeOK, InitUser, Exit, Then
    <2>3. PICK u \in Users : /\ Initial(tokens[boot.token], u)
                             /\ Only(users, u) /\ Accepted(users[u], boot)
      BY <2>2 DEF BootInv
    <2>4. u = uid
      BY <2>1, <2>2, <2>3 DEF Initial, Lasting
    <2>5. QED
      BY <2>1, <2>2, <2>3, <2>4
  <1>8. CASE InitMarker
    BY <1>8 DEF InitMarker, SetMarker, Then, Exit, Spend
  <1>9. CASE Stop
    BY <1>9 DEF Stop, Exit
  <1>10. ASSUME NEW u \in Users, ManageUser(u)
        PROVE  NotRefused'
    BY <1>10 DEF ManageUser, Manages, Spend
  <1>11. ASSUME NEW t \in Tokens, ManageToken(t)
        PROVE  NotRefused'
    BY <1>11 DEF ManageToken, Manages, Spend
  <1>12. ASSUME NEW n \in Names, Recover(n)
        PROVE  NotRefused'
    BY <1>12 DEF Recover
  <1>13. CASE RecoverToken
    BY <1>13 DEF RecoverToken, SetToken, Then, Exit, Spend
  <1>14. CASE RecoverUser
    BY <1>14 DEF RecoverUser, SetUser, Then, Exit, Spend
  <1>15. CASE RecoverMarker
    BY <1>15 DEF RecoverMarker, SetMarker, Then, Exit, Spend
  <1>16. CASE RecoverClose
    BY <1>16 DEF RecoverClose, Exit, Spend
  <1>17. CASE Kill
    BY <1>17 DEF Kill, Exit, Spend
  <1>18. CASE Clock
    BY <1>18 DEF Clock
  <1>19. CASE UNCHANGED vars
    BY <1>19 DEF vars
  <1>20. QED
    BY <1>1, <1>2, <1>3, <1>4, <1>5, <1>6, <1>7, <1>8, <1>9, <1>10, <1>11, <1>12,
       <1>13, <1>14, <1>15, <1>16, <1>17, <1>18, <1>19 DEF Next

\* Nobody goes on with what another environment has left.
LEMMA OwnRecords ==
  ASSUME Inv
  PROVE  NotTakenOver
  <1> USE DEF Inv, TypeOK, ProcInv, BootInv
  <1>1. SUFFICES ASSUME boot # Nil, mode \in {"user", "marker"}
                 PROVE  env.token = boot.token /\ (mode = "marker" => env = boot)
    BY DEF NotTakenOver
  <1>2. /\ ~state /\ tid = env.token /\ tid \in Tokens
        /\ Only(tokens, tid) /\ Initial(tokens[tid], uid)
    BY <1>1
  <1>3. PICK u \in Users :
          /\ Only(tokens, boot.token) /\ Initial(tokens[boot.token], u)
          /\ Bare(users) \/ (Only(users, u) /\ Accepted(users[u], boot))
    <2>1. ~Bare(tokens)
      BY <1>2 DEF Only, Bare, TokenTables
    <2>2. QED
      BY <1>1, <1>2, <2>1
  <1>4. env.token = boot.token
    BY <1>2, <1>3 DEF Only, TokenTables
  <1>5. u = uid
    BY <1>2, <1>3, <1>4 DEF Initial, Lasting
  <1>6. ASSUME mode = "marker"
        PROVE  env = boot
    <2>1. uid \in Users /\ Only(users, uid) /\ Accepted(users[uid], env)
      BY <1>6
    <2>2. ~Bare(users)
      BY <2>1 DEF Only, Bare, UserTables
    <2>3. env.name = boot.name
      BY <1>3, <1>5, <2>1, <2>2 DEF Accepted
    <2>4. env \in Envs /\ boot \in Envs
      BY <1>1
    <2>5. QED
      BY <1>4, <2>3, <2>4 DEF Envs
  <1>7. QED
    BY <1>4, <1>6

\* The inductive invariant holds.
THEOREM InvHolds == Spec => []Inv
  <1>1. Init => Inv
    <2> SUFFICES ASSUME Init
                 PROVE  Inv
      OBVIOUS
    <2>1. env \in Envs
      <3>1. PICK n \in Names : TRUE
        BY DEF Init
      <3>2. [token |-> Nil, name |-> n] \in Envs /\ [token |-> Nil, name |-> n].token = Nil
        BY DEF Envs
      <3>3. \E e \in Envs : e.token = Nil
        BY <3>2
      <3>4. (CHOOSE e \in Envs : e.token = Nil) \in Envs
        BY <3>3
      <3>5. QED
        BY <3>4 DEF Init
    <2>2. state \in BOOLEAN /\ managed \in BOOLEAN /\ recovered \in BOOLEAN
      BY Zenon DEF Init
    <2>3. users \in UserTables /\ tokens \in TokenTables
      BY DEF Init, UserTables, TokenTables
    <2>4. TypeOK
      BY <2>1, <2>2, <2>3 DEF Init, TypeOK, Times
    <2>5. ProcInv /\ BootInv /\ MarkerInv /\ RecoverInv /\ NotRefused
      BY DEF Init, ProcInv, BootInv, MarkerInv, RecoverInv, NotRefused
    <2>6. QED
      BY <2>4, <2>5 DEF Inv
  <1>2. Inv /\ [Next]_vars => Inv'
    BY TypeStep, ProcStep, BootStep, MarkerStep, RecoverStep, ResumeStep DEF Inv
  <1>3. QED
    BY <1>1, <1>2, PTL DEF Spec

\* A process that writes records knows the ids that it works on.
THEOREM TypeCorrect == Spec => []TypeOK
  <1>1. Inv => TypeOK
    BY DEF Inv
  <1>2. QED
    BY <1>1, InvHolds, PTL

\* The marker is never there without an administrator who can log in, as long
\* as administrators have changed nothing.
THEOREM MarkerMeansAdminHolds == Spec => []MarkerMeansAdmin
  <1>1. Inv => MarkerMeansAdmin
    BY AdminActive DEF Inv, MarkerInv, MarkerMeansAdmin
  <1>2. QED
    BY <1>1, InvHolds, PTL

\* A server does not begin to serve without an administrator who can log in.
THEOREM ServesWithAdminHolds == Spec => ServesWithAdmin
  <1> DEFINE A == (mode # "serving" /\ mode' = "serving") =>
                    state' /\ AdminCanLogIn'
  <1>1. ASSUME Inv, Next, mode # "serving", mode' = "serving"
        PROVE  state' /\ AdminCanLogIn'
    <2>a. UNCHANGED <<users, tokens, now>> => (AdminCanLogIn <=> AdminCanLogIn')
      BY DEF AdminCanLogIn
    <2>1. CASE CheckInitialized
      <3>1. state' /\ hasActiveAdmin(users, tokens, now) /\ UNCHANGED <<users, tokens, now>>
        BY <1>1, <2>1 DEF CheckInitialized, Exit, storeVars
      <3>2. QED
        BY <1>1, <2>a, <3>1, SameChecks DEF Inv
    <2>2. CASE InitMarker
      <3>1. AdminCanLogIn
        BY <1>1, <2>2, AdminActive DEF InitMarker, Inv, ProcInv
      <3>2. QED
        BY <1>1, <2>2, <2>a, <3>1 DEF InitMarker, SetMarker, Exit
    <2>3. CASE ~CheckInitialized /\ ~InitMarker
      BY <1>1, <2>3 DEF Next, Start, CheckRefuses, CheckEmpty, CheckResumes, InitToken,
         InitUser, SetToken, SetUser, SetMarker, Then, Exit, Stop, ManageUser, ManageToken,
         Manages, procVars, Recover, RecoverToken, RecoverUser, RecoverMarker, RecoverClose,
         Kill, Clock
    <2>4. QED
      BY <2>1, <2>2, <2>3
  <1>2. Inv /\ [Next]_vars => [A]_vars
    BY <1>1
  <1>3. QED
    BY <1>2, InvHolds, PTL DEF Spec, ServesWithAdmin

\* An initialization that was stopped half-way can be finished in the
\* environment in which it was stopped, and in no other.
THEOREM ResumesBootstrapHolds == Spec => []ResumesBootstrap
  <1>1. Inv => ResumesBootstrap
    BY OwnRecords DEF Inv, ResumesBootstrap
  <1>2. QED
    BY <1>1, InvHolds, PTL

\* Once recover has printed a credential the server starts, until an
\* administrator changes something.
THEOREM RecoverSufficesHolds == Spec => []RecoverSuffices
  <1>1. Inv => RecoverSuffices
    BY DEF Inv, RecoverInv, RecoverSuffices
  <1>2. QED
    BY <1>1, InvHolds, PTL
==============================================================================

---------------------------- MODULE AuthBootstrap ----------------------------
(***************************************************************************)
(* How a MeDB server gets its first administrator and gets one back:       *)
(* initializeAuth when the server starts, and the offline command          *)
(* "medb auth recover".  Both write three records one after another, so a  *)
(* kill or a storage failure may leave any part of them, and the next      *)
(* start may bring other MEDB_INIT_* values.                               *)
(*                                                                         *)
(* One process at a time has the directory open.  Each Set returns once it *)
(* is durable (module GroupCommit), so between two of them there is one    *)
(* store, and a Set that fails may or may not have reached the disk.       *)
(* What administrators do while the server runs is one durable change at a *)
(* time here; module AuthRequests has the requests.                        *)
(***************************************************************************)
EXTENDS AuthRecords

CONSTANTS
  InitTokens,  \* tokens an operator may put into MEDB_INIT_ADMIN_TOKEN
  MaxStops,    \* bound: kills, storage failures and changes by administrators
  MaxBack      \* bound: times the wall clock is set back

\* What the environment says; token Nil: no usable MEDB_INIT_ADMIN_TOKEN.
Envs == [token : InitTokens \cup {Nil}, name : Names]

ASSUME BootstrapAssumption ==
  /\ InitTokens \subseteq Tokens /\ MaxStops \in Nat /\ MaxBack \in Nat
  /\ Nil \notin Envs

VARIABLES
  now,        \* the wall clock
  state,      \* _meta/state has the marker
  users,      \* _meta/users
  tokens,     \* _meta/tokens
  mode,       \* "down", the step the process is at, or "serving"
  env,        \* the environment of the process
  uid, tid,   \* initializeAuth's and recoverAuth's locals
  outcome,    \* how the last process ended, or "running"
  boot,       \* ghost: the environment of the last record initializeAuth wrote
  managed,    \* ghost: administrators have changed the store
  recovered,  \* ghost: recover has printed a credential, unmanaged since
  used        \* bounded steps so far

storeVars == <<state, users, tokens>>
procVars  == <<mode, env, uid, tid, outcome>>
ghosts    == <<boot, managed, recovered>>
vars == <<now, storeVars, procVars, ghosts, used>>

Refusals == {"noadmin", "noenv", "unrelated", "conflict"}

\* Every variable keeps its shape, and a process that has passed the token
\* stage knows the user and the token it works on.
TypeOK ==
  /\ now \in Times
  /\ state \in BOOLEAN /\ users \in UserTables /\ tokens \in TokenTables
  /\ mode \in {"down", "check", "token", "user", "marker", "serving",
               "rtoken", "ruser", "rmarker", "rclose"}
  /\ env \in Envs
  /\ uid \in Users \cup {Nil} /\ tid \in Tokens \cup {Nil}
  /\ mode \notin {"down", "check", "serving"} => uid # Nil /\ tid # Nil
  /\ outcome \in Refusals \cup {"running", "killed", "storage", "stopped",
                                "recovered"}
  /\ boot \in Envs \cup {Nil}
  /\ managed \in BOOLEAN /\ recovered \in BOOLEAN
  /\ used \in [stop : 0..MaxStops, back : 0..MaxBack]

Init ==
  /\ now = 0
  /\ state = FALSE
  /\ users = [u \in Users |-> Nil] /\ tokens = [t \in Tokens |-> Nil]
  /\ mode = "down" /\ env = CHOOSE e \in Envs : e.token = Nil
  /\ uid = Nil /\ tid = Nil /\ outcome = "stopped"
  /\ boot = Nil /\ managed = FALSE /\ recovered = FALSE
  /\ used = [stop |-> 0, back |-> 0]

\* The process ends; its deferred Close releases the directory.
Exit(why) ==
  /\ mode' = "down" /\ outcome' = why
  /\ uid' = Nil /\ tid' = Nil

Spend == used.stop < MaxStops /\ used' = [used EXCEPT !.stop = @ + 1]

\* A Set returns and the process goes on; or it fails, and the process ends
\* with the record in the store or not.
Then(next) == mode' = next /\ UNCHANGED <<outcome, uid, tid, used>>

SetToken(record, next) ==
  LET new == [tokens EXCEPT ![tid] = record] IN
  /\ \/ tokens' = new /\ Then(next)
     \/ tokens' \in {tokens, new} /\ Spend /\ Exit("storage")
  /\ UNCHANGED <<state, users>>

SetUser(record, next) ==
  LET new == [users EXCEPT ![uid] = record] IN
  /\ \/ users' = new /\ Then(next)
     \/ users' \in {users, new} /\ Spend /\ Exit("storage")
  /\ UNCHANGED <<state, tokens>>

SetMarker(next) ==
  /\ \/ state' = TRUE /\ Then(next)
     \/ state' \in {state, TRUE} /\ Spend /\ Exit("storage")
  /\ UNCHANGED <<users, tokens>>

-----------------------------------------------------------------------------
(* serve: initializeAuth, then requests. *)

Start(e) ==
  /\ mode = "down"
  /\ mode' = "check" /\ env' = e /\ outcome' = "running"
  /\ UNCHANGED <<now, storeVars, uid, tid, ghosts, used>>

\* Trusting the marker.
CheckInitializedTrusting ==
  /\ mode = "check" /\ state
  /\ mode' = "serving"
  /\ UNCHANGED <<now, storeVars, env, uid, tid, outcome, ghosts, used>>

\* The marker is there: the environment is ignored, but an administrator has
\* to be able to log in.
CheckInitialized ==
  /\ mode = "check" /\ state
  /\ IF hasActiveAdmin(users, tokens, now)
       THEN mode' = "serving" /\ UNCHANGED <<outcome, uid, tid>>
       ELSE Exit("noadmin")
  /\ UNCHANGED <<now, storeVars, env, ghosts, used>>

\* A store without the marker, and an environment without a usable token or
\* one that is not the token of an initialization that stopped half-way.
CheckRefuses ==
  /\ mode = "check" /\ ~state
  /\ \/ env.token = Nil /\ Exit("noenv")
     \/ /\ env.token # Nil /\ tokens[env.token] = Nil
        /\ Count(tokens) # 0 \/ Count(users) # 0
        /\ Exit("unrelated")
     \/ /\ env.token # Nil /\ tokens[env.token] # Nil
        /\ LET token == tokens[env.token] IN
           ~(/\ Count(tokens) = 1 /\ validateTokenRecord(token)
             /\ token.label = "initial" /\ token.expires = Nil)
        /\ Exit("conflict")
  /\ UNCHANGED <<now, storeVars, env, ghosts, used>>

\* Nothing there yet: a new user id for the operator's token.
CheckEmpty ==
  /\ mode = "check" /\ ~state /\ env.token # Nil
  /\ Count(tokens) = 0 /\ Count(users) = 0
  /\ tid' = env.token /\ uid' \in FreshUsers(users, tokens)
  /\ mode' = "token"
  /\ UNCHANGED <<now, storeVars, env, outcome, ghosts, used>>

\* Setting the marker before the user record.
InitTokenMarks ==
  /\ mode = "token"
  /\ tokens' = [tokens EXCEPT ![tid] = NewToken(uid, "initial", now, Nil)]
  /\ state' = TRUE
  /\ Then("user")
  /\ boot' = env
  /\ UNCHANGED <<now, users, env, managed, recovered>>

InitToken ==
  /\ mode = "token"
  /\ SetToken(NewToken(uid, "initial", now, Nil), "user")
  /\ boot' = env
  /\ UNCHANGED <<now, env, managed, recovered>>

\* Resuming without the user id of the token.
CheckResumesNoUser ==
  /\ mode = "check" /\ ~state /\ env.token # Nil
  /\ LET token == tokens[env.token] IN
       /\ token # Nil
       /\ Count(tokens) = 1 /\ validateTokenRecord(token)
       /\ token.label = "initial" /\ token.expires = Nil
  /\ tid' = env.token
  /\ mode' = "user"
  /\ UNCHANGED <<now, storeVars, env, uid, outcome, ghosts, used>>

\* Exactly the token of an earlier attempt: go on with its user id.
CheckResumes ==
  /\ mode = "check" /\ ~state /\ env.token # Nil
  /\ LET token == tokens[env.token] IN
       /\ token # Nil
       /\ Count(tokens) = 1 /\ validateTokenRecord(token)
       /\ token.label = "initial" /\ token.expires = Nil
       /\ uid' = token.user
  /\ tid' = env.token
  /\ mode' = "user"
  /\ UNCHANGED <<now, storeVars, env, outcome, ghosts, used>>

\* Expecting no user record at all when an initialization is resumed.
InitUserOnce ==
  /\ mode = "user"
  /\ IF Count(users) = 0
       THEN SetUser(NewUser(env.name, "admin", now), "marker") /\ boot' = env
       ELSE Exit("conflict") /\ UNCHANGED <<storeVars, used, boot>>
  /\ UNCHANGED <<now, env, managed, recovered>>

\* The user record: write it, or accept exactly the one this initialization
\* would have written.
InitUser ==
  LET user == users[uid]
      accepted == /\ user # Nil /\ Count(users) = 1 /\ validateUserRecord(user)
                  /\ user.name = env.name /\ user.role = "admin"
                  /\ ~user.disabled
      missing == user = Nil /\ Count(users) = 0
  IN
  /\ mode = "user"
  /\ \/ /\ missing
        /\ SetUser(NewUser(env.name, "admin", now), "marker") /\ boot' = env
     \/ /\ accepted
        /\ Then("marker") /\ UNCHANGED <<storeVars, boot>>
     \/ /\ ~missing /\ ~accepted
        /\ Exit("conflict") /\ UNCHANGED <<storeVars, used, boot>>
  /\ UNCHANGED <<now, env, managed, recovered>>

\* The marker.  initializeAuth checks token and user once more before it; after
\* InitUser both are valid.
InitMarker ==
  /\ mode = "marker"
  /\ SetMarker("serving")
  /\ UNCHANGED <<now, env, ghosts>>

\* The server shuts down.
Stop ==
  /\ mode = "serving"
  /\ Exit("stopped")
  /\ UNCHANGED <<now, storeVars, env, ghosts, used>>

-----------------------------------------------------------------------------
(* Changes by administrators while the server runs. *)

Manages ==
  /\ mode = "serving" /\ hasActiveAdmin(users, tokens, now)
  /\ Spend
  /\ managed' = TRUE /\ recovered' = FALSE
  /\ UNCHANGED <<now, state, procVars, boot>>

ManageUser(u) ==
  /\ Manages
  /\ users[u] # Nil /\ validateUserRecord(users[u])
  /\ \E r \in Roles, d \in BOOLEAN :
       users' = [users EXCEPT ![u].role = r, ![u].disabled = d,
                              ![u].updated = now]
  /\ UNCHANGED tokens

ManageToken(t) ==
  /\ Manages
  /\ \/ tokens[t] # Nil /\ tokens' = [tokens EXCEPT ![t] = Nil]
     \/ /\ tokens[t] = Nil /\ t \notin InitTokens
        /\ \E u \in Users, e \in (now + 1)..MaxClock \cup {Nil} :
             /\ Enabled(users[u])
             /\ tokens' = [tokens EXCEPT ![t] = NewToken(u, "other", now, e)]
  /\ UNCHANGED users

-----------------------------------------------------------------------------
(* medb auth recover *)

\* Open, then a new user id and a new token.
Recover(n) ==
  /\ mode = "down"
  /\ uid' \in FreshUsers(users, tokens)
  /\ tid' \in {t \in Tokens \ InitTokens : tokens[t] = Nil}
  /\ env' = [token |-> Nil, name |-> n]
  /\ mode' = "rtoken" /\ outcome' = "running"
  /\ UNCHANGED <<now, storeVars, ghosts, used>>

RecoverToken ==
  /\ mode = "rtoken"
  /\ SetToken(NewToken(uid, "recovery", now, Nil), "ruser")
  /\ boot' = Nil
  /\ UNCHANGED <<now, env, managed, recovered>>

\* The user's timestamps are the token's: recoverAuth reads the clock once.
RecoverUser ==
  /\ mode = "ruser"
  /\ SetUser(NewUser(env.name, "admin", tokens[tid].created), "rmarker")
  /\ UNCHANGED <<now, env, ghosts>>

\* Recovering without the marker.
RecoverMarkerSkipped ==
  /\ mode = "rmarker"
  /\ Then("rclose")
  /\ UNCHANGED <<now, env, storeVars, ghosts>>

RecoverMarker ==
  /\ mode = "rmarker"
  /\ SetMarker("rclose")
  /\ UNCHANGED <<now, env, ghosts>>

\* The token is printed only after Close has returned no error.
RecoverClose ==
  /\ mode = "rclose"
  /\ \/ Exit("recovered") /\ recovered' = TRUE /\ UNCHANGED used
     \/ Exit("storage") /\ Spend /\ UNCHANGED recovered
  /\ UNCHANGED <<now, env, storeVars, boot, managed>>

-----------------------------------------------------------------------------
Kill ==
  /\ mode # "down"
  /\ Spend /\ Exit("killed")
  /\ UNCHANGED <<now, storeVars, env, ghosts>>

\* The wall clock: time passes, or it is set back.
Clock ==
  /\ \/ now < MaxClock /\ now' = now + 1 /\ UNCHANGED used
     \/ /\ now > 0 /\ used.back < MaxBack
        /\ now' = now - 1 /\ used' = [used EXCEPT !.back = @ + 1]
  /\ UNCHANGED <<storeVars, procVars, ghosts>>

Next ==
  \/ \E e \in Envs : Start(e)
  \/ CheckInitialized \/ CheckRefuses \/ CheckEmpty \/ CheckResumes
  \/ InitToken \/ InitUser \/ InitMarker \/ Stop
  \/ \E u \in Users : ManageUser(u)
  \/ \E t \in Tokens : ManageToken(t)
  \/ \E n \in Names : Recover(n)
  \/ RecoverToken \/ RecoverUser \/ RecoverMarker \/ RecoverClose
  \/ Kill \/ Clock

Spec == Init /\ [][Next]_vars

-----------------------------------------------------------------------------
(* Properties *)

\* An administrator can log in: authenticate accepts a token of his.  What the
\* server asks before it serves is hasActiveAdmin, a second copy of the checks.
AdminCanLogIn ==
  \E t \in Tokens :
    /\ Active(tokens[t], now)
    /\ Enabled(users[tokens[t].user])
    /\ users[tokens[t].user].role = "admin"

\* The marker is written last: as long as no administrator has changed the
\* records, a store with the marker has an administrator who can log in, no
\* matter where initialization or recovery stopped before.
MarkerMeansAdmin == (state /\ ~managed) => AdminCanLogIn

\* A server that begins to serve has an administrator who can log in.
ServesWithAdmin ==
  [][(mode # "serving" /\ mode' = "serving") => state' /\ AdminCanLogIn']_vars

\* An initialization that stopped half-way can be finished: started again with
\* the environment under which its last record was written, the server does
\* not call its own records unrelated or conflicting.
NotRefused == outcome \in {"unrelated", "conflict"} => env # boot

\* And by that environment only: nobody goes on from its token with another
\* one, and nobody comes to the marker with another administrator's name.
NotTakenOver ==
  boot # Nil =>
    /\ mode \in {"user", "marker"} => env.token = boot.token
    /\ mode = "marker" => env = boot

\* A half-way initialization belongs to its environment (initializeAuth).
ResumesBootstrap == NotRefused /\ NotTakenOver

\* Recovery brings the server back: once recover has printed a credential, the
\* server is not refused until an administrator changes something.
RecoverSuffices == recovered => outcome \notin Refusals
=============================================================================

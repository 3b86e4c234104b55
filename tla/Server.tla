------------------------------- MODULE Server -------------------------------
(***************************************************************************)
(* Processes that serve one database directory, from medb.Open to their    *)
(* exit status: the creation and the lock of the directory, the handlers   *)
(* in flight, a storage failure, a signal, the graceful shutdown and its   *)
(* timeout, DB.Close, and kills.                                           *)
(*                                                                         *)
(* Of the database only this is kept: whether it is closed, whether DB.run *)
(* has an error, and who waits for a commit; GroupCommit has the rest.     *)
(* Authentication of requests is the subject of AuthRequests, and the      *)
(* files' of Storage.  A request that ServeHTTP refuses at once changes    *)
(* nothing and is no action; `auth recover' opens and closes the database  *)
(* as a server does that fails to listen.                                  *)
(***************************************************************************)
EXTENDS Integers, FiniteSets

CONSTANTS
  Procs,      \* processes started with the same --dir
  Handlers,   \* requests in flight at a time
  Nil,        \* nobody, no answer
  MaxStarts,  \* bound: starts of a process
  MaxFails,   \* bound: failures of system calls, of the listener and of auth
  MaxKills    \* bound: processes killed

VARIABLES
  dir,      \* the directory's entry in its parent: "none", "cached", "durable"
  holder,   \* the process that holds the flock, or Nil
  logOpen,  \* the processes that have wal.log open
  srv,      \* the state of each process
  req,      \* the state of each handler goroutine
  used      \* starts, failures and kills so far

vars == <<dir, holder, logOpen, srv, req, used>>

\* What a request is answered: 204, 200 with documents, 200 as if there were no
\* documents, 401 to a valid credential, 413, 503, 500.
Answers == {"stored", "read", "nothing", "denied", "toolarge", "unavailable", "storage"}

Notable == {"nothing", "denied", "storage"}   \* those that a property is about

ASSUME ServerAssumption ==
  /\ Nil \notin Procs /\ Nil \notin Answers
  /\ MaxStarts \in Nat /\ MaxFails \in Nat /\ MaxKills \in Nat

Fresh == [pc |-> "mkdir", closed |-> FALSE, broken |-> FALSE,
          signal |-> FALSE, serveErr |-> FALSE, failureCh |-> FALSE,
          failureOnce |-> FALSE, unavailable |-> FALSE, shuttingDown |-> FALSE,
          err |-> FALSE, shutdownErr |-> FALSE,
          told |-> {},          \* which notable answers reached a client
          cut |-> FALSE,        \* a request it let in got no answer
          status |-> "none"]
Idle == [pc |-> "idle", proc |-> Nil, ans |-> Nil, conn |-> TRUE]

\* Where a process is.
Labels == {"mkdir", "mksync", "lock", "openlog", "load", "auth", "listen",
           "started", "select", "flag", "shutdown", "httpclose", "close",
           "drain", "logclose", "unlock", "return", "off"}

Process ==
  [pc : Labels, closed : BOOLEAN, broken : BOOLEAN, signal : BOOLEAN,
   serveErr : BOOLEAN, failureCh : BOOLEAN, failureOnce : BOOLEAN,
   unavailable : BOOLEAN, shuttingDown : BOOLEAN, err : BOOLEAN,
   shutdownErr : BOOLEAN, told : SUBSET Notable, cut : BOOLEAN,
   status : {"none", "ok", "error", "killed"}]
Request ==
  [pc : {"idle", "run", "wait", "failed", "answer"}, proc : Procs \cup {Nil},
   ans : Answers \cup {Nil}, conn : BOOLEAN]

\* Every variable keeps its shape; a handler has an answer exactly when it is
\* about to write it.
TypeOK ==
  /\ dir \in {"none", "cached", "durable"}
  /\ holder \in Procs \cup {Nil} /\ logOpen \subseteq Procs
  /\ srv \in [Procs -> Process] /\ req \in [Handlers -> Request]
  /\ \A h \in Handlers : req[h].pc = "answer" <=> req[h].ans # Nil
  /\ used \in [starts : 0..MaxStarts, fails : 0..MaxFails, kills : 0..MaxKills]

Init ==
  /\ dir = "none" /\ holder = Nil /\ logOpen = {}
  /\ srv = [p \in Procs |-> [Fresh EXCEPT !.pc = "off"]]
  /\ req = [h \in Handlers |-> Idle]
  /\ used = [starts |-> 0, fails |-> 0, kills |-> 0]

At(p, l) == srv[p].pc = l
GoTo(p, l) == srv' = [srv EXCEPT ![p].pc = l]
Mine(p) == {h \in Handlers : req[h].pc # "idle" /\ req[h].proc = p}
Waiting(p) == {h \in Mine(p) : req[h].pc = "wait"}
\* The waiting callers of p go on, to answer a or, with Nil, with an error.
Wake(p, a) ==
  req' = [h \in Handlers |->
            IF h \notin Waiting(p) THEN req[h]
            ELSE [req[h] EXCEPT !.pc = IF a = Nil THEN "failed" ELSE "answer", !.ans = a]]
Uses(field) == used' = [used EXCEPT ![field] = @ + 1]
\* A step of serve fails and p goes on at l with an error to report.
FailsTo(p, l) ==
  /\ used.fails < MaxFails /\ Uses("fails")
  /\ srv' = [srv EXCEPT ![p].pc = l, ![p].err = TRUE]

-----------------------------------------------------------------------------
(* Open *)

Start(p) ==
  /\ At(p, "off") /\ used.starts < MaxStarts
  /\ srv' = [srv EXCEPT ![p] = Fresh]
  /\ Uses("starts")
  /\ UNCHANGED <<dir, holder, logOpen, req>>

\* MkdirAll: a directory that exists is taken as it is.
Mkdir(p) ==
  /\ At(p, "mkdir")
  /\ \/ /\ IF dir = "none" THEN dir' = "cached" /\ GoTo(p, "mksync")
                           ELSE UNCHANGED dir /\ GoTo(p, "lock")
        /\ UNCHANGED used
     \/ FailsTo(p, "return") /\ UNCHANGED dir
  /\ UNCHANGED <<holder, logOpen, req>>

\* MkdirAll: the sync of the parent.
MkdirSync(p) ==
  /\ At(p, "mksync")
  /\ \/ dir' = "durable" /\ GoTo(p, "lock") /\ UNCHANGED used
     \/ FailsTo(p, "return") /\ UNCHANGED dir
  /\ UNCHANGED <<holder, logOpen, req>>

\* The lock file is opened, then flock with LOCK_NB: ErrLocked ends the process.
Acquire(p) ==
  /\ At(p, "lock")
  /\ \/ holder = Nil /\ holder' = p /\ GoTo(p, "openlog") /\ UNCHANGED used
     \/ /\ holder # Nil
        /\ srv' = [srv EXCEPT ![p].pc = "return", ![p].err = TRUE]
        /\ UNCHANGED <<holder, used>>
     \/ FailsTo(p, "return") /\ UNCHANGED holder
  /\ UNCHANGED <<dir, logOpen, req>>

\* openLog; after an error only the lock is released.
OpenLog(p) ==
  /\ At(p, "openlog")
  /\ \/ logOpen' = logOpen \cup {p} /\ GoTo(p, "load") /\ UNCHANGED used
     \/ FailsTo(p, "unlock") /\ UNCHANGED logOpen
  /\ UNCHANGED <<dir, holder, req>>

\* load, replayLog and writeSnapshot; after an error log and lock are closed.
Load(p) ==
  /\ At(p, "load")
  /\ \/ GoTo(p, "auth") /\ UNCHANGED used
     \/ FailsTo(p, "logclose")
  /\ UNCHANGED <<dir, holder, logOpen, req>>

-----------------------------------------------------------------------------
(* serve *)

\* prepareAuthentication; an error leads to the deferred Close.
Authenticate(p) ==
  /\ At(p, "auth")
  /\ \/ GoTo(p, "listen") /\ UNCHANGED used
     \/ FailsTo(p, "close")
  /\ UNCHANGED <<dir, holder, logOpen, req>>

\* net.Listen, and the goroutine that calls Serve.
Listen(p) ==
  /\ At(p, "listen")
  /\ \/ GoTo(p, "started") /\ UNCHANGED used
     \/ FailsTo(p, "close")
  /\ UNCHANGED <<dir, holder, logOpen, req>>

\* serve reaches its select; requests may have come before.
Select(p) ==
  /\ At(p, "started")
  /\ GoTo(p, "select")
  /\ UNCHANGED <<dir, holder, logOpen, req, used>>

\* SIGINT or SIGTERM cancels the context, which only the select looks at: an
\* earlier signal acts as one that comes when the listener has started.
Signal(p) ==
  /\ srv[p].pc \in {"started", "select"} /\ ~srv[p].signal
  /\ srv' = [srv EXCEPT ![p].signal = TRUE]
  /\ UNCHANGED <<dir, holder, logOpen, req, used>>

\* The listener breaks and Serve returns.
ServeFails(p) ==
  /\ srv[p].pc \in {"started", "select"} /\ ~srv[p].serveErr
  /\ used.fails < MaxFails /\ Uses("fails")
  /\ srv' = [srv EXCEPT ![p].serveErr = TRUE]
  /\ UNCHANGED <<dir, holder, logOpen, req>>

\* One ready case of the select, whichever.
Selected(p) ==
  /\ At(p, "select")
  /\ \/ srv[p].signal /\ GoTo(p, "flag")
     \/ /\ srv[p].failureCh
        /\ srv' = [srv EXCEPT ![p].pc = "flag", ![p].err = TRUE, ![p].failureCh = FALSE]
     \/ /\ srv[p].serveErr
        /\ srv' = [srv EXCEPT ![p].pc = "flag", ![p].err = TRUE, ![p].serveErr = FALSE]
  /\ UNCHANGED <<dir, holder, logOpen, req, used>>

BeginShutdown(p) ==
  /\ At(p, "flag")
  /\ srv' = [srv EXCEPT ![p].pc = "shutdown", ![p].shuttingDown = TRUE]
  /\ UNCHANGED <<dir, holder, logOpen, req, used>>

\* Shutdown returns nil when no request is left.
ShutdownDone(p) ==
  /\ At(p, "shutdown") /\ Mine(p) = {}
  /\ GoTo(p, "close")
  /\ UNCHANGED <<dir, holder, logOpen, req, used>>

\* Not closing the connections after a timeout.
ShutdownTimeoutOnly(p) ==
  /\ At(p, "shutdown") /\ Mine(p) # {}
  /\ srv' = [srv EXCEPT ![p].pc = "close", ![p].shutdownErr = TRUE]
  /\ UNCHANGED <<dir, holder, logOpen, req, used>>

ShutdownTimeout(p) ==
  /\ At(p, "shutdown") /\ Mine(p) # {}
  /\ srv' = [srv EXCEPT ![p].pc = "httpclose", ![p].shutdownErr = TRUE]
  /\ UNCHANGED <<dir, holder, logOpen, req, used>>

\* httpServer.Close: the connections are gone, the handlers go on.
HttpClose(p) ==
  /\ At(p, "httpclose")
  /\ GoTo(p, "close")
  /\ req' = [h \in Handlers |-> [req[h] EXCEPT !.conn = @ /\ h \notin Mine(p)]]
  /\ UNCHANGED <<dir, holder, logOpen, used>>

\* DB.Close: closed is set under mu.
CloseLock(p) ==
  /\ At(p, "close")
  /\ srv' = [srv EXCEPT ![p].pc = "drain", ![p].closed = TRUE]
  /\ UNCHANGED <<dir, holder, logOpen, req, used>>

\* Dropping the error of Close.
DrainQuietly(p) ==
  /\ At(p, "drain")
  /\ \/ ~srv[p].broken /\ Wake(p, "stored") /\ GoTo(p, "logclose") /\ UNCHANGED used
     \/ srv[p].broken /\ Wake(p, Nil) /\ GoTo(p, "logclose") /\ UNCHANGED used
  /\ UNCHANGED <<dir, holder, logOpen>>

\* DB.Close waits for run's last round, which writes what is queued, and
\* returns DB.failed; serve keeps the first error it has.
Drain(p) ==
  /\ At(p, "drain")
  /\ \/ /\ ~srv[p].broken /\ Wake(p, "stored")
        /\ GoTo(p, "logclose") /\ UNCHANGED used
     \/ /\ srv[p].broken /\ Wake(p, Nil)
        /\ srv' = [srv EXCEPT ![p].pc = "logclose", ![p].err = TRUE]
        /\ UNCHANGED used
     \/ /\ ~srv[p].broken /\ Wake(p, Nil)
        /\ used.fails < MaxFails /\ Uses("fails")
        /\ srv' = [srv EXCEPT ![p].pc = "logclose", ![p].err = TRUE, ![p].broken = TRUE]
  /\ UNCHANGED <<dir, holder, logOpen>>

\* Releasing the lock before the log is closed.
LogCloseAfterLock(p) ==
  /\ At(p, "logclose")
  /\ holder' = Nil
  /\ GoTo(p, "unlock") /\ UNCHANGED <<logOpen, used>>
  /\ UNCHANGED <<dir, req>>

\* log.Close, which may report an error.
LogClose(p) ==
  /\ At(p, "logclose")
  /\ logOpen' = logOpen \ {p}
  /\ \/ GoTo(p, "unlock") /\ UNCHANGED used
     \/ FailsTo(p, "unlock")
  /\ UNCHANGED <<dir, holder, req>>

\* flock.Close, which may report an error; the lock file stays.
Unlock(p) ==
  /\ At(p, "unlock")
  /\ holder' = Nil
  /\ \/ GoTo(p, "return") /\ UNCHANGED used
     \/ FailsTo(p, "return")
  /\ UNCHANGED <<dir, logOpen, req>>

\* The process p is gone, with its memory, descriptors and goroutines; what
\* it did is remembered.
Gone(p, status) ==
  /\ srv' = [srv EXCEPT ![p] =
       [Fresh EXCEPT !.pc = "off", !.status = status, !.broken = srv[p].broken,
                     !.told = srv[p].told, !.cut = srv[p].cut \/ Mine(p) # {}]]
  /\ holder' = IF holder = p THEN Nil ELSE holder
  /\ logOpen' = logOpen \ {p}
  /\ req' = [h \in Handlers |-> IF h \in Mine(p) THEN Idle ELSE req[h]]

\* Not reporting that the shutdown timed out.
ReturnCalm(p) ==
  /\ At(p, "return")
  /\ Gone(p, IF srv[p].err THEN "error" ELSE "ok")
  /\ UNCHANGED <<dir, used>>

\* serve returns and main exits: 1 for any error, 0 otherwise.
Return(p) ==
  /\ At(p, "return")
  /\ Gone(p, IF srv[p].err \/ srv[p].shutdownErr THEN "error" ELSE "ok")
  /\ UNCHANGED <<dir, used>>

Kill(p) ==
  /\ ~At(p, "off") /\ used.kills < MaxKills /\ Uses("kills")
  /\ Gone(p, "killed")
  /\ UNCHANGED <<dir>>

-----------------------------------------------------------------------------
(* Requests *)

\* ServeHTTP lets a request in, unless it is to be refused with 503.  Which
\* endpoint it is for matters, and is chosen, when the handler runs.  The
\* requests are those with a valid credential for it.
Begin(h, p) ==
  /\ req[h].pc = "idle"
  /\ srv[p].pc \in {"started", "select", "flag", "shutdown"}
  /\ ~srv[p].shuttingDown /\ ~srv[p].unavailable
  /\ req' = [req EXCEPT ![h] = [Idle EXCEPT !.pc = "run", !.proc = p]]
  /\ UNCHANGED <<dir, holder, logOpen, srv, used>>

Respond(h, a) == req' = [req EXCEPT ![h].pc = "answer", ![h].ans = a]

\* authenticateRequest: after Close both Gets of authenticate return ErrClosed,
\* which is answered like an unknown token.  When they succeed nothing changes
\* that anybody can see, and with --no-auth there are none: the handler runs.
AuthenticateRequest(h) ==
  /\ req[h].pc = "run" /\ srv[req[h].proc].closed
  /\ Respond(h, "denied")
  /\ UNCHANGED <<dir, holder, logOpen, srv, used>>

\* handleGet: Get returns ErrClosed after Close.
HandleGet(h) ==
  /\ req[h].pc = "run"
  /\ Respond(h, IF srv[req[h].proc].closed THEN "unavailable" ELSE "read")
  /\ UNCHANGED <<dir, holder, logOpen, srv, used>>

\* handleHas, handleCount, handleScan, handleCollections: after Close the
\* library reports no documents, and so would the answer.
HandleHas(h) ==
  /\ req[h].pc = "run"
  /\ Respond(h, IF srv[req[h].proc].closed THEN "nothing" ELSE "read")
  /\ UNCHANGED <<dir, holder, logOpen, srv, used>>

\* mutationError without writeFailure for ErrClosed.
HandleWriteMute(h) ==
  /\ req[h].pc = "run"
  /\ LET p == req[h].proc IN
       IF srv[p].closed
         THEN /\ srv' = [srv EXCEPT ![p].unavailable = TRUE]
              /\ req' = [req EXCEPT ![h].pc = "answer"]
         ELSE UNCHANGED srv /\ req' = [req EXCEPT ![h].pc = "wait"]
  /\ UNCHANGED <<dir, holder, logOpen, used>>

\* handleSet, handleDelete, handleDrop up to commit.wait: ErrTooLarge,
\* ErrClosed, or the change is queued.
HandleWrite(h) ==
  /\ req[h].pc = "run"
  /\ LET p == req[h].proc IN
       \/ Respond(h, "toolarge") /\ UNCHANGED srv
       \/ /\ srv[p].closed
          /\ srv' = [srv EXCEPT ![p].unavailable = TRUE]
          /\ Respond(h, "unavailable")
       \/ ~srv[p].closed /\ UNCHANGED srv /\ req' = [req EXCEPT ![h].pc = "wait"]
  /\ UNCHANGED <<dir, holder, logOpen, used>>

\* DB.run of an open database makes the queue durable, or fails it.
Flush(p) ==
  /\ Waiting(p) # {} /\ ~srv[p].closed
  /\ Wake(p, IF srv[p].broken THEN Nil ELSE "stored")
  /\ UNCHANGED <<dir, holder, logOpen, srv, used>>

\* The log or a snapshot cannot be written; DB.run keeps the error.
Break(p) ==
  /\ srv[p].pc \in {"auth", "listen", "started", "select", "flag", "shutdown",
                   "httpclose", "close"}
  /\ ~srv[p].broken /\ used.fails < MaxFails /\ Uses("fails")
  /\ srv' = [srv EXCEPT ![p].broken = TRUE]
  /\ Wake(p, Nil)
  /\ UNCHANGED <<dir, holder, logOpen>>

\* markStorageFailure with a channel that has no buffer.
MarkUnbuffered(h) ==
  /\ req[h].pc = "failed"
  /\ LET p == req[h].proc IN
       srv' = IF srv[p].failureOnce THEN srv
              ELSE [srv EXCEPT ![p].failureOnce = TRUE, ![p].unavailable = TRUE,
                               ![p].failureCh = (srv[p].pc = "select")]
  /\ Respond(h, "storage")
  /\ UNCHANGED <<dir, holder, logOpen, used>>

\* markStorageFailure without the flag that stops later requests.
MarkAvailable(h) ==
  /\ req[h].pc = "failed"
  /\ LET p == req[h].proc IN
       srv' = IF srv[p].failureOnce THEN srv
              ELSE [srv EXCEPT ![p].failureOnce = TRUE, ![p].failureCh = TRUE]
  /\ Respond(h, "storage")
  /\ UNCHANGED <<dir, holder, logOpen, used>>

\* mutationError of a storage error: markStorageFailure, once, then 500.
Mark(h) ==
  /\ req[h].pc = "failed"
  /\ LET p == req[h].proc IN
       srv' = IF srv[p].failureOnce THEN srv
              ELSE [srv EXCEPT ![p].failureOnce = TRUE, ![p].unavailable = TRUE,
                               ![p].failureCh = TRUE]
  /\ Respond(h, "storage")
  /\ UNCHANGED <<dir, holder, logOpen, used>>

\* The answer reaches the client if the connection is still there.
Answer(h) ==
  /\ req[h].pc = "answer"
  /\ LET p == req[h].proc IN
       srv' = IF req[h].conn THEN [srv EXCEPT ![p].told = @ \cup ({req[h].ans} \cap Notable)]
                             ELSE [srv EXCEPT ![p].cut = TRUE]
  /\ req' = [req EXCEPT ![h] = Idle]
  /\ UNCHANGED <<dir, holder, logOpen, used>>

-----------------------------------------------------------------------------
Serve(p) ==
  \/ Mkdir(p) \/ MkdirSync(p) \/ Acquire(p) \/ OpenLog(p) \/ Load(p)
  \/ Authenticate(p) \/ Listen(p) \/ Select(p) \/ Selected(p) \/ BeginShutdown(p)
  \/ ShutdownDone(p) \/ ShutdownTimeout(p) \/ HttpClose(p) \/ CloseLock(p)
  \/ Drain(p) \/ LogClose(p) \/ Unlock(p) \/ Return(p)

Handle(h) ==
  \/ AuthenticateRequest(h)
  \/ HandleGet(h) \/ HandleHas(h) \/ HandleWrite(h) \/ Mark(h) \/ Answer(h)

Next ==
  \/ \E p \in Procs : \/ Start(p) \/ Serve(p) \/ Signal(p) \/ ServeFails(p)
                      \/ Flush(p) \/ Break(p) \/ Kill(p)
  \/ \E h \in Handlers :
       Handle(h) \/ \E p \in Procs : Begin(h, p)

Fairness == \A p \in Procs : WF_vars(Serve(p))

Spec == Init /\ [][Next]_vars
FairSpec == Spec /\ Fairness

-----------------------------------------------------------------------------
(* Properties *)

\* Only the process that holds the lock has the log open, on every path
\* through Open and Close, and after a kill.
OneOwner == \A p \in logOpen : p = holder

\* Exit status 0 means that storage never failed, whether a request, the
\* background goroutine or Close met the failure, and whichever case the
\* select took.
ExitReports ==
  \A p \in Procs : srv[p].status = "ok" => ~srv[p].broken /\ "storage" \notin srv[p].told

\* Exit status 0 means that every request that was let in was answered.
ExitAnswersAll == \A p \in Procs : srv[p].status = "ok" => ~srv[p].cut

\* Has, Count, All and Collections report no documents once the database is
\* closed, and the handlers pass that on as a success; authenticate finds no
\* token and refuses the credential.  No client ever gets such an answer:
\* connections are closed before the database is.
NothingFromClosed == \A p \in Procs : srv[p].told \cap {"nothing", "denied"} = {}

\* After a client was told of a storage failure the server lets no request in.
FailureShutsDoor ==
  [][\A h \in Handlers : (req[h].pc = "idle" /\ req'[h].pc # "idle") =>
       "storage" \notin srv[req'[h].proc].told]_vars

\* A signal, or a storage failure that a request met, ends the process, with
\* handlers that hang and with failures on the way.
Stops == \A p \in Procs :
  (srv[p].signal \/ srv[p].failureOnce) ~> At(p, "off")

\* A client is told that a change is stored only when the directory that holds
\* the database cannot be lost any more.
AckedReachable == \A h \in Handlers : req[h].ans = "stored" => dir = "durable"
=============================================================================

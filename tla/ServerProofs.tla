---------------------------- MODULE ServerProofs ----------------------------
(***************************************************************************)
(* That the safety properties of Server hold for every number of           *)
(* processes and of requests in flight, and for every bound on starts,     *)
(* failures and kills.                                                     *)
(*                                                                         *)
(* The invariant is one about each process by itself (FailInv, DoorInv,    *)
(* ShutInv), one about each handler and the process it runs in (ReqInv),   *)
(* and one about the lock (OwnerInv).  A step changes one process and      *)
(* handlers of that process only, so a step preserves the invariant when   *)
(* the process's new record and its handlers' satisfy their parts: that is *)
(* the lemma ProcessStep, which the proof for every action uses.           *)
(*                                                                         *)
(* At the end, when the database directory is safe from being lost.        *)
(***************************************************************************)
EXTENDS Server, TLAPS

\* From the flock of Open to that of Close.
Owning == {"openlog", "load", "auth", "listen", "started", "select", "flag",
           "shutdown", "httpclose", "close", "drain", "logclose", "unlock"}
\* From openLog to log.Close.
Logging == Owning \ {"openlog", "unlock"}
\* Since connections are gone; where handlers that hang may still run.
Late == {"close", "drain", "logclose", "unlock", "return"}
\* Where a handler may run.
Serving == {"started", "select", "flag", "shutdown", "httpclose"} \cup Late

\* The lock is held exactly between flock and its release, and the log is open
\* only within that.
OwnerInv ==
  /\ \A p \in Procs : holder = p <=> srv[p].pc \in Owning
  /\ \A p \in logOpen : srv[p].pc \in Logging

\* Of a process r: a failure that DB.run keeps is in serve's error once Close
\* has waited for it, and no client is told of a failure that is not kept.
FailInv(r) ==
  /\ r.broken /\ r.pc \in {"logclose", "unlock", "return"} => r.err
  /\ "storage" \in r.told => r.broken
  /\ r.pc # "off" => r.status = "none"
  /\ r.status = "ok" => ~r.broken

\* markStorageFailure refuses further requests before it answers.
DoorInv(r) ==
  r.pc # "off" => /\ r.failureOnce => r.unavailable
                  /\ "storage" \in r.told => r.unavailable

\* A request that got no answer is in serve's error; the database is closed
\* only after the connections.
ShutInv(r) ==
  /\ r.pc = "shutdown" => r.shuttingDown
  /\ r.pc = "httpclose" => r.shutdownErr
  /\ r.cut /\ r.pc # "off" => r.shutdownErr
  /\ r.closed => r.pc \in Late \ {"close"}
  /\ r.status = "ok" => ~r.cut
  /\ "nothing" \notin r.told /\ "denied" \notin r.told

ProcInv(r) == FailInv(r) /\ DoorInv(r) /\ ShutInv(r)

\* Of a handler x in a process r: r lives and has come to its listener; a
\* failure x met is kept, and its answer finds the door shut; a handler that
\* outlives Shutdown has lost its connection, and serve knows.
ReqInv(x, r) ==
  /\ r.pc \in Serving
  /\ x.pc = "failed" \/ x.ans = "storage" => r.broken
  /\ x.ans = "storage" => r.unavailable
  /\ r.pc \in Late => ~x.conn
  /\ ~x.conn => r.shutdownErr
  /\ x.ans \in {"nothing", "denied"} => ~x.conn

\* The inductive invariant.
Parts ==
  /\ \A p \in Procs : ProcInv(srv[p])
  /\ \A h \in Handlers : req[h].pc # "idle" =>
       req[h].proc \in Procs /\ ReqInv(req[h], srv[req[h].proc])
Inv == TypeOK /\ Parts /\ OwnerInv

USE ServerAssumption

\* One process moves to the record s, and handlers change that are or become its own.
LEMMA ProcessStep ==
  ASSUME TypeOK, Parts, NEW p \in Procs, NEW s \in Process,
         srv' = [srv EXCEPT ![p] = s], ProcInv(s), req' \in [Handlers -> Request],
         \A h \in Handlers :
           \/ req'[h] = req[h] /\ h \notin Mine(p)
           \/ req'[h] = Idle
           \/ /\ req'[h].proc = p /\ ReqInv(req'[h], s)
              /\ req'[h].pc = "answer" <=> req'[h].ans # Nil
  PROVE  /\ srv' \in [Procs -> Process]
         /\ \A h \in Handlers : req'[h].pc = "answer" <=> req'[h].ans # Nil
         /\ Parts'
  <1>1. srv' \in [Procs -> Process] /\ srv'[p] = s /\ \A q \in Procs \ {p} : srv'[q] = srv[q]
    BY DEF TypeOK
  <1>2. \A q \in Procs : ProcInv(srv'[q])
    BY <1>1 DEF Parts
  <1>3. ASSUME NEW h \in Handlers
        PROVE  /\ req'[h].pc = "answer" <=> req'[h].ans # Nil
               /\ req'[h].pc # "idle" =>
                    req'[h].proc \in Procs /\ ReqInv(req'[h], srv'[req'[h].proc])
    <2>1. CASE req'[h] = req[h] /\ h \notin Mine(p)
      BY <1>1, <2>1 DEF Mine, Parts, TypeOK
    <2>2. CASE req'[h] = Idle
      BY <2>2 DEF Idle
    <2>3. CASE /\ req'[h].proc = p /\ ReqInv(req'[h], s)
               /\ req'[h].pc = "answer" <=> req'[h].ans # Nil
      BY <1>1, <2>3
    <2>4. QED
      BY <2>1, <2>2, <2>3
  <1>4. QED
    BY <1>1, <1>2, <1>3 DEF Parts

\* Nobody runs in a process that is not serving.
LEMMA Alone ==
  ASSUME Parts, NEW p \in Procs, srv[p].pc \notin Serving
  PROVE  Mine(p) = {}
  BY DEF Parts, Mine, ReqInv

\* A process moves on from r to s and leaves its handlers alone.
Onward(r, s) ==
  /\ s.pc \in Serving
  /\ r.broken => s.broken
  /\ r.unavailable => s.unavailable
  /\ r.shutdownErr => s.shutdownErr
  /\ s.pc \in Late => r.pc \in Late

\* What a handler relies on survives what its process goes on to.
LEMMA OnwardReq ==
  ASSUME NEW x \in Request, NEW r \in Process, NEW s \in Process,
         ReqInv(x, r), Onward(r, s)
  PROVE  ReqInv(x, s)
  BY DEF ReqInv, Onward, Process, Request

\* A process moves and the handlers do not.
LEMMA ProcessMoves ==
  ASSUME TypeOK, Parts, NEW p \in Procs, NEW s \in Process,
         srv' = [srv EXCEPT ![p] = s], ProcInv(s), req' = req,
         Mine(p) = {} \/ Onward(srv[p], s)
  PROVE  /\ srv' \in [Procs -> Process]
         /\ \A h \in Handlers : req'[h].pc = "answer" <=> req'[h].ans # Nil
         /\ Parts'
  <1>1. \A h \in Handlers :
           \/ req'[h] = req[h] /\ h \notin Mine(p)
           \/ /\ req'[h].proc = p /\ ReqInv(req'[h], s)
              /\ req'[h].pc = "answer" <=> req'[h].ans # Nil
    BY OnwardReq DEF TypeOK, Parts, Mine
  <1>2. QED
    BY <1>1, ProcessStep DEF TypeOK

\* Who owns the lock and the log does not change in this step of a process.
LEMMA OwnerKeeps ==
  ASSUME TypeOK, OwnerInv, NEW p \in Procs, NEW s \in Process,
         srv' = [srv EXCEPT ![p] = s], UNCHANGED <<holder, logOpen>>,
         s.pc \in Owning <=> srv[p].pc \in Owning,
         srv[p].pc \in Logging => s.pc \in Logging
  PROVE  OwnerInv'
  BY DEF TypeOK, OwnerInv

-----------------------------------------------------------------------------
(* The steps that move a process on, with or without an error *)

\* After DB.Close has returned, or what stands for it in Open.
Settled == {"logclose", "unlock", "return"}

\* p goes on at l with an error to report.
Errs(p, l) == srv' = [srv EXCEPT ![p].pc = l, ![p].err = TRUE]

\* s is r at label l, perhaps with an error.
Moved(r, s, l) ==
  /\ s.pc = l /\ (r.err => s.err)
  /\ s.closed = r.closed /\ s.broken = r.broken
  /\ s.failureOnce = r.failureOnce /\ s.unavailable = r.unavailable
  /\ s.shuttingDown = r.shuttingDown /\ s.shutdownErr = r.shutdownErr
  /\ s.told = r.told /\ s.cut = r.cut /\ s.status = r.status

\* GoTo and Errs as the change of one record.
LEMMA Moves ==
  ASSUME TypeOK, NEW p \in Procs, NEW l \in Labels, GoTo(p, l) \/ Errs(p, l)
  PROVE  \E s \in Process : /\ srv' = [srv EXCEPT ![p] = s]
                            /\ Moved(srv[p], s, l)
                            /\ Errs(p, l) => s.err
  <1>1. CASE GoTo(p, l) /\ ~Errs(p, l)
    <2> DEFINE s == [srv[p] EXCEPT !.pc = l]
    <2>1. srv[p] \in Process
      BY DEF TypeOK
    <2>2. s \in Process
      BY <2>1, Zenon DEF Process
    <2>3. srv' = [srv EXCEPT ![p] = s] /\ Moved(srv[p], s, l)
      BY <1>1, <2>1 DEF GoTo, Moved, Process
    <2>4. QED
      BY <1>1, <2>2, <2>3
  <1>2. CASE Errs(p, l)
    <2> DEFINE s == [srv[p] EXCEPT !.pc = l, !.err = TRUE]
    <2>1. srv[p] \in Process
      BY DEF TypeOK
    <2>2. s \in Process
      BY <2>1, Zenon DEF Process
    <2>3. srv' = [srv EXCEPT ![p] = s] /\ Moved(srv[p], s, l) /\ s.err
      BY <1>2, <2>1, ZenonT(40) DEF Errs, Moved, Process
    <2>4. QED
      BY <2>2, <2>3
  <1>3. QED
    BY <1>1, <1>2

\* When the moved record keeps its part of the invariant.
LEMMA MovedProc ==
  ASSUME NEW r \in Process, NEW s \in Process, NEW l \in Labels,
         ProcInv(r), Moved(r, s, l), r.pc # "off",
         l \notin {"off", "shutdown", "httpclose"},
         l \in Settled => r.pc \in Settled \/ s.err,
         r.pc \in Late \ {"close"} => l \in Late \ {"close"}
  PROVE  ProcInv(s)
  <1>1. FailInv(s)
    BY DEF ProcInv, FailInv, Moved, Settled, Process
  <1>2. DoorInv(s)
    BY DEF ProcInv, DoorInv, Moved, Process
  <1>3. ShutInv(s)
    BY DEF ProcInv, ShutInv, Moved, Process
  <1>4. QED
    BY <1>1, <1>2, <1>3 DEF ProcInv

\* What GoTo and Errs preserve, from a label where this is safe.
LEMMA Advances ==
  ASSUME TypeOK, Parts, NEW p \in Procs, NEW l \in Labels,
         GoTo(p, l) \/ Errs(p, l), req' = req,
         ~At(p, "off"), l \notin {"off", "shutdown", "httpclose"},
         l \in Settled => srv[p].pc \in Settled \/ Errs(p, l),
         srv[p].pc \in Late \ {"close"} => l \in Late \ {"close"},
         \/ Mine(p) = {}
         \/ l \in Serving /\ (l \in Late => srv[p].pc \in Late)
  PROVE  /\ srv' \in [Procs -> Process]
         /\ \A h \in Handlers : req'[h].pc = "answer" <=> req'[h].ans # Nil
         /\ Parts'
         /\ srv'[p].pc = l /\ \A q \in Procs \ {p} : srv'[q] = srv[q]
  <1>1. PICK s \in Process : /\ srv' = [srv EXCEPT ![p] = s]
                             /\ Moved(srv[p], s, l)
                             /\ Errs(p, l) => s.err
    BY Moves
  <1>2. srv[p] \in Process /\ ProcInv(srv[p])
    BY DEF TypeOK, Parts
  <1>3. ProcInv(s)
    BY <1>1, <1>2, MovedProc DEF At
  <1>4. Mine(p) = {} \/ Onward(srv[p], s)
    BY <1>1, <1>2 DEF Onward, Moved, Process
  <1>5. srv'[p].pc = l /\ \A q \in Procs \ {p} : srv'[q] = srv[q]
    BY <1>1 DEF TypeOK, Moved
  <1>6. QED
    BY <1>1, <1>3, <1>4, <1>5, ProcessMoves

\* The bounds of a step that counts nothing, or one more failure.
LEMMA Counts ==
  ASSUME TypeOK, NEW p \in Procs, NEW l, UNCHANGED used \/ FailsTo(p, l)
  PROVE  used' \in [starts : 0..MaxStarts, fails : 0..MaxFails, kills : 0..MaxKills]
  BY DEF TypeOK, FailsTo, Uses

\* Open, as far as prepareAuthentication and the listener.
LEMMA OpenSteps ==
  ASSUME Inv, NEW p \in Procs,
         \/ Mkdir(p) \/ MkdirSync(p) \/ Acquire(p) \/ OpenLog(p) \/ Load(p)
         \/ Authenticate(p) \/ Listen(p)
  PROVE  Inv'
  <1> USE DEF Inv
  <1>1. Mine(p) = {}
    BY Alone DEF Mkdir, MkdirSync, Acquire, OpenLog, Load, Authenticate, Listen, At, Serving, Late
  <1> USE DEF At
  <1>2. CASE Mkdir(p)
    <2>1. PICK l \in {"mksync", "lock", "return"} :
            \/ GoTo(p, l) /\ l # "return"
            \/ Errs(p, l)
      BY <1>2 DEF Mkdir, FailsTo, Errs
    <2>2. /\ srv' \in [Procs -> Process] /\ Parts'
          /\ \A h \in Handlers : req'[h].pc = "answer" <=> req'[h].ans # Nil
          /\ srv'[p].pc = l /\ \A q \in Procs \ {p} : srv'[q] = srv[q]
      BY <1>1, <1>2, <2>1, Advances DEF Mkdir, Settled, Late, Labels
    <2>3. OwnerInv'
      BY <1>2, <2>2 DEF Mkdir, OwnerInv, Owning, Logging, TypeOK
    <2>4. QED
      BY <1>2, <2>2, <2>3, Counts DEF Mkdir, TypeOK
  <1>3. CASE MkdirSync(p)
    <2>1. PICK l \in {"lock", "return"} :
            \/ GoTo(p, l) /\ l # "return"
            \/ Errs(p, l)
      BY <1>3 DEF MkdirSync, FailsTo, Errs
    <2>2. /\ srv' \in [Procs -> Process] /\ Parts'
          /\ \A h \in Handlers : req'[h].pc = "answer" <=> req'[h].ans # Nil
          /\ srv'[p].pc = l /\ \A q \in Procs \ {p} : srv'[q] = srv[q]
      BY <1>1, <1>3, <2>1, Advances DEF MkdirSync, Settled, Late, Labels
    <2>3. OwnerInv'
      BY <1>3, <2>2 DEF MkdirSync, OwnerInv, Owning, Logging, TypeOK
    <2>4. QED
      BY <1>3, <2>2, <2>3, Counts DEF MkdirSync, TypeOK
  <1>4. CASE Acquire(p)
    <2>1. PICK l \in {"openlog", "return"} :
            \/ GoTo(p, l) /\ l # "return" /\ holder = Nil /\ holder' = p
            \/ Errs(p, l) /\ l = "return" /\ UNCHANGED holder
      BY <1>4 DEF Acquire, FailsTo, Errs
    <2>2. /\ srv' \in [Procs -> Process] /\ Parts'
          /\ \A h \in Handlers : req'[h].pc = "answer" <=> req'[h].ans # Nil
          /\ srv'[p].pc = l /\ \A q \in Procs \ {p} : srv'[q] = srv[q]
      BY <1>1, <1>4, <2>1, Advances DEF Acquire, Settled, Late, Labels
    <2>3. OwnerInv'
      BY <1>4, <2>1, <2>2 DEF Acquire, OwnerInv, Owning, Logging, TypeOK
    <2>4. QED
      BY <1>4, <2>2, <2>3, Counts DEF Acquire, TypeOK
  <1>5. CASE OpenLog(p)
    <2>1. PICK l \in {"load", "unlock"} :
            \/ GoTo(p, l) /\ l # "unlock" /\ logOpen' = logOpen \cup {p}
            \/ Errs(p, l) /\ l = "unlock" /\ UNCHANGED logOpen
      BY <1>5 DEF OpenLog, FailsTo, Errs
    <2>2. /\ srv' \in [Procs -> Process] /\ Parts'
          /\ \A h \in Handlers : req'[h].pc = "answer" <=> req'[h].ans # Nil
          /\ srv'[p].pc = l /\ \A q \in Procs \ {p} : srv'[q] = srv[q]
      BY <1>1, <1>5, <2>1, Advances DEF OpenLog, Settled, Late, Labels
    <2>3. OwnerInv'
      BY <1>5, <2>1, <2>2 DEF OpenLog, OwnerInv, Owning, Logging, TypeOK
    <2>4. QED
      BY <1>5, <2>2, <2>3, Counts DEF OpenLog, TypeOK
  <1>6. CASE Load(p)
    <2>1. PICK l \in {"auth", "logclose"} :
            \/ GoTo(p, l) /\ l # "logclose"
            \/ Errs(p, l)
      BY <1>6 DEF Load, FailsTo, Errs
    <2>2. /\ srv' \in [Procs -> Process] /\ Parts'
          /\ \A h \in Handlers : req'[h].pc = "answer" <=> req'[h].ans # Nil
          /\ srv'[p].pc = l /\ \A q \in Procs \ {p} : srv'[q] = srv[q]
      BY <1>1, <1>6, <2>1, Advances DEF Load, Settled, Late, Labels
    <2>3. OwnerInv'
      BY <1>6, <2>2 DEF Load, OwnerInv, Owning, Logging, TypeOK
    <2>4. QED
      BY <1>6, <2>2, <2>3, Counts DEF Load, TypeOK
  <1>7. CASE Authenticate(p)
    <2>1. PICK l \in {"listen", "close"} :
            \/ GoTo(p, l) /\ l # "close"
            \/ Errs(p, l)
      BY <1>7 DEF Authenticate, FailsTo, Errs
    <2>2. /\ srv' \in [Procs -> Process] /\ Parts'
          /\ \A h \in Handlers : req'[h].pc = "answer" <=> req'[h].ans # Nil
          /\ srv'[p].pc = l /\ \A q \in Procs \ {p} : srv'[q] = srv[q]
      BY <1>1, <1>7, <2>1, Advances DEF Authenticate, Settled, Late, Labels
    <2>3. OwnerInv'
      BY <1>7, <2>2 DEF Authenticate, OwnerInv, Owning, Logging, TypeOK
    <2>4. QED
      BY <1>7, <2>2, <2>3, Counts DEF Authenticate, TypeOK
  <1>8. CASE Listen(p)
    <2>1. PICK l \in {"started", "close"} :
            \/ GoTo(p, l) /\ l # "close"
            \/ Errs(p, l)
      BY <1>8 DEF Listen, FailsTo, Errs
    <2>2. /\ srv' \in [Procs -> Process] /\ Parts'
          /\ \A h \in Handlers : req'[h].pc = "answer" <=> req'[h].ans # Nil
          /\ srv'[p].pc = l /\ \A q \in Procs \ {p} : srv'[q] = srv[q]
      BY <1>1, <1>8, <2>1, Advances DEF Listen, Settled, Late, Labels
    <2>3. OwnerInv'
      BY <1>8, <2>2 DEF Listen, OwnerInv, Owning, Logging, TypeOK
    <2>4. QED
      BY <1>8, <2>2, <2>3, Counts DEF Listen, TypeOK
  <1>9. QED
    BY <1>2, <1>3, <1>4, <1>5, <1>6, <1>7, <1>8

-----------------------------------------------------------------------------
(* serve, from its select to its end *)

\* The steps that only move serve on.
LEMMA PlainSteps ==
  ASSUME Inv, NEW p \in Procs,
         Select(p) \/ ShutdownDone(p) \/ LogClose(p) \/ Unlock(p)
  PROVE  Inv'
  <1> USE DEF Inv, At
  <1>1. CASE Select(p)
    <2>1. GoTo(p, "select") \/ Errs(p, "select")
      BY <1>1 DEF Select, FailsTo, Errs
    <2>2. /\ srv' \in [Procs -> Process] /\ Parts'
          /\ \A h \in Handlers : req'[h].pc = "answer" <=> req'[h].ans # Nil
          /\ srv'[p].pc = "select" /\ \A q \in Procs \ {p} : srv'[q] = srv[q]
      BY <1>1, <2>1, Advances DEF Select, Settled, Serving, Late, Labels
    <2>3. OwnerInv'
      BY <1>1, <2>2 DEF Select, OwnerInv, Owning, Logging, TypeOK
    <2>4. QED
      BY <1>1, <2>2, <2>3, Counts DEF Select, TypeOK
  <1>2. CASE ShutdownDone(p)
    <2>1. GoTo(p, "close") \/ Errs(p, "close")
      BY <1>2 DEF ShutdownDone, FailsTo, Errs
    <2>2. /\ srv' \in [Procs -> Process] /\ Parts'
          /\ \A h \in Handlers : req'[h].pc = "answer" <=> req'[h].ans # Nil
          /\ srv'[p].pc = "close" /\ \A q \in Procs \ {p} : srv'[q] = srv[q]
      BY <1>2, <2>1, Advances DEF ShutdownDone, Settled, Serving, Late, Labels
    <2>3. OwnerInv'
      BY <1>2, <2>2 DEF ShutdownDone, OwnerInv, Owning, Logging, TypeOK
    <2>4. QED
      BY <1>2, <2>2, <2>3, Counts DEF ShutdownDone, TypeOK
  <1>3. CASE LogClose(p)
    <2>1. GoTo(p, "unlock") \/ Errs(p, "unlock")
      BY <1>3 DEF LogClose, FailsTo, Errs
    <2>2. /\ srv' \in [Procs -> Process] /\ Parts'
          /\ \A h \in Handlers : req'[h].pc = "answer" <=> req'[h].ans # Nil
          /\ srv'[p].pc = "unlock" /\ \A q \in Procs \ {p} : srv'[q] = srv[q]
      BY <1>3, <2>1, Advances DEF LogClose, Settled, Serving, Late, Labels
    <2>3. OwnerInv'
      BY <1>3, <2>2 DEF LogClose, OwnerInv, Owning, Logging, TypeOK
    <2>4. QED
      BY <1>3, <2>2, <2>3, Counts DEF LogClose, TypeOK
  <1>4. CASE Unlock(p)
    <2>1. GoTo(p, "return") \/ Errs(p, "return")
      BY <1>4 DEF Unlock, FailsTo, Errs
    <2>2. /\ srv' \in [Procs -> Process] /\ Parts'
          /\ \A h \in Handlers : req'[h].pc = "answer" <=> req'[h].ans # Nil
          /\ srv'[p].pc = "return" /\ \A q \in Procs \ {p} : srv'[q] = srv[q]
      BY <1>4, <2>1, Advances DEF Unlock, Settled, Serving, Late, Labels
    <2>3. OwnerInv'
      BY <1>4, <2>2 DEF Unlock, OwnerInv, Owning, Logging, TypeOK
    <2>4. QED
      BY <1>4, <2>2, <2>3, Counts DEF Unlock, TypeOK
  <1>5. QED
    BY <1>1, <1>2, <1>3, <1>4

\* The steps that set a flag of serve, too.
LEMMA FlagSteps ==
  ASSUME Inv, NEW p \in Procs,
         \/ Signal(p) \/ ServeFails(p) \/ Selected(p) \/ BeginShutdown(p)
         \/ ShutdownTimeout(p) \/ CloseLock(p)
  PROVE  Inv'
  <1> USE DEF Inv, At
  <1> DEFINE r == srv[p]
  <1>1. r \in Process /\ ProcInv(r)
    BY DEF TypeOK, Parts
  <1>2. ASSUME NEW s \in Process, srv' = [srv EXCEPT ![p] = s], ProcInv(s), Onward(r, s),
               s.pc \in Logging, r.pc \in Logging, UNCHANGED <<dir, holder, logOpen, req>>,
               used' \in [starts : 0..MaxStarts, fails : 0..MaxFails, kills : 0..MaxKills]
        PROVE  Inv'
    <2>1. OwnerInv'
      BY <1>2, OwnerKeeps DEF Logging
    <2>2. QED
      BY <1>2, <2>1, ProcessMoves DEF TypeOK
  <1>3. CASE Signal(p)
    <2> DEFINE s == [r EXCEPT !.signal = TRUE]
    <2>1. s \in Process
      BY <1>1, Zenon DEF Process, Labels
    <2>2. srv' = [srv EXCEPT ![p] = s]
      BY <1>1, <1>3 DEF Signal, Process
    <2>3. ProcInv(s)
      BY <1>1, <1>3 DEF Signal, ProcInv, FailInv, DoorInv, ShutInv, Late, Process
    <2>4. Onward(r, s) /\ s.pc \in Logging /\ r.pc \in Logging
      BY <1>1, <1>3 DEF Signal, Onward, Serving, Late, Logging, Owning, Process
    <2>5. QED
      BY <1>2, <1>3, <2>1, <2>2, <2>3, <2>4 DEF Signal, TypeOK
  <1>4. CASE ServeFails(p)
    <2> DEFINE s == [r EXCEPT !.serveErr = TRUE]
    <2>1. s \in Process
      BY <1>1, Zenon DEF Process, Labels
    <2>2. srv' = [srv EXCEPT ![p] = s]
      BY <1>1, <1>4 DEF ServeFails, Process
    <2>3. ProcInv(s)
      BY <1>1, <1>4 DEF ServeFails, ProcInv, FailInv, DoorInv, ShutInv, Late, Process
    <2>4. Onward(r, s) /\ s.pc \in Logging /\ r.pc \in Logging
      BY <1>1, <1>4 DEF ServeFails, Onward, Serving, Late, Logging, Owning, Process
    <2>5. used' \in [starts : 0..MaxStarts, fails : 0..MaxFails, kills : 0..MaxKills]
      BY <1>4 DEF ServeFails, Uses, TypeOK
    <2>6. QED
      BY <1>2, <1>4, <2>1, <2>2, <2>3, <2>4, <2>5 DEF ServeFails
  <1>5. CASE BeginShutdown(p)
    <2> DEFINE s == [r EXCEPT !.pc = "shutdown", !.shuttingDown = TRUE]
    <2>1. s \in Process
      BY <1>1, Zenon DEF Process, Labels
    <2>2. srv' = [srv EXCEPT ![p] = s]
      BY <1>1, <1>5 DEF BeginShutdown, Process
    <2>3. ProcInv(s)
      BY <1>1, <1>5 DEF BeginShutdown, ProcInv, FailInv, DoorInv, ShutInv, Late, Process
    <2>4. Onward(r, s) /\ s.pc \in Logging /\ r.pc \in Logging
      BY <1>1, <1>5 DEF BeginShutdown, Onward, Serving, Late, Logging, Owning, Process
    <2>5. QED
      BY <1>2, <1>5, <2>1, <2>2, <2>3, <2>4 DEF BeginShutdown, TypeOK
  <1>6. CASE ShutdownTimeout(p)
    <2> DEFINE s == [r EXCEPT !.pc = "httpclose", !.shutdownErr = TRUE]
    <2>1. s \in Process
      BY <1>1, Zenon DEF Process, Labels
    <2>2. srv' = [srv EXCEPT ![p] = s]
      BY <1>1, <1>6 DEF ShutdownTimeout, Process
    <2>3. ProcInv(s)
      BY <1>1, <1>6 DEF ShutdownTimeout, ProcInv, FailInv, DoorInv, ShutInv, Late, Process
    <2>4. Onward(r, s) /\ s.pc \in Logging /\ r.pc \in Logging
      BY <1>1, <1>6 DEF ShutdownTimeout, Onward, Serving, Late, Logging, Owning, Process
    <2>5. QED
      BY <1>2, <1>6, <2>1, <2>2, <2>3, <2>4 DEF ShutdownTimeout, TypeOK
  <1>7. CASE CloseLock(p)
    <2> DEFINE s == [r EXCEPT !.pc = "drain", !.closed = TRUE]
    <2>1. s \in Process
      BY <1>1, Zenon DEF Process, Labels
    <2>2. srv' = [srv EXCEPT ![p] = s]
      BY <1>1, <1>7 DEF CloseLock, Process
    <2>3. ProcInv(s)
      BY <1>1, <1>7 DEF CloseLock, ProcInv, FailInv, DoorInv, ShutInv, Late, Process
    <2>4. Onward(r, s) /\ s.pc \in Logging /\ r.pc \in Logging
      BY <1>1, <1>7 DEF CloseLock, Onward, Serving, Late, Logging, Owning, Process
    <2>5. QED
      BY <1>2, <1>7, <2>1, <2>2, <2>3, <2>4 DEF CloseLock, TypeOK
  <1>8. CASE Selected(p)
    <2>1. \E s \in Process : /\ srv' = [srv EXCEPT ![p] = s]
                             /\ Moved(r, s, "flag")
      <3>1. CASE GoTo(p, "flag")
        <4> DEFINE s == [r EXCEPT !.pc = "flag"]
        <4>1. s \in Process
          BY <1>1, Zenon DEF Process, Labels
        <4>2. srv' = [srv EXCEPT ![p] = s] /\ Moved(r, s, "flag")
          BY <1>1, <3>1 DEF GoTo, Moved, Process
        <4>3. QED
          BY <4>1, <4>2
      <3>2. CASE srv' = [srv EXCEPT ![p].pc = "flag", ![p].err = TRUE, ![p].failureCh = FALSE]
        <4> DEFINE s == [r EXCEPT !.pc = "flag", !.err = TRUE, !.failureCh = FALSE]
        <4>1. s \in Process
          BY <1>1, Zenon DEF Process, Labels
        <4>2. srv' = [srv EXCEPT ![p] = s] /\ Moved(r, s, "flag")
          BY <1>1, <3>2, ZenonT(40) DEF GoTo, Moved, Process
        <4>3. QED
          BY <4>1, <4>2
      <3>3. CASE srv' = [srv EXCEPT ![p].pc = "flag", ![p].err = TRUE, ![p].serveErr = FALSE]
        <4> DEFINE s == [r EXCEPT !.pc = "flag", !.err = TRUE, !.serveErr = FALSE]
        <4>1. s \in Process
          BY <1>1, Zenon DEF Process, Labels
        <4>2. srv' = [srv EXCEPT ![p] = s] /\ Moved(r, s, "flag")
          BY <1>1, <3>3, ZenonT(40) DEF GoTo, Moved, Process
        <4>3. QED
          BY <4>1, <4>2
      <3>4. QED
        BY <1>8, <3>1, <3>2, <3>3 DEF Selected
    <2>2. PICK s \in Process : srv' = [srv EXCEPT ![p] = s] /\ Moved(r, s, "flag")
      BY <2>1
    <2>3. ProcInv(s)
      BY <1>1, <1>8, <2>2, MovedProc DEF Selected, Settled, Late, Labels
    <2>4. Onward(r, s) /\ s.pc \in Logging /\ r.pc \in Logging
      BY <1>1, <1>8, <2>2 DEF Selected, Moved, Onward, Serving, Late, Logging, Owning, Process
    <2>5. QED
      BY <1>2, <1>8, <2>2, <2>3, <2>4 DEF Selected, TypeOK
  <1>9. QED
    BY <1>3, <1>4, <1>5, <1>6, <1>7, <1>8

-----------------------------------------------------------------------------
(* The steps that wake or cut off handlers *)

\* A handler that DB.run wakes, with an answer or with an error that is kept.
LEMMA Woken ==
  ASSUME NEW x \in Request, NEW y \in Request, NEW s \in Process,
         NEW a \in {"stored", Nil}, ReqInv(x, s), a = Nil => s.broken,
         y = [x EXCEPT !.pc = IF a = Nil THEN "failed" ELSE "answer", !.ans = a]
  PROVE  /\ y.proc = x.proc /\ ReqInv(y, s)
         /\ y.pc = "answer" <=> y.ans # Nil
  BY DEF ReqInv, Request, Answers

\* The runner answers the handlers of its process that wait.
LEMMA WakeStep ==
  ASSUME TypeOK, Parts, NEW p \in Procs, NEW s \in Process,
         srv' = [srv EXCEPT ![p] = s], ProcInv(s),
         Mine(p) = {} \/ Onward(srv[p], s),
         NEW a \in {"stored", Nil}, Wake(p, a), a = Nil => s.broken
  PROVE  /\ srv' \in [Procs -> Process] /\ Parts'
         /\ req' \in [Handlers -> Request]
         /\ \A h \in Handlers : req'[h].pc = "answer" <=> req'[h].ans # Nil
  <1>1. ASSUME NEW x \in Request
        PROVE  [x EXCEPT !.pc = IF a = Nil THEN "failed" ELSE "answer", !.ans = a] \in Request
    BY DEF Request, Answers
  <1>2. req' \in [Handlers -> Request]
    BY <1>1 DEF Wake, TypeOK
  <1>3. ASSUME NEW h \in Handlers
        PROVE  \/ req'[h] = req[h] /\ h \notin Mine(p)
               \/ /\ req'[h].proc = p /\ ReqInv(req'[h], s)
                  /\ req'[h].pc = "answer" <=> req'[h].ans # Nil
    <2>1. CASE h \notin Mine(p)
      BY <2>1 DEF Wake, Waiting
    <2>2. CASE h \in Mine(p)
      <3>1. req[h] \in Request /\ req'[h] \in Request /\ req[h].proc = p
        BY <1>2, <2>2 DEF TypeOK, Mine
      <3>2. ReqInv(req[h], s)
        BY <2>2, <3>1, OnwardReq, SMTT(30) DEF Mine, Parts, TypeOK
      <3>3. CASE h \in Waiting(p)
        BY <3>1, <3>2, <3>3, Woken DEF Wake
      <3>4. CASE h \notin Waiting(p)
        BY <3>1, <3>2, <3>4 DEF Wake, TypeOK
      <3>5. QED
        BY <3>3, <3>4
    <2>3. QED
      BY <2>1, <2>2
  <1>4. QED
    BY <1>2, <1>3, ProcessStep

\* DB.Close: the last round answers every handler that waits, and a failure is
\* returned.
LEMMA DrainStep ==
  ASSUME Inv, NEW p \in Procs, Drain(p)
  PROVE  Inv'
  <1> USE DEF Inv, At
  <1> DEFINE r == srv[p]
  <1>1. r \in Process /\ ProcInv(r) /\ r.pc = "drain"
    BY DEF TypeOK, Parts, Drain
  <1>2. ASSUME NEW s \in Process, srv' = [srv EXCEPT ![p] = s],
               s.pc = "logclose" /\ (s.broken => s.err),
               r.broken => s.broken,
               s.closed = r.closed /\ s.failureOnce = r.failureOnce,
               s.unavailable = r.unavailable /\ s.shutdownErr = r.shutdownErr,
               s.told = r.told /\ s.cut = r.cut /\ s.status = r.status,
               NEW a \in {"stored", Nil}, Wake(p, a), a = Nil => s.broken
        PROVE  Inv'
    <2>1. ProcInv(s)
      BY <1>1, <1>2 DEF ProcInv, FailInv, DoorInv, ShutInv, Late, Process
    <2>2. Onward(r, s)
      BY <1>1, <1>2 DEF Onward, Serving, Late, Process
    <2>3. OwnerInv'
      BY <1>1, <1>2, OwnerKeeps DEF Drain, Owning, Logging
    <2>4. used' \in [starts : 0..MaxStarts, fails : 0..MaxFails, kills : 0..MaxKills]
      BY DEF Drain, Uses, TypeOK
    <2>5. QED
      BY <1>2, <2>1, <2>2, <2>3, <2>4, WakeStep, ZenonT(40) DEF Drain, TypeOK
  <1>3. CASE ~r.broken /\ Wake(p, "stored") /\ GoTo(p, "logclose")
    <2> DEFINE s == [r EXCEPT !.pc = "logclose"]
    <2>1. s \in Process
      BY <1>1, Zenon DEF Process, Labels
    <2>2. srv' = [srv EXCEPT ![p] = s]
      BY <1>1, <1>3 DEF GoTo, Process
    <2>3. Moved(r, s, "logclose") /\ ~s.broken
      BY <1>1, <1>3 DEF Moved, Process
    <2>4. QED
      BY <1>2, <1>3, <2>1, <2>2, <2>3 DEF Moved, Answers
  <1>4. CASE r.broken /\ Wake(p, Nil) /\ Errs(p, "logclose")
    <2> DEFINE s == [r EXCEPT !.pc = "logclose", !.err = TRUE]
    <2>1. s \in Process
      BY <1>1, Zenon DEF Process, Labels
    <2>2. srv' = [srv EXCEPT ![p] = s]
      BY <1>1, <1>4 DEF Errs, Process
    <2>3. QED
      BY <1>1, <1>2, <1>4, <2>1, <2>2, ZenonT(40) DEF Process
  <1>5. CASE /\ ~r.broken /\ Wake(p, Nil)
             /\ srv' = [srv EXCEPT ![p].pc = "logclose", ![p].err = TRUE, ![p].broken = TRUE]
    <2> DEFINE s == [r EXCEPT !.pc = "logclose", !.err = TRUE, !.broken = TRUE]
    <2>1. s \in Process
      BY <1>1, Zenon DEF Process, Labels
    <2>2. srv' = [srv EXCEPT ![p] = s]
      BY <1>1, <1>5 DEF Process
    <2>3. QED
      BY <1>1, <1>2, <1>5, <2>1, <2>2, ZenonT(40) DEF Process
  <1>6. QED
    BY <1>3, <1>4, <1>5 DEF Drain, Errs

\* A batch becomes durable and its handlers are answered.
LEMMA FlushStep ==
  ASSUME Inv, NEW p \in Procs, Flush(p)
  PROVE  Inv'
  <1> USE DEF Inv
  <1>1. srv[p] \in Process /\ ProcInv(srv[p])
    BY DEF TypeOK, Parts
  <1>2. srv' = [srv EXCEPT ![p] = srv[p]]
    BY DEF Flush, TypeOK
  <1>3. Onward(srv[p], srv[p])
    BY <1>1 DEF Flush, Waiting, Mine, Parts, ReqInv, Onward
  <1>4. PICK a \in {"stored", Nil} : Wake(p, a) /\ (a = Nil => srv[p].broken)
    <2>1. CASE srv[p].broken
      BY <2>1 DEF Flush
    <2>2. CASE ~srv[p].broken
      BY <2>2 DEF Flush, Answers
    <2>3. QED
      BY <2>1, <2>2
  <1>5. OwnerInv'
    BY DEF Flush, OwnerInv
  <1>6. QED
    BY <1>1, <1>2, <1>3, <1>4, <1>5, WakeStep DEF Flush, TypeOK

\* A storage failure is kept and the handlers are told.
LEMMA BreakStep ==
  ASSUME Inv, NEW p \in Procs, Break(p)
  PROVE  Inv'
  <1> USE DEF Inv
  <1> DEFINE r == srv[p]
             s == [r EXCEPT !.broken = TRUE]
  <1>1. r \in Process /\ ProcInv(r)
    BY DEF TypeOK, Parts
  <1>2. s \in Process
    BY <1>1, Zenon DEF Process
  <1>3. srv' = [srv EXCEPT ![p] = s]
    BY <1>1 DEF Break, Process
  <1>4. ProcInv(s)
    BY <1>1 DEF Break, ProcInv, FailInv, DoorInv, ShutInv, Process
  <1>5. Mine(p) = {} \/ Onward(r, s)
    <2>1. r.pc \in Serving => Onward(r, s)
      BY <1>1 DEF Onward, Process
    <2>2. QED
      BY <2>1, Alone
  <1>6. OwnerInv'
    BY <1>1, <1>2, <1>3, OwnerKeeps, ZenonT(40) DEF Break, Process
  <1>7. used' \in [starts : 0..MaxStarts, fails : 0..MaxFails, kills : 0..MaxKills]
    BY DEF Break, Uses, TypeOK
  <1>8. s.broken
    BY <1>1 DEF Process
  <1>9. QED
    BY <1>2, <1>3, <1>4, <1>5, <1>6, <1>7, <1>8, WakeStep DEF Break, TypeOK

\* The connections of the handlers that are left are closed before DB.Close.
LEMMA HttpCloseStep ==
  ASSUME Inv, NEW p \in Procs, HttpClose(p)
  PROVE  Inv'
  <1> USE DEF Inv, At
  <1> DEFINE r == srv[p]
             s == [r EXCEPT !.pc = "close"]
  <1>1. r \in Process /\ ProcInv(r) /\ r.pc = "httpclose"
    BY DEF TypeOK, Parts, HttpClose
  <1>2. s \in Process
    BY <1>1, Zenon DEF Process, Labels
  <1>3. srv' = [srv EXCEPT ![p] = s]
    BY <1>1 DEF HttpClose, GoTo, Process
  <1>4. ProcInv(s)
    BY <1>1 DEF ProcInv, FailInv, DoorInv, ShutInv, Late, Process
  <1>5. ASSUME NEW x \in Request, NEW b \in BOOLEAN
        PROVE  [x EXCEPT !.conn = @ /\ b] \in Request
    <2>1. (x.conn /\ b) \in BOOLEAN
      OBVIOUS
    <2>2. QED
      BY <2>1, Zenon DEF Request
  <1>6. req' \in [Handlers -> Request]
    BY <1>5 DEF HttpClose, TypeOK
  <1>7. ASSUME NEW h \in Handlers
        PROVE  \/ req'[h] = req[h] /\ h \notin Mine(p)
               \/ /\ req'[h].proc = p /\ ReqInv(req'[h], s)
                  /\ req'[h].pc = "answer" <=> req'[h].ans # Nil
    <2>1. req[h] \in Request /\ (req[h].pc = "answer" <=> req[h].ans # Nil)
      BY DEF TypeOK
    <2>2. CASE h \notin Mine(p)
      BY <2>1, <2>2 DEF HttpClose, Request
    <2>3. CASE h \in Mine(p)
      <3>1. req[h].proc = p /\ ReqInv(req[h], r)
        BY <2>3 DEF Mine, Parts
      <3>2. req'[h] = [req[h] EXCEPT !.conn = FALSE]
        BY <2>1, <2>3 DEF HttpClose, Request
      <3>3. QED
        BY <1>1, <2>1, <3>1, <3>2 DEF ProcInv, ShutInv, ReqInv, Serving, Late, Process, Request
    <2>4. QED
      BY <2>2, <2>3
  <1>8. OwnerInv'
    BY <1>1, <1>2, <1>3, OwnerKeeps DEF HttpClose, Owning, Logging, Process
  <1>9. /\ srv' \in [Procs -> Process] /\ Parts'
        /\ \A h \in Handlers : req'[h].pc = "answer" <=> req'[h].ans # Nil
    BY <1>2, <1>3, <1>4, <1>6, <1>7, ProcessStep
  <1>10. QED
    BY <1>6, <1>8, <1>9 DEF HttpClose, TypeOK

-----------------------------------------------------------------------------
(* A process starts or ends *)

\* A new process begins with nothing.
LEMMA StartStep ==
  ASSUME Inv, NEW p \in Procs, Start(p)
  PROVE  Inv'
  <1> USE DEF Inv, At
  <1>1. Fresh \in Process
    BY Zenon DEF Fresh, Process, Labels
  <1>2. ProcInv(Fresh) /\ Fresh.pc = "mkdir"
    BY DEF Fresh, ProcInv, FailInv, DoorInv, ShutInv, Late
  <1>3. Mine(p) = {}
    BY Alone DEF Start, Serving, Late
  <1>4. OwnerInv'
    BY <1>1, <1>2, OwnerKeeps DEF Start, Owning, Logging
  <1>5. used' \in [starts : 0..MaxStarts, fails : 0..MaxFails, kills : 0..MaxKills]
    BY DEF Start, Uses, TypeOK
  <1>6. QED
    BY <1>1, <1>2, <1>3, <1>4, <1>5, ProcessMoves DEF Start, TypeOK

\* An exit status of 0 is given only when the parts of the invariant allow it.
LEMMA GoneStep ==
  ASSUME Inv, NEW p \in Procs, NEW status \in {"ok", "error", "killed"}, Gone(p, status),
         status = "ok" => ~srv[p].broken /\ ~srv[p].cut /\ Mine(p) = {}
  PROVE  /\ srv' \in [Procs -> Process] /\ req' \in [Handlers -> Request]
         /\ holder' \in Procs \cup {Nil} /\ logOpen' \subseteq Procs
         /\ \A h \in Handlers : req'[h].pc = "answer" <=> req'[h].ans # Nil
         /\ Parts' /\ OwnerInv'
  <1> USE DEF Inv
  <1> DEFINE r == srv[p]
             cut == r.cut \/ Mine(p) # {}
             s == [Fresh EXCEPT !.pc = "off", !.status = status, !.broken = r.broken,
                                !.told = r.told, !.cut = cut]
  <1>1. r \in Process /\ ProcInv(r)
    BY DEF TypeOK, Parts
  <1>2. s \in Process
    <2>1. Fresh \in Process
      BY Zenon DEF Fresh, Process, Labels
    <2>2. r.broken \in BOOLEAN /\ r.told \in SUBSET Notable /\ cut \in BOOLEAN
      BY <1>1 DEF Process
    <2>3. QED
      BY <2>1, <2>2, ZenonT(40) DEF Process, Labels
  <1>3. srv' = [srv EXCEPT ![p] = s]
    BY DEF Gone
  <1>4. /\ s.pc = "off" /\ s.status = status /\ s.broken = r.broken
        /\ s.told = r.told /\ s.cut = cut /\ s.closed = FALSE
    BY DEF Fresh
  <1>5. ProcInv(s)
    BY <1>1, <1>4 DEF ProcInv, FailInv, DoorInv, ShutInv
  <1>6. Idle \in Request
    BY DEF Idle, Request
  <1>7. req' \in [Handlers -> Request] /\
        \A h \in Handlers : (req'[h] = req[h] /\ h \notin Mine(p)) \/ req'[h] = Idle
    BY <1>6 DEF Gone, TypeOK
  <1>8. /\ srv' \in [Procs -> Process] /\ Parts'
        /\ \A h \in Handlers : req'[h].pc = "answer" <=> req'[h].ans # Nil
    BY <1>2, <1>3, <1>5, <1>7, ProcessStep
  <1>9. srv'[p].pc = "off" /\ \A q \in Procs \ {p} : srv'[q] = srv[q]
    BY <1>3, <1>4 DEF TypeOK
  <1>10. /\ holder' \in Procs \cup {Nil} /\ logOpen' = logOpen \ {p}
         /\ \A q \in Procs : holder' = q <=> (holder = q /\ q # p)
    BY DEF Gone, TypeOK
  <1>11. OwnerInv'
    BY <1>9, <1>10 DEF OwnerInv, Owning, TypeOK
  <1>12. QED
    BY <1>7, <1>8, <1>10, <1>11 DEF TypeOK

\* A process returns or is killed: the kernel takes its lock back.
LEMMA EndSteps ==
  ASSUME Inv, NEW p \in Procs, Return(p) \/ Kill(p)
  PROVE  Inv'
  <1> USE DEF Inv, At
  <1>1. CASE Return(p)
    <2> DEFINE r == srv[p]
               status == IF r.err \/ r.shutdownErr THEN "error" ELSE "ok"
    <2>1. r \in Process /\ ProcInv(r) /\ r.pc = "return"
      BY <1>1 DEF TypeOK, Parts, Return
    <2>2. Mine(p) # {} => r.shutdownErr
      BY <2>1 DEF Mine, Parts, ReqInv, Late
    <2>3. status = "ok" => ~r.broken /\ ~r.cut /\ Mine(p) = {}
      BY <2>1, <2>2 DEF ProcInv, FailInv, ShutInv
    <2>4. Gone(p, status) /\ UNCHANGED <<dir, used>>
      BY <1>1 DEF Return
    <2>5. status \in {"ok", "error", "killed"}
      OBVIOUS
    <2> HIDE DEF status
    <2>6. QED
      BY <2>3, <2>4, <2>5, GoneStep DEF TypeOK
  <1>2. CASE Kill(p)
    <2>1. used' \in [starts : 0..MaxStarts, fails : 0..MaxFails, kills : 0..MaxKills]
      BY <1>2 DEF Kill, Uses, TypeOK
    <2>2. QED
      BY <1>2, <2>1, GoneStep DEF Kill, TypeOK
  <1>3. QED
    BY <1>1, <1>2

-----------------------------------------------------------------------------
(* Handlers *)

\* A handler h of the process p goes on as y, and p as s.
LEMMA HandlerStep ==
  ASSUME Inv, NEW h \in Handlers, NEW p \in Procs,
         NEW y \in Request, NEW s \in Process,
         req[h].pc # "idle" => req[h].proc = p,
         req' = [req EXCEPT ![h] = y], srv' = [srv EXCEPT ![p] = s],
         s.pc = srv[p].pc, Onward(srv[p], s), ProcInv(s),
         y = Idle \/ /\ y.proc = p /\ ReqInv(y, s)
                     /\ y.pc = "answer" <=> y.ans # Nil,
         UNCHANGED <<dir, holder, logOpen, used>>
  PROVE  Inv'
  <1> USE DEF Inv
  <1>1. req' \in [Handlers -> Request] /\ req'[h] = y
        /\ \A g \in Handlers \ {h} : req'[g] = req[g]
    BY DEF TypeOK
  <1>2. ASSUME NEW g \in Handlers
        PROVE  \/ req'[g] = req[g] /\ g \notin Mine(p)
               \/ req'[g] = Idle
               \/ /\ req'[g].proc = p /\ ReqInv(req'[g], s)
                  /\ req'[g].pc = "answer" <=> req'[g].ans # Nil
    <2>1. CASE g = h
      BY <1>1, <2>1
    <2>2. CASE g # h
      BY <1>1, <2>2, OnwardReq DEF TypeOK, Parts, Mine
    <2>3. QED
      BY <2>1, <2>2
  <1>3. /\ srv' \in [Procs -> Process] /\ Parts'
        /\ \A g \in Handlers : req'[g].pc = "answer" <=> req'[g].ans # Nil
    BY <1>1, <1>2, ProcessStep
  <1>4. OwnerInv'
    BY OwnerKeeps
  <1>5. QED
    BY <1>1, <1>3, <1>4 DEF TypeOK

\* What is known of a handler that runs.
LEMMA Running ==
  ASSUME Inv, NEW h \in Handlers, req[h].pc # "idle"
  PROVE  /\ req[h] \in Request /\ req[h].proc \in Procs
         /\ srv[req[h].proc] \in Process
         /\ ProcInv(srv[req[h].proc]) /\ ReqInv(req[h], srv[req[h].proc])
         /\ Onward(srv[req[h].proc], srv[req[h].proc])
         /\ srv = [srv EXCEPT ![req[h].proc] = srv[req[h].proc]]
         /\ req[h].pc = "answer" <=> req[h].ans # Nil
  BY DEF Inv, TypeOK, Parts, ReqInv, Onward

\* Respond as the change of one record.
LEMMA Responds ==
  ASSUME TypeOK, NEW h \in Handlers, NEW a \in Answers, Respond(h, a)
  PROVE  \E y \in Request : /\ req' = [req EXCEPT ![h] = y]
                            /\ y.pc = "answer" /\ y.ans = a
                            /\ y.proc = req[h].proc /\ y.conn = req[h].conn
  <1> DEFINE y == [req[h] EXCEPT !.pc = "answer", !.ans = a]
  <1>1. req[h] \in Request
    BY DEF TypeOK
  <1>2. y \in Request
    BY <1>1 DEF Request
  <1>3. req' = [req EXCEPT ![h] = y]
    BY <1>1 DEF Respond, Request
  <1>4. QED
    BY <1>1, <1>2, <1>3 DEF Request

\* A read answers from memory, or with nothing once the database is closed; no
\* credential is good by then.
LEMMA ReadSteps ==
  ASSUME Inv, NEW h \in Handlers, HandleGet(h) \/ HandleHas(h) \/ AuthenticateRequest(h)
  PROVE  Inv'
  <1> DEFINE p == req[h].proc
  <1>1. PICK a \in {"read", "unavailable", "nothing", "denied"} :
          Respond(h, a) /\ (a \in {"nothing", "denied"} => srv[p].closed)
    BY DEF HandleGet, HandleHas, AuthenticateRequest
  <1>2. req[h].pc = "run"
    BY DEF HandleGet, HandleHas, AuthenticateRequest
  <1>3. PICK y \in Request : /\ req' = [req EXCEPT ![h] = y]
                             /\ y.pc = "answer" /\ y.ans = a
                             /\ y.proc = req[h].proc /\ y.conn = req[h].conn
    BY <1>1, Responds DEF Answers, Inv
  <1>4. ReqInv(y, srv[p])
    BY <1>1, <1>2, <1>3, Running DEF ReqInv, ProcInv, ShutInv, Late, Process
  <1>5. y.ans # Nil
    BY <1>1, <1>3 DEF Answers
  <1>6. QED
    BY <1>2, <1>3, <1>4, <1>5, Running, HandlerStep DEF HandleGet, HandleHas,
       AuthenticateRequest

\* A write is queued, or refused by a database that failed or closed.
LEMMA WriteStep ==
  ASSUME Inv, NEW h \in Handlers, HandleWrite(h)
  PROVE  Inv'
  <1> DEFINE p == req[h].proc
             r == srv[p]
  <1>1. /\ req[h].pc = "run" /\ req[h] \in Request /\ p \in Procs
        /\ r \in Process /\ ProcInv(r) /\ ReqInv(req[h], r) /\ req[h].ans = Nil
    BY Running DEF HandleWrite
  <1>2. CASE Respond(h, "toolarge") /\ UNCHANGED srv
    <2>1. PICK y \in Request : /\ req' = [req EXCEPT ![h] = y]
                               /\ y.pc = "answer" /\ y.ans = "toolarge"
                               /\ y.proc = req[h].proc /\ y.conn = req[h].conn
      BY <1>2, Responds DEF Answers, Inv
    <2>2. ReqInv(y, r) /\ y.ans # Nil
      BY <1>1, <2>1 DEF ReqInv, Answers
    <2>3. QED
      BY <1>1, <1>2, <2>1, <2>2, Running, HandlerStep DEF HandleWrite
  <1>3. CASE /\ srv' = [srv EXCEPT ![p].unavailable = TRUE]
             /\ Respond(h, "unavailable")
    <2> DEFINE s == [r EXCEPT !.unavailable = TRUE]
    <2>1. PICK y \in Request : /\ req' = [req EXCEPT ![h] = y]
                               /\ y.pc = "answer" /\ y.ans = "unavailable"
                               /\ y.proc = req[h].proc /\ y.conn = req[h].conn
      BY <1>3, Responds DEF Answers, Inv
    <2>2. s \in Process
      BY <1>1, Zenon DEF Process
    <2>3. srv' = [srv EXCEPT ![p] = s]
      BY <1>1, <1>3 DEF Process
    <2>4. ProcInv(s) /\ s.pc = r.pc
      BY <1>1 DEF ProcInv, FailInv, DoorInv, ShutInv, Process
    <2>5. Onward(r, s)
      BY <1>1 DEF Onward, ReqInv, Process
    <2>6. ReqInv(y, s) /\ y.ans # Nil
      BY <1>1, <2>1 DEF ReqInv, Answers, Process
    <2>7. QED
      BY <1>1, <2>1, <2>2, <2>3, <2>4, <2>5, <2>6, HandlerStep DEF HandleWrite
  <1>4. CASE UNCHANGED srv /\ req' = [req EXCEPT ![h].pc = "wait"]
    <2> DEFINE y == [req[h] EXCEPT !.pc = "wait"]
    <2>1. y \in Request
      BY <1>1 DEF Request
    <2>2. req' = [req EXCEPT ![h] = y]
      BY <1>1, <1>4 DEF Request
    <2>3. y.proc = p /\ y.pc = "wait" /\ y.ans = Nil /\ ReqInv(y, r)
      BY <1>1 DEF ReqInv, Request, Answers
    <2>4. QED
      BY <1>1, <1>4, <2>1, <2>2, <2>3, Running, HandlerStep DEF HandleWrite
  <1>5. QED
    BY <1>2, <1>3, <1>4 DEF HandleWrite

\* mutationError shuts the door before the handler answers.
LEMMA MarkStep ==
  ASSUME Inv, NEW h \in Handlers, Mark(h)
  PROVE  Inv'
  <1> DEFINE p == req[h].proc
             r == srv[p]
  <1>1. /\ req[h].pc = "failed" /\ req[h] \in Request /\ p \in Procs
        /\ r \in Process /\ ProcInv(r) /\ ReqInv(req[h], r)
    BY Running DEF Mark
  <1>2. PICK y \in Request : /\ req' = [req EXCEPT ![h] = y]
                             /\ y.pc = "answer" /\ y.ans = "storage"
                             /\ y.proc = req[h].proc /\ y.conn = req[h].conn
    BY Responds, SMTT(30) DEF Mark, Answers, Inv
  <1>3. CASE r.failureOnce
    <2>1. UNCHANGED srv
      BY <1>3 DEF Mark
    <2>2. ReqInv(y, r) /\ y.ans # Nil
      BY <1>1, <1>2, <1>3 DEF ReqInv, ProcInv, DoorInv, Serving, Late, Answers, Process
    <2>3. QED
      BY <1>1, <1>2, <2>1, <2>2, Running, HandlerStep DEF Mark
  <1>4. CASE ~r.failureOnce
    <2> DEFINE s == [r EXCEPT !.failureOnce = TRUE, !.unavailable = TRUE, !.failureCh = TRUE]
    <2>1. s \in Process
      BY <1>1, Zenon DEF Process
    <2>2. srv' = [srv EXCEPT ![p] = s]
      BY <1>1, <1>4 DEF Mark, Process
    <2>3. ProcInv(s) /\ s.pc = r.pc
      BY <1>1 DEF ProcInv, FailInv, DoorInv, ShutInv, Process
    <2>4. Onward(r, s)
      BY <1>1 DEF Onward, ReqInv, Process
    <2>5. ReqInv(y, s) /\ y.ans # Nil
      BY <1>1, <1>2 DEF ReqInv, Answers, Process
    <2>6. QED
      BY <1>1, <1>2, <2>1, <2>2, <2>3, <2>4, <2>5, HandlerStep DEF Mark
  <1>5. QED
    BY <1>3, <1>4

\* The answer leaves for the client.
LEMMA AnswerStep ==
  ASSUME Inv, NEW h \in Handlers, Answer(h)
  PROVE  Inv'
  <1> DEFINE p == req[h].proc
             r == srv[p]
  <1>1. /\ req[h].pc = "answer" /\ req[h] \in Request /\ p \in Procs
        /\ r \in Process /\ ProcInv(r) /\ ReqInv(req[h], r)
    BY Running DEF Answer
  <1>2. Idle \in Request /\ req' = [req EXCEPT ![h] = Idle]
    BY DEF Idle, Request, Answer
  <1>3. CASE req[h].conn
    <2> DEFINE told == r.told \cup ({req[h].ans} \cap Notable)
               s == [r EXCEPT !.told = told]
    <2>1. told \in SUBSET Notable
      BY <1>1 DEF Process
    <2>2. s \in Process
      BY <1>1, <2>1, Zenon DEF Process
    <2>3. srv' = [srv EXCEPT ![p] = s]
      BY <1>1, <1>3 DEF Answer, Process
    <2>4. s.told = told
      BY <1>1 DEF Process
    <2>5. /\ "storage" \in told => "storage" \in r.told \/ req[h].ans = "storage"
          /\ "nothing" \in told => "nothing" \in r.told \/ req[h].ans = "nothing"
          /\ "denied" \in told => "denied" \in r.told \/ req[h].ans = "denied"
      OBVIOUS
    <2> HIDE DEF told
    <2>6. ProcInv(s) /\ s.pc = r.pc
      BY <1>1, <1>3, <2>4, <2>5 DEF ProcInv, FailInv, DoorInv, ShutInv, ReqInv, Process
    <2>7. Onward(r, s)
      BY <1>1 DEF Onward, ReqInv, Process
    <2>8. QED
      BY <1>1, <1>2, <2>2, <2>3, <2>6, <2>7, HandlerStep DEF Answer
  <1>4. CASE ~req[h].conn
    <2> DEFINE s == [r EXCEPT !.cut = TRUE]
    <2>1. s \in Process
      BY <1>1, Zenon DEF Process
    <2>2. srv' = [srv EXCEPT ![p] = s]
      BY <1>1, <1>4 DEF Answer, Process
    <2>3. ProcInv(s) /\ s.pc = r.pc
      BY <1>1, <1>4 DEF ProcInv, FailInv, DoorInv, ShutInv, ReqInv, Serving, Late, Process
    <2>4. Onward(r, s)
      BY <1>1 DEF Onward, ReqInv, Process
    <2>5. QED
      BY <1>1, <1>2, <2>1, <2>2, <2>3, <2>4, HandlerStep DEF Answer
  <1>5. QED
    BY <1>3, <1>4

\* A request arrives at a process that serves.
LEMMA BeginStep ==
  ASSUME Inv, NEW h \in Handlers, NEW p \in Procs, Begin(h, p)
  PROVE  Inv'
  <1> DEFINE y == [Idle EXCEPT !.pc = "run", !.proc = p]
  <1>1. y \in Request /\ y.pc = "run" /\ y.proc = p /\ y.ans = Nil /\ y.conn
    BY DEF Idle, Request
  <1>2. srv[p] \in Process /\ ProcInv(srv[p]) /\ srv = [srv EXCEPT ![p] = srv[p]]
    BY DEF Inv, TypeOK, Parts
  <1>3. ReqInv(y, srv[p]) /\ Onward(srv[p], srv[p])
    BY <1>1, <1>2 DEF Begin, ReqInv, Onward, Serving, Late, Answers
  <1>4. QED
    BY <1>1, <1>2, <1>3, HandlerStep DEF Begin

-----------------------------------------------------------------------------
(* The theorems *)

\* At first no process runs and no request is in flight.
LEMMA InitInv == Init => Inv
  <1> SUFFICES ASSUME Init
               PROVE  Inv
    OBVIOUS
  <1> DEFINE s == [Fresh EXCEPT !.pc = "off"]
  <1>1. s \in Process
    BY Zenon DEF Fresh, Process, Labels
  <1>2. ProcInv(s) /\ s.pc = "off"
    BY DEF Fresh, ProcInv, FailInv, DoorInv, ShutInv
  <1>3. Idle \in Request /\ Idle.pc = "idle" /\ Idle.ans = Nil
    BY DEF Idle, Request
  <1>4. TypeOK
    BY <1>1, <1>3 DEF Init, TypeOK
  <1>5. Parts /\ OwnerInv
    BY <1>2, <1>3 DEF Init, Parts, OwnerInv, Owning
  <1>6. QED
    BY <1>4, <1>5 DEF Inv

\* Every step keeps the invariant.
LEMMA NextInv == Inv /\ [Next]_vars => Inv'
  <1> SUFFICES ASSUME Inv, [Next]_vars
               PROVE  Inv'
    OBVIOUS
  <1>1. ASSUME NEW p \in Procs, Serve(p)
        PROVE  Inv'
    BY <1>1, OpenSteps, PlainSteps, FlagSteps, HttpCloseStep, DrainStep, EndSteps DEF Serve
  <1>2. ASSUME NEW p \in Procs,
               Start(p) \/ Signal(p) \/ ServeFails(p) \/ Flush(p) \/ Break(p) \/ Kill(p)
        PROVE  Inv'
    BY <1>2, StartStep, FlagSteps, FlushStep, BreakStep, EndSteps
  <1>3. ASSUME NEW h \in Handlers, Handle(h)
        PROVE  Inv'
    BY <1>3, ReadSteps, WriteStep, MarkStep, AnswerStep DEF Handle
  <1>4. ASSUME NEW h \in Handlers, NEW p \in Procs, Begin(h, p)
        PROVE  Inv'
    BY <1>4, BeginStep
  <1>5. CASE UNCHANGED vars
    BY <1>5 DEF vars, Inv, TypeOK, Parts, OwnerInv
  <1>6. QED
    BY <1>1, <1>2, <1>3, <1>4, <1>5 DEF Next

\* Inv holds in every reachable state, for any number of processes and requests.
THEOREM InvHolds == Spec => []Inv
  BY InitInv, NextInv, PTL DEF Spec

\* Every variable keeps its shape, and a handler has an answer exactly when it
\* is about to write it.
THEOREM TypeCorrect == Spec => []TypeOK
  <1>1. Inv => TypeOK
    BY DEF Inv
  <1>2. QED
    BY <1>1, InvHolds, PTL

\* However many processes are started on a directory, and wherever they fail or
\* are killed, a process that has wal.log open holds the lock.
THEOREM OneOwnerHolds == Spec => []OneOwner
  <1>1. Inv => OneOwner
    BY DEF Inv, TypeOK, OwnerInv, Logging, OneOwner
  <1>2. QED
    BY <1>1, InvHolds, PTL

\* Exit status 0 means that storage never failed.
THEOREM ExitReportsHolds == Spec => []ExitReports
  <1>1. Inv => ExitReports
    BY DEF Inv, Parts, ProcInv, FailInv, ExitReports
  <1>2. QED
    BY <1>1, InvHolds, PTL

\* Exit status 0 means that every request that was let in was answered.
THEOREM ExitAnswersAllHolds == Spec => []ExitAnswersAll
  <1>1. Inv => ExitAnswersAll
    BY DEF Inv, Parts, ProcInv, ShutInv, ExitAnswersAll
  <1>2. QED
    BY <1>1, InvHolds, PTL

\* No client is told that there are no documents, or that its credential is no
\* good, because the database is closed.
THEOREM NothingFromClosedHolds == Spec => []NothingFromClosed
  <1>1. Inv => NothingFromClosed
    BY DEF Inv, Parts, ProcInv, ShutInv, NothingFromClosed
  <1>2. QED
    BY <1>1, InvHolds, PTL

\* Only Begin lets a request in.
LEMMA OnlyBegin ==
  ASSUME Inv, Next, NEW h \in Handlers, req[h].pc = "idle", req'[h].pc # "idle"
  PROVE  \E p \in Procs : Begin(h, p)
  <1>1. ASSUME NEW p \in Procs, Serve(p) \/ Start(p) \/ Signal(p) \/ ServeFails(p)
                                \/ Flush(p) \/ Break(p) \/ Kill(p)
        PROVE  FALSE
    <2>1. CASE UNCHANGED req
      BY <2>1
    <2>2. CASE \E a : Wake(p, a)
      BY <2>2 DEF Wake, Waiting, Mine
    <2>3. CASE HttpClose(p)
      <3>1. req[h] \in Request
        BY DEF Inv, TypeOK
      <3>2. QED
        BY <2>3, <3>1 DEF HttpClose, Request
    <2>4. CASE \E st : Gone(p, st)
      BY <2>4 DEF Gone, Idle
    <2>5. QED
      BY <1>1, <2>1, <2>2, <2>3, <2>4
         DEF Serve, Start, Signal, ServeFails, Flush, Break, Kill, Mkdir, MkdirSync, Acquire,
             OpenLog, Load, Authenticate, Listen, Select, Selected, BeginShutdown,
             ShutdownDone, ShutdownTimeout, CloseLock, Drain, LogClose, Unlock, Return
  <1>2. ASSUME NEW g \in Handlers, Handle(g)
        PROVE  FALSE
    <2>1. req[g].pc # "idle"
      BY <1>2, SMTT(30) DEF Handle, AuthenticateRequest, HandleGet, HandleHas,
         HandleWrite, Mark, Answer
    <2>2. PICK y : req' = [req EXCEPT ![g] = y]
      BY <1>2 DEF Handle, AuthenticateRequest, HandleGet, HandleHas,
         HandleWrite, Mark, Answer, Respond
    <2>3. QED
      BY <2>1, <2>2, SMTT(30) DEF Inv, TypeOK
  <1>3. ASSUME NEW g \in Handlers, NEW p \in Procs, Begin(g, p)
        PROVE  g = h
    BY <1>3 DEF Begin, Inv, TypeOK
  <1>4. QED
    BY <1>1, <1>2, <1>3 DEF Next

\* Once a client was told of a storage failure no request is let in any more.
THEOREM FailureShutsDoorHolds == Spec => FailureShutsDoor
  <1> DEFINE Door == \A h \in Handlers : (req[h].pc = "idle" /\ req'[h].pc # "idle") =>
                       "storage" \notin srv[req'[h].proc].told
  <1>1. Inv /\ [Next]_vars => [Door]_vars
    <2> SUFFICES ASSUME Inv, Next, NEW h \in Handlers,
                        req[h].pc = "idle", req'[h].pc # "idle"
                 PROVE  "storage" \notin srv[req'[h].proc].told
      OBVIOUS
    <2>1. PICK p \in Procs : Begin(h, p)
      BY OnlyBegin
    <2>2. req'[h].proc = p
      BY <2>1 DEF Begin, Idle, Inv, TypeOK
    <2>3. ProcInv(srv[p]) /\ srv[p].pc # "off" /\ ~srv[p].unavailable
      BY <2>1 DEF Begin, Inv, Parts
    <2>4. QED
      BY <2>2, <2>3 DEF ProcInv, DoorInv
  <1>2. QED
    BY <1>1, InvHolds, PTL DEF Spec, FailureShutsDoor

-----------------------------------------------------------------------------
(* The database directory *)

\* Nothing comes between the creation of the directory and the sync of its
\* parent: only one process is ever started, or one at a time and none is
\* killed or fails.
Undisturbed ==
  \/ MaxStarts <= 1
  \/ MaxKills = 0 /\ MaxFails = 0 /\ \A p, q \in Procs : p = q

\* As long as the directory may be lost nobody is past MkdirAll and processes
\* come one at a time; and once it is there nobody is about to find it.
ReachInv ==
  dir # "durable" =>
    /\ \A h \in Handlers : req[h].pc = "idle"
    /\ \A p \in Procs : srv[p].pc \in {"off", "mkdir", "mksync", "return"}
    /\ \A p, q \in Procs : ~At(p, "off") /\ ~At(q, "off") => p = q
    /\ \A p \in Procs : ~At(p, "off") => used.starts # 0
    /\ dir = "cached" => /\ \A p \in Procs : ~At(p, "mkdir")
                         /\ used.starts >= MaxStarts \/ \A p \in Procs : At(p, "mksync")

\* The steps that are possible until then.
LEMMA EarlySteps ==
  ASSUME TypeOK, ReachInv, dir # "durable", Next
  PROVE  \E p \in Procs : Start(p) \/ Mkdir(p) \/ MkdirSync(p) \/ Return(p) \/ Kill(p)
  <1>r. /\ \A h \in Handlers : req[h].pc = "idle"
        /\ \A p \in Procs : srv[p].pc \in {"off", "mkdir", "mksync", "return"}
    BY DEF ReachInv
  <1>1. ASSUME NEW p \in Procs, Serve(p)
        PROVE  Mkdir(p) \/ MkdirSync(p) \/ Return(p)
    <2>1. srv[p].pc \in {"off", "mkdir", "mksync", "return"}
      BY <1>r
    <2>2. QED
      BY <1>1, <2>1 DEF Serve, At, Acquire, OpenLog, Load, Authenticate, Listen, Select, Selected,
         BeginShutdown, ShutdownDone, ShutdownTimeout, HttpClose, CloseLock, Drain, LogClose, Unlock
  <1>2. ASSUME NEW p \in Procs, Signal(p) \/ ServeFails(p) \/ Flush(p) \/ Break(p)
        PROVE  FALSE
    <2>1. srv[p].pc \in {"off", "mkdir", "mksync", "return"}
      BY <1>r
    <2>2. Waiting(p) = {}
      BY <1>r DEF Waiting, Mine
    <2>3. QED
      BY <1>2, <2>1, <2>2 DEF Signal, ServeFails, Flush, Break
  <1>3. ASSUME NEW h \in Handlers, Handle(h)
        PROVE  FALSE
    BY <1>3, <1>r DEF Handle, AuthenticateRequest, HandleGet, HandleHas,
         HandleWrite, Mark, Answer
  <1>4. ASSUME NEW h \in Handlers, NEW p \in Procs, Begin(h, p)
        PROVE  FALSE
    BY <1>4, <1>r DEF Begin
  <1>5. QED
    BY <1>1, <1>2, <1>3, <1>4 DEF Next

\* What they do to the process that takes them.
LEMMA EarlyMoves ==
  ASSUME TypeOK, NEW p \in Procs
  PROVE  /\ Start(p) => srv'[p].pc = "mkdir" /\ srv[p].pc = "off"
         /\ Return(p) => srv'[p].pc = "off" /\ srv[p].pc = "return"
         /\ Kill(p) => srv'[p].pc = "off" /\ srv[p].pc # "off"
         /\ Mkdir(p) /\ dir = "none" /\ dir' = "cached" =>
              srv'[p].pc = "mksync" /\ srv[p].pc = "mkdir"
         /\ Mkdir(p) /\ dir = "none" /\ dir' # "cached" =>
              srv'[p].pc = "return" /\ srv[p].pc = "mkdir" /\ dir' = dir
         /\ MkdirSync(p) /\ dir' # "durable" =>
              srv'[p].pc = "return" /\ srv[p].pc = "mksync" /\ dir' = dir /\ MaxFails # 0
         /\ Start(p) \/ Return(p) \/ Kill(p) \/ Mkdir(p) \/ MkdirSync(p) =>
              \A q \in Procs : q # p => srv'[q].pc = srv[q].pc
  <1>1. /\ srv \in [Procs -> Process]
        /\ used.fails \in 0..MaxFails /\ MaxFails \in Nat
    BY ServerAssumption DEF TypeOK
  <1>2. Fresh.pc = "mkdir" /\ \A e : [Fresh EXCEPT !.pc = "off", !.status = e,
            !.broken = srv[p].broken, !.told = srv[p].told,
            !.cut = srv[p].cut \/ Mine(p) # {}].pc = "off"
    BY DEF Fresh
  <1>3. Start(p) => /\ srv'[p].pc = "mkdir" /\ srv[p].pc = "off"
                    /\ \A q \in Procs : q # p => srv'[q].pc = srv[q].pc
    BY <1>1, <1>2 DEF Start, At
  <1>4. ASSUME NEW e, Gone(p, e)
        PROVE  /\ srv'[p].pc = "off"
               /\ \A q \in Procs : q # p => srv'[q].pc = srv[q].pc
    BY <1>1, <1>2, <1>4 DEF Gone
  <1>5. ASSUME NEW l, GoTo(p, l) \/ FailsTo(p, l)
        PROVE  /\ srv'[p].pc = l
               /\ \A q \in Procs : q # p => srv'[q].pc = srv[q].pc
    BY <1>1, <1>5 DEF GoTo, FailsTo, Process
  <1>6. ASSUME NEW l, FailsTo(p, l)
        PROVE  MaxFails # 0
    BY <1>1, <1>6 DEF FailsTo
  <1>7. Mkdir(p) => \A q \in Procs : q # p => srv'[q].pc = srv[q].pc
    BY <1>5 DEF Mkdir
  <1>8. /\ Mkdir(p) /\ dir = "none" /\ dir' = "cached" =>
             srv'[p].pc = "mksync" /\ srv[p].pc = "mkdir"
        /\ Mkdir(p) /\ dir = "none" /\ dir' # "cached" =>
             srv'[p].pc = "return" /\ srv[p].pc = "mkdir" /\ dir' = dir
    BY <1>5 DEF Mkdir, At
  <1>9. /\ MkdirSync(p) /\ dir' # "durable" =>
             srv'[p].pc = "return" /\ srv[p].pc = "mksync" /\ dir' = dir /\ MaxFails # 0
        /\ MkdirSync(p) => \A q \in Procs : q # p => srv'[q].pc = srv[q].pc
    BY <1>5, <1>6 DEF MkdirSync, At
  <1>10. /\ Return(p) => /\ srv'[p].pc = "off" /\ srv[p].pc = "return"
                          /\ \A q \in Procs : q # p => srv'[q].pc = srv[q].pc
         /\ Kill(p) => /\ srv'[p].pc = "off" /\ srv[p].pc # "off"
                        /\ \A q \in Procs : q # p => srv'[q].pc = srv[q].pc
    BY <1>4 DEF Return, Kill, At
  <1>11. QED
    BY <1>3, <1>7, <1>8, <1>9, <1>10

\* No step leaves the directory unsynced with somebody past it.
LEMMA ReachStep ==
  ASSUME Undisturbed, TypeOK, ReachInv, [Next]_vars
  PROVE  ReachInv'
  <1>t. /\ used \in [starts : 0..MaxStarts, fails : 0..MaxFails, kills : 0..MaxKills]
        /\ MaxStarts \in Nat /\ MaxFails \in Nat /\ MaxKills \in Nat
        /\ dir \in {"none", "cached", "durable"}
    BY ServerAssumption DEF TypeOK
  <1>1. CASE UNCHANGED vars
    BY <1>1 DEF vars, ReachInv, At
  <1>2. CASE dir = "durable" /\ Next
    <2>1. dir' = "durable"
      BY <1>2 DEF Next, Start, Serve, Signal, ServeFails, Flush, Break, Kill, Handle, Begin, Mkdir,
         MkdirSync, Acquire, OpenLog, Load, Authenticate, Listen, Select, Selected, BeginShutdown,
         ShutdownDone, ShutdownTimeout, HttpClose, CloseLock, Drain, LogClose, Unlock, Return,
         AuthenticateRequest, HandleGet, HandleHas, HandleWrite, Mark, Answer
    <2>2. QED
      BY <2>1 DEF ReachInv
  <1>3. CASE dir # "durable" /\ Next
    <2> SUFFICES ASSUME dir' # "durable" PROVE ReachInv'
      BY DEF ReachInv
    <2>1. PICK p \in Procs : Start(p) \/ Mkdir(p) \/ MkdirSync(p) \/ Return(p) \/ Kill(p)
      BY <1>3, EarlySteps
    <2>2. /\ \A h \in Handlers : req[h].pc = "idle"
          /\ \A q \in Procs : srv[q].pc \in {"off", "mkdir", "mksync", "return"}
          /\ \A q, r \in Procs : ~At(q, "off") /\ ~At(r, "off") => q = r
          /\ \A q \in Procs : ~At(q, "off") => used.starts # 0
          /\ dir = "cached" => /\ \A q \in Procs : ~At(q, "mkdir")
                               /\ used.starts >= MaxStarts \/ \A q \in Procs : At(q, "mksync")
      BY <1>3 DEF ReachInv
    <2>3. \A q \in Procs : q # p => srv'[q].pc = srv[q].pc
      BY <2>1, EarlyMoves
    <2>4. \A h \in Handlers : req'[h].pc = "idle"
      <3>1. Mine(p) = {}
        BY <2>2 DEF Mine
      <3>2. req' = req \/ req' = [h \in Handlers |-> req[h]]
        BY <2>1, <3>1 DEF Start, Mkdir, MkdirSync, Return, Kill, Gone
      <3>3. QED
        BY <2>2, <3>2
    <2>5. CASE Start(p)
      <3>1. /\ srv'[p].pc = "mkdir" /\ srv[p].pc = "off" /\ dir' = dir
            /\ used.starts < MaxStarts /\ used'.starts = used.starts + 1
        BY <1>t, <2>5, EarlyMoves DEF Start, Uses
      <3>2. \A q \in Procs : q # p => srv[q].pc = "off"
        <4>1. CASE MaxStarts <= 1
          <5>1. used.starts = 0
            BY <1>t, <3>1, <4>1
          <5>2. QED
            BY <2>2, <5>1 DEF At
        <4>2. CASE \A q, r \in Procs : q = r
          BY <4>2
        <4>3. QED
          BY <4>1, <4>2 DEF Undisturbed
      <3>3. dir # "cached"
        BY <1>t, <2>2, <3>1 DEF At
      <3>4. used'.starts # 0
        BY <1>t, <3>1
      <3>5. QED
        BY <2>3, <2>4, <3>1, <3>2, <3>3, <3>4 DEF ReachInv, At
    <2>6. CASE Mkdir(p)
      <3>1. dir = "none" /\ srv[p].pc = "mkdir"
        BY <1>t, <1>3, <2>2, <2>6 DEF Mkdir, At
      <3>2. used'.starts = used.starts
        BY <1>t, <2>6 DEF Mkdir, FailsTo, Uses
      <3>3. \A q \in Procs : q # p => srv[q].pc = "off"
        BY <2>2, <3>1 DEF At
      <3>4. used.starts # 0
        BY <2>2, <3>1 DEF At
      <3>5. CASE dir' = "cached"
        <4>1. srv'[p].pc = "mksync"
          BY <2>6, <3>1, <3>5, EarlyMoves
        <4>2. used'.starts >= MaxStarts \/ \A q \in Procs : srv'[q].pc = "mksync"
          BY <1>t, <3>2, <3>4, <4>1 DEF Undisturbed
        <4>3. QED
          BY <2>3, <2>4, <3>2, <3>3, <3>4, <4>1, <4>2 DEF ReachInv, At
      <3>6. CASE dir' # "cached"
        <4>1. srv'[p].pc = "return" /\ dir' = dir
          BY <2>6, <3>1, <3>6, EarlyMoves
        <4>2. QED
          BY <2>3, <2>4, <3>2, <3>3, <3>4, <3>6, <4>1 DEF ReachInv, At
      <3>7. QED
        BY <3>5, <3>6
    <2>7. CASE MkdirSync(p)
      <3>1. /\ srv'[p].pc = "return" /\ srv[p].pc = "mksync" /\ dir' = dir /\ MaxFails # 0
        BY <2>7, EarlyMoves
      <3>2. used'.starts = used.starts
        BY <1>t, <2>7 DEF MkdirSync, FailsTo, Uses
      <3>3. /\ \A q \in Procs : q # p => srv[q].pc = "off"
            /\ used.starts # 0
        BY <2>2, <3>1 DEF At
      <3>4. used'.starts >= MaxStarts
        BY <1>t, <3>1, <3>2, <3>3 DEF Undisturbed
      <3>5. QED
        BY <2>3, <2>4, <3>1, <3>2, <3>3, <3>4 DEF ReachInv, At
    <2>8. CASE Return(p) \/ Kill(p)
      <3>1. srv'[p].pc = "off" /\ srv[p].pc # "off" /\ dir' = dir /\ used'.starts = used.starts
        BY <1>t, <2>8, EarlyMoves DEF Return, Kill, Uses
      <3>2. \A q \in Procs : srv'[q].pc = "off"
        BY <2>2, <2>3, <3>1 DEF At
      <3>3. ASSUME dir = "cached" PROVE used'.starts >= MaxStarts
        <4>1. CASE MaxStarts <= 1
          BY <1>t, <2>2, <3>1, <4>1 DEF At
        <4>2. CASE MaxKills = 0
          <5>1. ~Kill(p)
            BY <1>t, <4>2 DEF Kill
          <5>2. srv[p].pc = "return"
            BY <2>8, <5>1, EarlyMoves
          <5>3. QED
            BY <2>2, <3>1, <3>3, <5>2 DEF At
        <4>3. QED
          BY <4>1, <4>2 DEF Undisturbed
      <3>4. QED
        BY <2>4, <3>1, <3>2, <3>3 DEF ReachInv, At
    <2>9. QED
      BY <2>1, <2>5, <2>6, <2>7, <2>8
  <1>4. QED
    BY <1>1, <1>2, <1>3

\* MkdirAll does what Open relies on unless something comes between its two
\* steps: with one process that is not killed and whose calls do not fail, or
\* with a single start, a change is acknowledged only when the directory that
\* holds it cannot be lost.  In every other case it may be: a second start
\* after a kill or a failure, or beside the first one, is enough.
THEOREM ReachableUndisturbed ==
  ASSUME Undisturbed
  PROVE  Spec => []AckedReachable
  <1>1. Init => ReachInv
    BY DEF Init, ReachInv, At, Idle, Fresh
  <1>2. TypeOK /\ ReachInv /\ [Next]_vars => ReachInv'
    BY ReachStep
  <1>3. TypeOK /\ ReachInv => AckedReachable
    <2> SUFFICES ASSUME TypeOK, ReachInv, NEW h \in Handlers, req[h].ans = "stored"
                 PROVE  dir = "durable"
      BY DEF AckedReachable
    <2>1. req[h].pc = "answer"
      BY ServerAssumption DEF TypeOK, Answers
    <2>2. QED
      BY <2>1 DEF ReachInv
  <1>4. QED
    BY TypeCorrect, <1>1, <1>2, <1>3, PTL DEF Spec
=============================================================================

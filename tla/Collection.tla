----------------------------- MODULE Collection -----------------------------
(***************************************************************************)
(* One collection and its concurrent callers: Get, Has, Count, All and     *)
(* DB.Collections under mu.RLock, Set, Delete, Drop and Update under       *)
(* mu.Lock, and Close, which clears the maps when it no longer holds mu.   *)
(*                                                                         *)
(* What happens to a change after DB.enqueue is what DurableWrites         *)
(* promises (GroupCommit implements it), so its actions are taken from     *)
(* there.  A document is the number of the change that stored it.  Whether *)
(* a document decodes into the caller's type is left out.                  *)
(***************************************************************************)
EXTENDS Integers, FiniteSets, FiniteSetsExt

CONSTANTS
  Clients,   \* goroutines that call the collection
  Ids,       \* document ids: numbers, for their order
  MaxRecs,   \* bound: changes made in a behaviour
  Nil        \* no collection, no call

Docs == [Ids -> 0..MaxRecs]
Empty == [i \in Ids |-> 0]
Free == Nil

\* What a call answers.
Replies ==
  {<<"closed">>, <<"error">>, <<"missing">>, <<"done">>}
    \cup {<<t, n>> : t \in {"doc", "updated"}, n \in 0..MaxRecs}
    \cup {<<t, b>> : t \in {"has", "exists"}, b \in BOOLEAN}
    \cup {<<"count", n>> : n \in 0..Cardinality(Ids)}
    \cup {<<"docs", d>> : d \in Docs}

VARIABLES
  colls,    \* the collection in DB.colls, Nil if it has no entry
  writer,   \* who holds DB.mu for writing, or Free
  readers,  \* who holds it for reading
  cleared,  \* Close has cleared DB.colls
  pc,       \* control state of each client
  req,      \* its call
  val,      \* Update: the document that fn gets
  snap,     \* All: the clone of the collection
  left,     \* All: ids still to clone, then still to yield
  res,      \* the call's answer; for All what was and what will be yielded
  saw,      \* the latest change that the client read before it was durable
  applied, durable, failed, change, outcome, phase   \* see DurableWrites

Commit == INSTANCE DurableWrites WITH Writers <- Clients

\* The answers in the terms of AtomicCollection.  All takes effect when it has
\* the lock, before it has copied anything.
Answered == [p \in Clients |->
  CASE pc[p] = "clone" -> <<"docs", IF colls = Nil THEN Empty ELSE colls>>
    [] pc[p] \in {"iter", "unlock", "wait", "ret"} -> res[p]
    [] OTHER -> Nil]
Store == INSTANCE AtomicCollection WITH
  store <- colls, changes <- applied, open <- (phase = "open"), call <- req,
  reply <- Answered

Reads == Store!Reads
Writes == Store!Writes

ASSUME CollectionAssumption ==
  /\ Ids \subseteq Nat /\ IsFiniteSet(Ids) /\ MaxRecs \in Nat
  /\ Nil \notin Clients \cup Docs \cup Reads \cup Writes \cup Replies

allVars  == <<val, snap, left>>
commitVars == <<applied, durable, failed, change, outcome, phase>>
vars == <<colls, writer, readers, cleared, pc, req, allVars, res, saw, commitVars>>

DataOK ==
  /\ colls \in Docs \cup {Nil} /\ cleared \in BOOLEAN
  /\ pc \in [Clients -> {"idle", "called", "read", "clone", "iter",
                         "write", "fn", "unlock", "wait", "ret"}]
  /\ req \in [Clients -> Reads \cup Writes \cup {Nil}]
  /\ res \in [Clients -> Replies \cup {Nil}]
  /\ val \in [Clients -> 0..MaxRecs] /\ saw \in [Clients -> 0..MaxRecs]
  /\ snap \in [Clients -> Docs] /\ left \in [Clients -> SUBSET Ids]
  /\ applied \in 0..MaxRecs /\ durable \in 0..applied /\ failed \in BOOLEAN
  /\ change \in [Clients -> 0..MaxRecs]
  /\ outcome \in [Clients -> {"none", "wait", "ok", "fail"}]
  /\ phase \in {"open", "closing", "clean", "error"}
MutexOK ==
  /\ writer \in Clients \cup {Free}
  /\ readers = {p \in Clients : pc[p] \in {"read", "clone"}}
  /\ \A p \in Clients : writer = p <=> pc[p] \in {"write", "fn", "unlock"}
  /\ writer # Free => readers = {}

\* Every variable keeps its shape, and mu is held by exactly those who are
\* between locking and unlocking it, by one writer or by readers.
TypeOK == DataOK /\ MutexOK

Init ==
  /\ colls = Nil /\ writer = Free /\ readers = {} /\ cleared = FALSE
  /\ pc = [p \in Clients |-> "idle"] /\ req = [p \in Clients |-> Nil]
  /\ val = [p \in Clients |-> 0] /\ snap = [p \in Clients |-> Empty]
  /\ left = [p \in Clients |-> {}] /\ res = [p \in Clients |-> Nil]
  /\ saw = [p \in Clients |-> 0]
  /\ Commit!Init

closed == phase # "open"
GoTo(p, l) == pc' = [pc EXCEPT ![p] = l]
Reply(p, r) == res' = [res EXCEPT ![p] = r]
Saw(p) == saw' = [saw EXCEPT ![p] = IF durable < applied THEN applied ELSE 0]
Doc(i) == IF colls = Nil THEN 0 ELSE colls[i]

\* Changes are bounded, counting the ones that are on their way.
Invoke(p, c) ==
  /\ pc[p] = "idle"
  /\ c \in Writes =>
       applied + Cardinality({q \in Clients : /\ req[q] \in Writes
                              /\ pc[q] \in {"called", "write", "fn"}}) < MaxRecs
  /\ req' = [req EXCEPT ![p] = c]
  /\ GoTo(p, "called")
  /\ UNCHANGED <<colls, writer, readers, cleared, allVars, res, saw, commitVars>>

\* The call's locals and its commit object are gone.
Return(p) ==
  /\ pc[p] = "ret"
  /\ GoTo(p, "idle")
  /\ req' = [req EXCEPT ![p] = Nil] /\ Reply(p, Nil)
  /\ val' = [val EXCEPT ![p] = 0] /\ snap' = [snap EXCEPT ![p] = Empty]
  /\ left' = [left EXCEPT ![p] = {}]
  /\ change' = [change EXCEPT ![p] = 0] /\ outcome' = [outcome EXCEPT ![p] = "none"]
  /\ UNCHANGED <<colls, writer, readers, cleared, saw, applied, durable, failed, phase>>

-----------------------------------------------------------------------------
(* Readers *)

\* What a call answers on a closed database: Get and the changes ErrClosed,
\* the others that there is nothing.
Refused(c) ==
  CASE c.op = "Has" -> <<"has", FALSE>>
    [] c.op = "Count" -> <<"count", 0>>
    [] c.op = "All" -> <<"docs", Empty>>
    [] c.op = "Collections" -> <<"exists", FALSE>>
    [] OTHER -> <<"closed">>

\* RLock, then the test of closed.
RLock(p) ==
  /\ pc[p] = "called" /\ req[p] \in Reads /\ writer = Free
  /\ IF closed
       THEN /\ Reply(p, Refused(req[p])) /\ GoTo(p, "ret")
            /\ UNCHANGED <<readers, allVars, saw>>
       ELSE /\ readers' = readers \cup {p}
            /\ Saw(p)
            /\ GoTo(p, IF req[p].op = "All" THEN "clone" ELSE "read")
            /\ left' = [left EXCEPT ![p] = IF req[p].op = "All" THEN Ids ELSE {}]
            /\ UNCHANGED <<val, snap, res>>
  /\ UNCHANGED <<colls, writer, cleared, req, commitVars>>

\* DB.read, Count or Collections, and RUnlock.
Read(p) ==
  /\ pc[p] = "read"
  /\ LET c == req[p] IN
       Reply(p, CASE c.op = "Get" -> <<"doc", Doc(c.id)>>
                  [] c.op = "Has" -> <<"has", Doc(c.id) # 0>>
                  [] c.op = "Count" -> <<"count", Cardinality({i \in Ids : Doc(i) # 0})>>
                  [] c.op = "Collections" -> <<"exists", colls # Nil>>)
  /\ readers' = readers \ {p}
  /\ GoTo(p, "ret")
  /\ UNCHANGED <<colls, writer, cleared, req, allVars, saw, commitVars>>

\* maps.Clone copies the documents one by one, in any order, under RLock.
Clone(p) ==
  /\ pc[p] = "clone"
  /\ \E i \in left[p] :
       /\ snap' = [snap EXCEPT ![p][i] = Doc(i)]
       /\ left' = [left EXCEPT ![p] = @ \ {i}]
  /\ UNCHANGED <<colls, writer, readers, cleared, pc, req, val, res, saw, commitVars>>

\* RUnlock, and the ids of the clone to iterate over.
Cloned(p) ==
  /\ pc[p] = "clone" /\ left[p] = {}
  /\ readers' = readers \ {p}
  /\ Reply(p, <<"docs", snap[p]>>)
  /\ left' = [left EXCEPT ![p] = {i \in Ids : snap[p][i] # 0}]
  /\ GoTo(p, "iter")
  /\ UNCHANGED <<colls, writer, cleared, req, val, snap, saw, commitVars>>

\* Yield the next document of the clone in ascending order.
Yield(p) ==
  /\ pc[p] = "iter" /\ left[p] # {}
  /\ res' = [res EXCEPT ![p][2][Min(left[p])] = snap[p][Min(left[p])]]
  /\ left' = [left EXCEPT ![p] = @ \ {Min(@)}]
  /\ UNCHANGED <<colls, writer, readers, cleared, pc, req, val, snap, saw, commitVars>>

\* The end of the iteration: nothing is left, or yield returned false.
EndAll(p) ==
  /\ pc[p] = "iter"
  /\ GoTo(p, "ret")
  /\ UNCHANGED <<colls, writer, readers, cleared, req, allVars, res, saw, commitVars>>

-----------------------------------------------------------------------------
(* Writers *)

\* checkDocSize in Set: ErrTooLarge, before mu and closed are looked at.
TooLarge(p) ==
  /\ pc[p] = "called" /\ req[p].op = "Set"
  /\ Reply(p, <<"error">>) /\ GoTo(p, "ret")
  /\ UNCHANGED <<colls, writer, readers, cleared, req, allVars, saw, commitVars>>

\* Lock, then the test of closed.
Lock(p) ==
  /\ pc[p] = "called" /\ req[p] \in Writes /\ writer = Free /\ readers = {}
  /\ IF closed
       THEN Reply(p, Refused(req[p])) /\ GoTo(p, "ret") /\ UNCHANGED writer
       ELSE writer' = p /\ GoTo(p, "write") /\ UNCHANGED res
  /\ UNCHANGED <<colls, readers, cleared, req, allVars, saw, commitVars>>

\* DB.apply.  A set creates the collection, a delete of its last document
\* leaves it empty, a drop removes it.
apply(c, n) ==
  colls' = CASE c.op \in {"Set", "Update"} ->
                  [i \in Ids |-> IF i = c.id THEN n ELSE Doc(i)]
             [] c.op = "Delete" -> IF colls = Nil THEN Nil ELSE [colls EXCEPT ![c.id] = 0]
             [] c.op = "Drop" -> Nil

\* DB.write: apply and enqueue.
Write(p) ==
  /\ pc[p] = "write" /\ req[p].op # "Update"
  /\ apply(req[p], applied + 1)
  /\ Commit!Submit(p)
  /\ Reply(p, <<"done">>) /\ GoTo(p, "unlock")
  /\ UNCHANGED <<writer, readers, cleared, req, allVars, saw>>

\* Returning early without the deferred Unlock.
UpdateReadKeepsLock(p) ==
  /\ pc[p] = "write" /\ req[p].op = "Update"
  /\ IF Doc(req[p].id) = 0
       THEN Reply(p, <<"missing">>) /\ GoTo(p, "ret") /\ UNCHANGED <<writer, val>>
       ELSE /\ val' = [val EXCEPT ![p] = Doc(req[p].id)]
            /\ GoTo(p, "fn") /\ UNCHANGED <<writer, res>>
  /\ Saw(p)
  /\ UNCHANGED <<colls, readers, cleared, req, snap, left, commitVars>>

\* Calling fn without mu.
UpdateReadUnlocks(p) ==
  /\ pc[p] = "write" /\ req[p].op = "Update"
  /\ writer' = Free
  /\ IF Doc(req[p].id) = 0
       THEN Reply(p, <<"missing">>) /\ GoTo(p, "ret") /\ UNCHANGED val
       ELSE val' = [val EXCEPT ![p] = Doc(req[p].id)] /\ GoTo(p, "fn") /\ UNCHANGED res
  /\ Saw(p)
  /\ UNCHANGED <<colls, readers, cleared, req, snap, left, commitVars>>

\* update up to the call of fn: ErrNotFound, or the document for fn.
UpdateRead(p) ==
  /\ pc[p] = "write" /\ req[p].op = "Update"
  /\ IF Doc(req[p].id) = 0
       THEN /\ Reply(p, <<"missing">>) /\ GoTo(p, "ret")
            /\ writer' = Free /\ UNCHANGED val
       ELSE /\ val' = [val EXCEPT ![p] = Doc(req[p].id)]
            /\ GoTo(p, "fn") /\ UNCHANGED <<writer, res>>
  /\ Saw(p)
  /\ UNCHANGED <<colls, readers, cleared, req, snap, left, commitVars>>

\* fn fails or panics, or its result does not encode or is too large.
FnFails(p) ==
  /\ pc[p] = "fn"
  /\ writer' = Free
  /\ Reply(p, <<"error">>) /\ GoTo(p, "ret")
  /\ UNCHANGED <<colls, readers, cleared, req, allVars, saw, commitVars>>

\* The rest of update: the document becomes what fn made of val.
UpdateWrite(p) ==
  /\ pc[p] = "fn"
  /\ apply(req[p], applied + 1)
  /\ Commit!Submit(p)
  /\ Reply(p, <<"updated", val[p]>>) /\ GoTo(p, "unlock")
  /\ UNCHANGED <<writer, readers, cleared, req, allVars, saw>>

Unlock(p) ==
  /\ pc[p] = "unlock"
  /\ writer' = Free
  /\ GoTo(p, "wait")
  /\ UNCHANGED <<colls, readers, cleared, req, allVars, res, saw, commitVars>>

\* Returning nil without commit.wait.
WaitSkipped(p) ==
  /\ pc[p] = "wait"
  /\ outcome' = [outcome EXCEPT ![p] = "ok"]
  /\ GoTo(p, "ret")
  /\ UNCHANGED <<colls, writer, readers, cleared, req, allVars, res, saw,
                 applied, durable, failed, change, phase>>

\* commit.wait.
Wait(p) ==
  /\ pc[p] = "wait"
  /\ Commit!Succeed(p) \/ Commit!Fail(p)
  /\ GoTo(p, "ret")
  /\ UNCHANGED <<colls, writer, readers, cleared, req, allVars, res, saw>>

-----------------------------------------------------------------------------
(* DB.run and Close *)

\* run makes queued changes durable, or fails for good.
Run ==
  /\ phase \in {"open", "closing"}
  /\ Commit!Harden \/ (~failed /\ Commit!Break)
  /\ UNCHANGED <<colls, writer, readers, cleared, pc, req, allVars, res, saw>>

\* Setting closed without mu.
CloseLockUnlocked ==
  /\ Commit!BeginClose
  /\ UNCHANGED <<colls, writer, readers, cleared, pc, req, allVars, res, saw>>

CloseLock ==
  /\ writer = Free /\ readers = {}
  /\ Commit!BeginClose
  /\ UNCHANGED <<colls, writer, readers, cleared, pc, req, allVars, res, saw>>

\* run has ended: its last round made everything durable, or it had failed.
CloseWait ==
  /\ failed \/ durable = applied
  /\ Commit!EndClose
  /\ UNCHANGED <<colls, writer, readers, cleared, pc, req, allVars, res, saw>>

\* clear(db.colls), without mu.
Clear ==
  /\ phase \in {"clean", "error"} /\ ~cleared
  /\ colls' = Nil /\ cleared' = TRUE
  /\ UNCHANGED <<writer, readers, pc, req, allVars, res, saw, commitVars>>

Next ==
  \/ \E p \in Clients :
       \/ \E c \in Reads \cup Writes : Invoke(p, c)
       \/ RLock(p) \/ Read(p) \/ Clone(p) \/ Cloned(p) \/ Yield(p) \/ EndAll(p)
       \/ TooLarge(p) \/ Lock(p) \/ Write(p) \/ UpdateRead(p) \/ FnFails(p)
       \/ UpdateWrite(p) \/ Unlock(p) \/ Wait(p) \/ Return(p)
  \/ Run \/ CloseLock \/ CloseWait \/ Clear

Spec == Init /\ [][Next]_vars

-----------------------------------------------------------------------------
(* Properties *)

\* Every call takes effect at one moment: no update is lost between what fn
\* was given and what it stores, everything an iteration yields was in the
\* collection together, and no read sees the maps that Close has cleared.
Linearizable == Store!Spec

\* Close clears the maps without mu (medb.go:213): by then nobody is where the
\* code looks at them or changes them, and nobody will be.
ClearedAlone ==
  phase \in {"clean", "error"} =>
    \A p \in Clients : pc[p] \notin {"read", "clone", "write", "fn"}

\* A change is visible before it is durable, so a client may act on one that
\* a crash takes back.  But when a change of its own is acknowledged,
\* everything that the client had read is durable as well.
AckCoversReads ==
  \A p \in Clients :
    (pc[p] = "ret" /\ res[p] \in {<<"done">>} \cup {<<"updated", n>> : n \in 1..MaxRecs}
      /\ outcome[p] = "ok") => saw[p] <= durable
=============================================================================

-------------------------- MODULE CollectionProofs --------------------------
(***************************************************************************)
(* That a collection is linearizable, that Close clears its maps alone, and *)
(* that an acknowledged change covers what its caller had read, for any    *)
(* number of callers, documents and changes.                               *)
(*                                                                         *)
(* Between locking mu and unlocking it a call sees one state of the maps:  *)
(* a reader's clone so far agrees with them (CloneInv), and so does the    *)
(* document that Update has handed to fn (UpdateInv).  Nobody is between   *)
(* the two once Close has set closed (ClosedInv).                          *)
(***************************************************************************)
EXTENDS Collection, FiniteSetTheorems, TLAPS

\* After Close has set closed nobody holds mu.
ClosedInv ==
  phase # "open" =>
    \A p \in Clients : pc[p] \notin {"read", "clone", "write", "fn", "unlock"}

\* A client is in a call of the kind that its control state is for.
CallInv ==
  \A p \in Clients :
    /\ pc[p] = "idle" <=> req[p] = Nil
    /\ pc[p] \in {"read", "clone", "iter"} => req[p] \in Reads
    /\ pc[p] \in {"clone", "iter"} => req[p].op = "All"
    /\ pc[p] = "read" => req[p].op # "All"
    /\ pc[p] \in {"write", "fn", "unlock", "wait"} => req[p] \in Writes
    /\ pc[p] = "fn" => req[p].op = "Update"

\* A call that has taken effect has its answer.
ReplyInv ==
  \A p \in Clients : pc[p] \in {"iter", "unlock", "wait", "ret"} => res[p] \in Replies

\* The documents an iteration has cloned are those of the collection, and what
\* it yields is the clone.
CloneInv ==
  \A p \in Clients :
    /\ pc[p] = "clone" => \A i \in Ids \ left[p] : snap[p][i] = Doc(i)
    /\ pc[p] = "iter" => res[p] = <<"docs", snap[p]>>

\* The document that fn was given is the one that is there.
UpdateInv ==
  \A p \in Clients : pc[p] = "fn" => val[p] = Doc(req[p].id) /\ val[p] # 0

\* A change is made after everything its caller has read.
AckInv ==
  \A p \in Clients :
    /\ saw[p] <= applied
    /\ outcome[p] = "wait" <=> pc[p] \in {"unlock", "wait"}
    /\ outcome[p] = "wait" => saw[p] <= change[p]
    /\ outcome[p] = "ok" => pc[p] = "ret" /\ saw[p] <= durable

\* The inductive invariant.
Inv == TypeOK /\ ClosedInv /\ CallInv /\ ReplyInv /\ CloneInv /\ UpdateInv /\ AckInv

USE CollectionAssumption DEF Free

-----------------------------------------------------------------------------
(* Calls, documents and answers *)

\* What a reading call consists of.
LEMMA ReadOps ==
  ASSUME NEW c \in Reads
  PROVE  \/ c.op \in {"Get", "Has"} /\ c.id \in Ids
         \/ c.op \in {"Count", "All", "Collections"}
  BY DEF Reads, Store!Reads

\* What a changing call consists of.
LEMMA WriteOps ==
  ASSUME NEW c \in Writes
  PROVE  \/ c.op \in {"Set", "Delete", "Update"} /\ c.id \in Ids
         \/ c.op = "Drop"
  BY DEF Writes, Store!Writes

\* A document is the number of a change, or 0.
LEMMA DocType ==
  ASSUME DataOK, NEW i \in Ids
  PROVE  Doc(i) \in 0..MaxRecs
  BY DEF DataOK, Doc, Docs

\* The answers, by kind.
LEMMA ReplyTypes ==
  /\ <<"closed">> \in Replies /\ <<"error">> \in Replies
  /\ <<"missing">> \in Replies /\ <<"done">> \in Replies
  /\ \A n \in 0..MaxRecs : <<"doc", n>> \in Replies /\ <<"updated", n>> \in Replies
  /\ \A b \in BOOLEAN : <<"has", b>> \in Replies /\ <<"exists", b>> \in Replies
  /\ \A n \in 0..Cardinality(Ids) : <<"count", n>> \in Replies
  /\ \A d \in Docs : <<"docs", d>> \in Replies
  BY DEF Replies

\* A count of documents is one of them.
LEMMA CountType ==
  ASSUME NEW S \in SUBSET Ids
  PROVE  Cardinality(S) \in 0..Cardinality(Ids)
  <1>1. /\ IsFiniteSet(S) /\ Cardinality(S) <= Cardinality(Ids)
        /\ Cardinality(Ids) \in Nat
    BY FS_Subset, FS_CardinalityType
  <1>2. Cardinality(S) \in Nat
    BY <1>1, FS_CardinalityType
  <1>3. QED
    BY <1>1, <1>2

\* The answers of a closed database.
LEMMA RefusedType ==
  ASSUME NEW c
  PROVE  Refused(c) \in Replies
  <1>1. <<"has", FALSE>> \in Replies /\ <<"exists", FALSE>> \in Replies
    BY ReplyTypes, Zenon
  <1>2. <<"count", 0>> \in Replies
    BY ReplyTypes, FS_CardinalityType
  <1>3. <<"docs", Empty>> \in Replies
    BY ReplyTypes DEF Empty, Docs
  <1>4. <<"closed">> \in Replies
    BY ReplyTypes
  <1>5. CASE c.op \in {"Has", "Count", "All", "Collections"}
    BY <1>1, <1>2, <1>3, <1>5 DEF Refused
  <1>6. CASE c.op \notin {"Has", "Count", "All", "Collections"}
    BY <1>4, <1>6 DEF Refused
  <1>7. QED
    BY <1>5, <1>6

\* What DB.read, Count and Collections answer.
LEMMA ReadReply ==
  ASSUME Inv, NEW p \in Clients, Read(p)
  PROVE  \E r \in Replies : Reply(p, r)
  <1> DEFINE c == req[p]
  <1>1. /\ c \in Reads /\ c.op # "All" /\ DataOK
    BY DEF Read, Inv, CallInv, TypeOK
  <1>2. CASE c.op = "Get"
    <2>1. c.id \in Ids
      BY <1>1, <1>2, ReadOps
    <2>2. <<"doc", Doc(c.id)>> \in Replies
      BY <1>1, <2>1, DocType, ReplyTypes
    <2>3. QED
      BY <1>2, <2>2 DEF Read
  <1>3. CASE c.op = "Has"
    <2>1. (Doc(c.id) # 0) \in BOOLEAN
      OBVIOUS
    <2>2. <<"has", Doc(c.id) # 0>> \in Replies
      BY <2>1, ReplyTypes, Zenon
    <2>3. QED
      BY <1>3, <2>2 DEF Read
  <1>4. CASE c.op = "Count"
    <2>1. <<"count", Cardinality({i \in Ids : Doc(i) # 0})>> \in Replies
      BY CountType, ReplyTypes
    <2>2. QED
      BY <1>4, <2>1 DEF Read
  <1>5. CASE c.op = "Collections"
    <2>1. (colls # Nil) \in BOOLEAN
      OBVIOUS
    <2>2. <<"exists", colls # Nil>> \in Replies
      BY <2>1, ReplyTypes, Zenon
    <2>3. QED
      BY <1>5, <2>2 DEF Read
  <1>6. QED
    BY <1>1, <1>2, <1>3, <1>4, <1>5, ReadOps

\* Yielding a document takes nothing back: the clone does not change.
LEMMA YieldKeeps ==
  ASSUME Inv, NEW p \in Clients, Yield(p)
  PROVE  res' = res
  <1>1. /\ res[p] = <<"docs", snap[p]>> /\ snap[p] \in Docs
        /\ res \in [Clients -> Replies \cup {Nil}]
    BY DEF Yield, Inv, CloneInv, TypeOK, DataOK
  <1> DEFINE m == Min(left[p])
  <1>2. [snap[p] EXCEPT ![m] = snap[p][m]] = snap[p]
    BY <1>1 DEF Docs
  <1>3. [res[p] EXCEPT ![2] = [snap[p] EXCEPT ![m] = snap[p][m]]] = res[p]
    BY <1>1, <1>2
  <1>4. res' = [res EXCEPT ![p] = [res[p] EXCEPT ![2] = [res[p][2] EXCEPT ![m] = snap[p][m]]]]
    BY DEF Yield
  <1>5. res[p][2] = snap[p]
    BY <1>1
  <1>6. QED
    BY <1>1, <1>3, <1>4, <1>5

\* Every step answers at most one call, with one of the answers.
LEMMA ReplySteps ==
  ASSUME Inv, NEW p \in Clients,
         \/ RLock(p) \/ Read(p) \/ Cloned(p) \/ TooLarge(p) \/ Lock(p)
         \/ Write(p) \/ UpdateRead(p) \/ FnFails(p) \/ UpdateWrite(p)
  PROVE  \/ res' = res /\ pc'[p] \in {"read", "clone", "write", "fn"}
         \/ \E r \in Replies : Reply(p, r)
  <1>1. pc \in [Clients -> {"idle", "called", "read", "clone", "iter",
                            "write", "fn", "unlock", "wait", "ret"}]
    BY DEF Inv, TypeOK, DataOK
  <1>2. CASE RLock(p) \/ Lock(p)
    BY <1>1, <1>2, RefusedType DEF RLock, Lock, GoTo
  <1>3. CASE Read(p)
    BY <1>3, ReadReply
  <1>4. CASE Cloned(p)
    <2>1. snap[p] \in Docs
      BY DEF Inv, TypeOK, DataOK
    <2>2. QED
      BY <1>4, <2>1, ReplyTypes DEF Cloned
  <1>5. CASE TooLarge(p) \/ Write(p) \/ FnFails(p)
    BY <1>5, ReplyTypes DEF TooLarge, Write, FnFails
  <1>6. CASE UpdateRead(p)
    BY <1>1, <1>6, ReplyTypes DEF UpdateRead, GoTo
  <1>7. CASE UpdateWrite(p)
    <2>1. val[p] \in 0..MaxRecs
      BY DEF Inv, TypeOK, DataOK
    <2>2. QED
      BY <1>7, <2>1, ReplyTypes DEF UpdateWrite
  <1>8. QED
    BY <1>2, <1>3, <1>4, <1>5, <1>6, <1>7

-----------------------------------------------------------------------------
(* The invariant is inductive *)

\* A call that takes effect gets its answer.
LEMMA ReplyStep == Inv /\ [Next]_vars => res' \in [Clients -> Replies \cup {Nil}] /\ ReplyInv'
  <1> SUFFICES ASSUME Inv, [Next]_vars
               PROVE  res' \in [Clients -> Replies \cup {Nil}] /\ ReplyInv'
    OBVIOUS
  <1> USE DEF Inv, TypeOK, DataOK, ReplyInv, GoTo, Reply, allVars, commitVars
  <1>1. ASSUME NEW p \in Clients, NEW c \in Reads \cup Writes, Invoke(p, c)
        PROVE  res' \in [Clients -> Replies \cup {Nil}] /\ ReplyInv'
    BY <1>1 DEF Invoke
  <1>2. ASSUME NEW p \in Clients, RLock(p)
        PROVE  res' \in [Clients -> Replies \cup {Nil}] /\ ReplyInv'
    <2>1. \/ res' = res /\ pc'[p] \in {"read", "clone", "write", "fn"}
          \/ \E r \in Replies : res' = [res EXCEPT ![p] = r]
      BY <1>2, ReplySteps DEF Reply
    <2>2. \A q \in Clients : q # p => pc'[q] = pc[q]
      BY <1>2 DEF RLock
    <2>3. QED
      BY <2>1, <2>2
  <1>3. ASSUME NEW p \in Clients, Read(p)
        PROVE  res' \in [Clients -> Replies \cup {Nil}] /\ ReplyInv'
    <2>1. \/ res' = res /\ pc'[p] \in {"read", "clone", "write", "fn"}
          \/ \E r \in Replies : res' = [res EXCEPT ![p] = r]
      BY <1>3, ReplySteps DEF Reply
    <2>2. \A q \in Clients : q # p => pc'[q] = pc[q]
      BY <1>3 DEF Read
    <2>3. QED
      BY <2>1, <2>2
  <1>4. ASSUME NEW p \in Clients, Clone(p)
        PROVE  res' \in [Clients -> Replies \cup {Nil}] /\ ReplyInv'
    BY <1>4 DEF Clone
  <1>5. ASSUME NEW p \in Clients, Cloned(p)
        PROVE  res' \in [Clients -> Replies \cup {Nil}] /\ ReplyInv'
    <2>1. \/ res' = res /\ pc'[p] \in {"read", "clone", "write", "fn"}
          \/ \E r \in Replies : res' = [res EXCEPT ![p] = r]
      BY <1>5, ReplySteps DEF Reply
    <2>2. \A q \in Clients : q # p => pc'[q] = pc[q]
      BY <1>5 DEF Cloned
    <2>3. QED
      BY <2>1, <2>2
  <1>6. ASSUME NEW p \in Clients, Yield(p)
        PROVE  res' \in [Clients -> Replies \cup {Nil}] /\ ReplyInv'
    BY <1>6, YieldKeeps DEF Yield
  <1>7. ASSUME NEW p \in Clients, EndAll(p)
        PROVE  res' \in [Clients -> Replies \cup {Nil}] /\ ReplyInv'
    BY <1>7 DEF EndAll
  <1>8. ASSUME NEW p \in Clients, TooLarge(p)
        PROVE  res' \in [Clients -> Replies \cup {Nil}] /\ ReplyInv'
    <2>1. \/ res' = res /\ pc'[p] \in {"read", "clone", "write", "fn"}
          \/ \E r \in Replies : res' = [res EXCEPT ![p] = r]
      BY <1>8, ReplySteps DEF Reply
    <2>2. \A q \in Clients : q # p => pc'[q] = pc[q]
      BY <1>8 DEF TooLarge
    <2>3. QED
      BY <2>1, <2>2
  <1>9. ASSUME NEW p \in Clients, Lock(p)
        PROVE  res' \in [Clients -> Replies \cup {Nil}] /\ ReplyInv'
    <2>1. \/ res' = res /\ pc'[p] \in {"read", "clone", "write", "fn"}
          \/ \E r \in Replies : res' = [res EXCEPT ![p] = r]
      BY <1>9, ReplySteps DEF Reply
    <2>2. \A q \in Clients : q # p => pc'[q] = pc[q]
      BY <1>9 DEF Lock
    <2>3. QED
      BY <2>1, <2>2
  <1>10. ASSUME NEW p \in Clients, Write(p)
        PROVE  res' \in [Clients -> Replies \cup {Nil}] /\ ReplyInv'
    <2>1. \/ res' = res /\ pc'[p] \in {"read", "clone", "write", "fn"}
          \/ \E r \in Replies : res' = [res EXCEPT ![p] = r]
      BY <1>10, ReplySteps DEF Reply
    <2>2. \A q \in Clients : q # p => pc'[q] = pc[q]
      BY <1>10 DEF Write
    <2>3. QED
      BY <2>1, <2>2
  <1>11. ASSUME NEW p \in Clients, UpdateRead(p)
        PROVE  res' \in [Clients -> Replies \cup {Nil}] /\ ReplyInv'
    <2>1. \/ res' = res /\ pc'[p] \in {"read", "clone", "write", "fn"}
          \/ \E r \in Replies : res' = [res EXCEPT ![p] = r]
      BY <1>11, ReplySteps DEF Reply
    <2>2. \A q \in Clients : q # p => pc'[q] = pc[q]
      BY <1>11 DEF UpdateRead
    <2>3. QED
      BY <2>1, <2>2
  <1>12. ASSUME NEW p \in Clients, FnFails(p)
        PROVE  res' \in [Clients -> Replies \cup {Nil}] /\ ReplyInv'
    <2>1. \/ res' = res /\ pc'[p] \in {"read", "clone", "write", "fn"}
          \/ \E r \in Replies : res' = [res EXCEPT ![p] = r]
      BY <1>12, ReplySteps DEF Reply
    <2>2. \A q \in Clients : q # p => pc'[q] = pc[q]
      BY <1>12 DEF FnFails
    <2>3. QED
      BY <2>1, <2>2
  <1>13. ASSUME NEW p \in Clients, UpdateWrite(p)
        PROVE  res' \in [Clients -> Replies \cup {Nil}] /\ ReplyInv'
    <2>1. \/ res' = res /\ pc'[p] \in {"read", "clone", "write", "fn"}
          \/ \E r \in Replies : res' = [res EXCEPT ![p] = r]
      BY <1>13, ReplySteps DEF Reply
    <2>2. \A q \in Clients : q # p => pc'[q] = pc[q]
      BY <1>13 DEF UpdateWrite
    <2>3. QED
      BY <2>1, <2>2
  <1>14. ASSUME NEW p \in Clients, Unlock(p)
        PROVE  res' \in [Clients -> Replies \cup {Nil}] /\ ReplyInv'
    BY <1>14 DEF Unlock
  <1>15. ASSUME NEW p \in Clients, Wait(p)
        PROVE  res' \in [Clients -> Replies \cup {Nil}] /\ ReplyInv'
    BY <1>15 DEF Wait, Commit!Succeed, Commit!Fail
  <1>16. ASSUME NEW p \in Clients, Return(p)
        PROVE  res' \in [Clients -> Replies \cup {Nil}] /\ ReplyInv'
    BY <1>16 DEF Return
  <1>17. CASE Run
    BY <1>17 DEF Run, Commit!Harden, Commit!Break
  <1>18. CASE CloseLock
    BY <1>18 DEF CloseLock, Commit!BeginClose
  <1>19. CASE CloseWait
    BY <1>19 DEF CloseWait, Commit!EndClose
  <1>20. CASE Clear
    BY <1>20 DEF Clear
  <1>21. CASE UNCHANGED vars
    BY <1>21 DEF vars
  <1>22. QED
    BY <1>1, <1>2, <1>3, <1>4, <1>5, <1>6, <1>7, <1>8, <1>9, <1>10, <1>11, <1>12,
       <1>13, <1>14, <1>15, <1>16, <1>17, <1>18, <1>19, <1>20, <1>21 DEF Next

\* The collection is a map or has no entry.
LEMMA CollsStep == Inv /\ [Next]_vars => colls' \in Docs \cup {Nil}
  <1> SUFFICES ASSUME Inv, [Next]_vars
               PROVE  colls' \in Docs \cup {Nil}
    OBVIOUS
  <1> USE DEF Inv, TypeOK, DataOK, allVars, commitVars
  <1>1. ASSUME NEW p \in Clients, NEW c \in Reads \cup Writes, Invoke(p, c)
        PROVE  colls' \in Docs \cup {Nil}
    BY <1>1 DEF Invoke
  <1>2. ASSUME NEW p \in Clients, RLock(p)
        PROVE  colls' \in Docs \cup {Nil}
    BY <1>2 DEF RLock, closed, Saw
  <1>3. ASSUME NEW p \in Clients, Read(p)
        PROVE  colls' \in Docs \cup {Nil}
    BY <1>3 DEF Read
  <1>4. ASSUME NEW p \in Clients, Clone(p)
        PROVE  colls' \in Docs \cup {Nil}
    BY <1>4 DEF Clone
  <1>5. ASSUME NEW p \in Clients, Cloned(p)
        PROVE  colls' \in Docs \cup {Nil}
    BY <1>5 DEF Cloned
  <1>6. ASSUME NEW p \in Clients, Yield(p)
        PROVE  colls' \in Docs \cup {Nil}
    BY <1>6 DEF Yield
  <1>7. ASSUME NEW p \in Clients, EndAll(p)
        PROVE  colls' \in Docs \cup {Nil}
    BY <1>7 DEF EndAll
  <1>8. ASSUME NEW p \in Clients, TooLarge(p)
        PROVE  colls' \in Docs \cup {Nil}
    BY <1>8 DEF TooLarge
  <1>9. ASSUME NEW p \in Clients, Lock(p)
        PROVE  colls' \in Docs \cup {Nil}
    BY <1>9 DEF Lock, closed
  <1>10. ASSUME NEW p \in Clients, Write(p)
        PROVE  colls' \in Docs \cup {Nil}
    <2>1. req[p] \in Writes /\ applied + 1 \in 0..MaxRecs
      BY <1>10 DEF Write, CallInv, Commit!Submit
    <2>2. \A i \in Ids : Doc(i) \in 0..MaxRecs
      BY DocType DEF DataOK
    <2>3. CASE req[p].op \in {"Set", "Update"}
      BY <1>10, <2>1, <2>2, <2>3 DEF Write, apply, Docs
    <2>4. CASE req[p].op = "Delete"
      BY <1>10, <2>1, <2>4, WriteOps DEF Write, apply, Docs
    <2>5. CASE req[p].op = "Drop"
      BY <1>10, <2>1, <2>5 DEF Write, apply
    <2>6. QED
      BY <2>1, <2>3, <2>4, <2>5, WriteOps
  <1>11. ASSUME NEW p \in Clients, UpdateRead(p)
        PROVE  colls' \in Docs \cup {Nil}
    BY <1>11 DEF UpdateRead, Saw
  <1>12. ASSUME NEW p \in Clients, FnFails(p)
        PROVE  colls' \in Docs \cup {Nil}
    BY <1>12 DEF FnFails
  <1>13. ASSUME NEW p \in Clients, UpdateWrite(p)
        PROVE  colls' \in Docs \cup {Nil}
    <2>1. req[p] \in Writes /\ applied + 1 \in 0..MaxRecs
      BY <1>13 DEF UpdateWrite, CallInv, Commit!Submit
    <2>2. \A i \in Ids : Doc(i) \in 0..MaxRecs
      BY DocType DEF DataOK
    <2>3. CASE req[p].op \in {"Set", "Update"}
      BY <1>13, <2>1, <2>2, <2>3 DEF UpdateWrite, apply, Docs
    <2>4. CASE req[p].op = "Delete"
      BY <1>13, <2>1, <2>4, WriteOps DEF UpdateWrite, apply, Docs
    <2>5. CASE req[p].op = "Drop"
      BY <1>13, <2>1, <2>5 DEF UpdateWrite, apply
    <2>6. QED
      BY <2>1, <2>3, <2>4, <2>5, WriteOps
  <1>14. ASSUME NEW p \in Clients, Unlock(p)
        PROVE  colls' \in Docs \cup {Nil}
    BY <1>14 DEF Unlock
  <1>15. ASSUME NEW p \in Clients, Wait(p)
        PROVE  colls' \in Docs \cup {Nil}
    BY <1>15 DEF Wait, Commit!Succeed, Commit!Fail
  <1>16. ASSUME NEW p \in Clients, Return(p)
        PROVE  colls' \in Docs \cup {Nil}
    BY <1>16 DEF Return
  <1>17. CASE Run
    BY <1>17 DEF Run, Commit!Harden, Commit!Break
  <1>18. CASE CloseLock
    BY <1>18 DEF CloseLock, Commit!BeginClose
  <1>19. CASE CloseWait
    BY <1>19 DEF CloseWait, Commit!EndClose
  <1>20. CASE Clear
    BY <1>20 DEF Clear
  <1>21. CASE UNCHANGED vars
    BY <1>21 DEF vars
  <1>22. QED
    BY <1>1, <1>2, <1>3, <1>4, <1>5, <1>6, <1>7, <1>8, <1>9, <1>10, <1>11, <1>12,
       <1>13, <1>14, <1>15, <1>16, <1>17, <1>18, <1>19, <1>20, <1>21 DEF Next

\* Every variable keeps its shape.
LEMMA DataOKStep == Inv /\ [Next]_vars => DataOK'
  <1> SUFFICES ASSUME Inv, [Next]_vars
               PROVE  DataOK'
    OBVIOUS
  <1> USE DEF Inv, TypeOK, DataOK, GoTo, allVars, commitVars
  <1>a. /\ res' \in [Clients -> Replies \cup {Nil}]
        /\ colls' \in Docs \cup {Nil}
    BY ReplyStep, CollsStep
  <1>1. ASSUME NEW p \in Clients, NEW c \in Reads \cup Writes, Invoke(p, c)
        PROVE  DataOK'
    BY <1>1, <1>a DEF Invoke
  <1>2. ASSUME NEW p \in Clients, RLock(p)
        PROVE  DataOK'
    <2>1. CASE closed
      BY <1>2, <1>a, <2>1 DEF RLock, closed
    <2>2. CASE ~closed
      BY <1>2, <1>a, <2>2 DEF RLock, Saw
    <2>3. QED
      BY <2>1, <2>2
  <1>3. ASSUME NEW p \in Clients, Read(p)
        PROVE  DataOK'
    BY <1>3, <1>a DEF Read
  <1>4. ASSUME NEW p \in Clients, Clone(p)
        PROVE  DataOK'
    <2>1. \A i \in Ids : Doc(i) \in 0..MaxRecs
      BY DocType DEF DataOK
    <2>2. PICK i \in left[p] :
            /\ snap' = [snap EXCEPT ![p][i] = Doc(i)]
            /\ left' = [left EXCEPT ![p] = @ \ {i}]
      BY <1>4 DEF Clone
    <2>3. snap' \in [Clients -> Docs]
      BY <2>1, <2>2 DEF Docs
    <2>4. QED
      BY <1>4, <1>a, <2>2, <2>3 DEF Clone
  <1>5. ASSUME NEW p \in Clients, Cloned(p)
        PROVE  DataOK'
    BY <1>5, <1>a DEF Cloned
  <1>6. ASSUME NEW p \in Clients, Yield(p)
        PROVE  DataOK'
    BY <1>6, <1>a DEF Yield
  <1>7. ASSUME NEW p \in Clients, EndAll(p)
        PROVE  DataOK'
    BY <1>7, <1>a DEF EndAll
  <1>8. ASSUME NEW p \in Clients, TooLarge(p)
        PROVE  DataOK'
    BY <1>8, <1>a DEF TooLarge
  <1>9. ASSUME NEW p \in Clients, Lock(p)
        PROVE  DataOK'
    BY <1>9, <1>a DEF Lock, closed
  <1>10. ASSUME NEW p \in Clients, Write(p)
        PROVE  DataOK'
    <2>1. /\ applied + 1 \in 0..MaxRecs /\ durable \in 0..(applied + 1)
          /\ applied' = applied + 1 /\ UNCHANGED <<durable, failed, phase>>
      BY <1>10 DEF Write, Commit!Submit
    <2>2. /\ change' \in [Clients -> 0..MaxRecs]
          /\ outcome' \in [Clients -> {"none", "wait", "ok", "fail"}]
      BY <1>10, <2>1 DEF Write, Commit!Submit
    <2>3. pc' \in [Clients -> {"idle", "called", "read", "clone", "iter",
                              "write", "fn", "unlock", "wait", "ret"}]
      BY <1>10 DEF Write
    <2>4. QED
      BY <1>10, <1>a, <2>1, <2>2, <2>3 DEF Write
  <1>11. ASSUME NEW p \in Clients, UpdateRead(p)
        PROVE  DataOK'
    <2>1. req[p].id \in Ids
      BY <1>11, WriteOps DEF UpdateRead, CallInv
    <2>2. Doc(req[p].id) \in 0..MaxRecs
      BY <2>1, DocType DEF DataOK
    <2>3. saw' \in [Clients -> 0..MaxRecs]
      BY <1>11 DEF UpdateRead, Saw
    <2>4. /\ val' \in [Clients -> 0..MaxRecs]
          /\ pc' \in [Clients -> {"idle", "called", "read", "clone", "iter",
                                "write", "fn", "unlock", "wait", "ret"}]
      BY <1>11, <2>2 DEF UpdateRead
    <2>5. QED
      BY <1>11, <1>a, <2>3, <2>4 DEF UpdateRead
  <1>12. ASSUME NEW p \in Clients, FnFails(p)
        PROVE  DataOK'
    BY <1>12, <1>a DEF FnFails
  <1>13. ASSUME NEW p \in Clients, UpdateWrite(p)
        PROVE  DataOK'
    <2>1. /\ applied + 1 \in 0..MaxRecs /\ durable \in 0..(applied + 1)
          /\ applied' = applied + 1 /\ UNCHANGED <<durable, failed, phase>>
      BY <1>13 DEF UpdateWrite, Commit!Submit
    <2>2. /\ change' \in [Clients -> 0..MaxRecs]
          /\ outcome' \in [Clients -> {"none", "wait", "ok", "fail"}]
      BY <1>13, <2>1 DEF UpdateWrite, Commit!Submit
    <2>3. pc' \in [Clients -> {"idle", "called", "read", "clone", "iter",
                              "write", "fn", "unlock", "wait", "ret"}]
      BY <1>13 DEF UpdateWrite
    <2>4. QED
      BY <1>13, <1>a, <2>1, <2>2, <2>3 DEF UpdateWrite
  <1>14. ASSUME NEW p \in Clients, Unlock(p)
        PROVE  DataOK'
    BY <1>14, <1>a DEF Unlock
  <1>15. ASSUME NEW p \in Clients, Wait(p)
        PROVE  DataOK'
    BY <1>15, <1>a DEF Wait, Commit!Succeed, Commit!Fail
  <1>16. ASSUME NEW p \in Clients, Return(p)
        PROVE  DataOK'
    <2>1. Empty \in Docs /\ 0 \in 0..MaxRecs
      BY DEF Empty, Docs
    <2>2. QED
      BY <1>16, <1>a, <2>1 DEF Return
  <1>17. CASE Run
    <2>1. durable' \in 0..applied
      BY <1>17 DEF Run, Commit!Harden, Commit!Break
    <2>4. failed' \in BOOLEAN
      BY <1>17, Zenon DEF Run, Commit!Harden, Commit!Break
    <2>2. UNCHANGED <<applied, change, outcome, phase>>
      BY <1>17 DEF Run, Commit!Harden, Commit!Break
    <2>3. QED
      BY <1>17, <1>a, <2>1, <2>2, <2>4 DEF Run
  <1>18. CASE CloseLock
    BY <1>18, <1>a DEF CloseLock, Commit!BeginClose
  <1>19. CASE CloseWait
    BY <1>19, <1>a DEF CloseWait, Commit!EndClose
  <1>20. CASE Clear
    BY <1>20, <1>a DEF Clear
  <1>21. CASE UNCHANGED vars
    BY <1>21, <1>a DEF vars
  <1>22. QED
    BY <1>1, <1>2, <1>3, <1>4, <1>5, <1>6, <1>7, <1>8, <1>9, <1>10, <1>11, <1>12,
       <1>13, <1>14, <1>15, <1>16, <1>17, <1>18, <1>19, <1>20, <1>21 DEF Next

\* mu is held by those between locking and unlocking it.
LEMMA MutexOKStep == Inv /\ [Next]_vars => MutexOK'
  <1> SUFFICES ASSUME Inv, [Next]_vars
               PROVE  MutexOK'
    OBVIOUS
  <1> USE DEF Inv, TypeOK, DataOK, MutexOK, GoTo, allVars, commitVars
  <1>1. ASSUME NEW p \in Clients, NEW c \in Reads \cup Writes, Invoke(p, c)
        PROVE  MutexOK'
    BY <1>1 DEF Invoke
  <1>2. ASSUME NEW p \in Clients, RLock(p)
        PROVE  MutexOK'
    <2>1. CASE closed
      BY <1>2, <2>1 DEF RLock, closed
    <2>2. CASE ~closed /\ req[p].op = "All"
      BY <1>2, <2>2 DEF RLock
    <2>3. CASE ~closed /\ req[p].op # "All"
      BY <1>2, <2>3 DEF RLock
    <2>4. QED
      BY <2>1, <2>2, <2>3
  <1>3. ASSUME NEW p \in Clients, Read(p)
        PROVE  MutexOK'
    BY <1>3 DEF Read
  <1>4. ASSUME NEW p \in Clients, Clone(p)
        PROVE  MutexOK'
    BY <1>4 DEF Clone
  <1>5. ASSUME NEW p \in Clients, Cloned(p)
        PROVE  MutexOK'
    BY <1>5 DEF Cloned
  <1>6. ASSUME NEW p \in Clients, Yield(p)
        PROVE  MutexOK'
    BY <1>6 DEF Yield
  <1>7. ASSUME NEW p \in Clients, EndAll(p)
        PROVE  MutexOK'
    BY <1>7 DEF EndAll
  <1>8. ASSUME NEW p \in Clients, TooLarge(p)
        PROVE  MutexOK'
    BY <1>8 DEF TooLarge
  <1>9. ASSUME NEW p \in Clients, Lock(p)
        PROVE  MutexOK'
    <2>1. CASE closed
      BY <1>9, <2>1 DEF Lock, closed
    <2>2. CASE ~closed
      BY <1>9, <2>2 DEF Lock
    <2>3. QED
      BY <2>1, <2>2
  <1>10. ASSUME NEW p \in Clients, Write(p)
        PROVE  MutexOK'
    BY <1>10 DEF Write, Commit!Submit
  <1>11. ASSUME NEW p \in Clients, UpdateRead(p)
        PROVE  MutexOK'
    BY <1>11 DEF UpdateRead, Saw
  <1>12. ASSUME NEW p \in Clients, FnFails(p)
        PROVE  MutexOK'
    BY <1>12 DEF FnFails
  <1>13. ASSUME NEW p \in Clients, UpdateWrite(p)
        PROVE  MutexOK'
    BY <1>13 DEF UpdateWrite, Commit!Submit
  <1>14. ASSUME NEW p \in Clients, Unlock(p)
        PROVE  MutexOK'
    BY <1>14 DEF Unlock
  <1>15. ASSUME NEW p \in Clients, Wait(p)
        PROVE  MutexOK'
    BY <1>15 DEF Wait, Commit!Succeed, Commit!Fail
  <1>16. ASSUME NEW p \in Clients, Return(p)
        PROVE  MutexOK'
    BY <1>16 DEF Return
  <1>17. CASE Run
    BY <1>17 DEF Run, Commit!Harden, Commit!Break
  <1>18. CASE CloseLock
    BY <1>18 DEF CloseLock, Commit!BeginClose
  <1>19. CASE CloseWait
    BY <1>19 DEF CloseWait, Commit!EndClose
  <1>20. CASE Clear
    BY <1>20 DEF Clear
  <1>21. CASE UNCHANGED vars
    BY <1>21 DEF vars
  <1>22. QED
    BY <1>1, <1>2, <1>3, <1>4, <1>5, <1>6, <1>7, <1>8, <1>9, <1>10, <1>11, <1>12,
       <1>13, <1>14, <1>15, <1>16, <1>17, <1>18, <1>19, <1>20, <1>21 DEF Next

\* Nobody gets mu after Close has set closed.
LEMMA ClosedInvStep == Inv /\ [Next]_vars => ClosedInv'
  <1> SUFFICES ASSUME Inv, [Next]_vars
               PROVE  ClosedInv'
    OBVIOUS
  <1> USE DEF Inv, TypeOK, DataOK, MutexOK, ClosedInv, GoTo, allVars, commitVars
  <1>1. ASSUME NEW p \in Clients, NEW c \in Reads \cup Writes, Invoke(p, c)
        PROVE  ClosedInv'
    BY <1>1 DEF Invoke
  <1>2. ASSUME NEW p \in Clients, RLock(p)
        PROVE  ClosedInv'
    BY <1>2 DEF RLock, closed, Saw
  <1>3. ASSUME NEW p \in Clients, Read(p)
        PROVE  ClosedInv'
    BY <1>3 DEF Read
  <1>4. ASSUME NEW p \in Clients, Clone(p)
        PROVE  ClosedInv'
    BY <1>4 DEF Clone
  <1>5. ASSUME NEW p \in Clients, Cloned(p)
        PROVE  ClosedInv'
    BY <1>5 DEF Cloned
  <1>6. ASSUME NEW p \in Clients, Yield(p)
        PROVE  ClosedInv'
    BY <1>6 DEF Yield
  <1>7. ASSUME NEW p \in Clients, EndAll(p)
        PROVE  ClosedInv'
    BY <1>7 DEF EndAll
  <1>8. ASSUME NEW p \in Clients, TooLarge(p)
        PROVE  ClosedInv'
    BY <1>8 DEF TooLarge
  <1>9. ASSUME NEW p \in Clients, Lock(p)
        PROVE  ClosedInv'
    BY <1>9 DEF Lock, closed
  <1>10. ASSUME NEW p \in Clients, Write(p)
        PROVE  ClosedInv'
    BY <1>10 DEF Write, Commit!Submit
  <1>11. ASSUME NEW p \in Clients, UpdateRead(p)
        PROVE  ClosedInv'
    BY <1>11 DEF UpdateRead, Saw
  <1>12. ASSUME NEW p \in Clients, FnFails(p)
        PROVE  ClosedInv'
    BY <1>12 DEF FnFails
  <1>13. ASSUME NEW p \in Clients, UpdateWrite(p)
        PROVE  ClosedInv'
    BY <1>13 DEF UpdateWrite, Commit!Submit
  <1>14. ASSUME NEW p \in Clients, Unlock(p)
        PROVE  ClosedInv'
    BY <1>14 DEF Unlock
  <1>15. ASSUME NEW p \in Clients, Wait(p)
        PROVE  ClosedInv'
    BY <1>15 DEF Wait, Commit!Succeed, Commit!Fail
  <1>16. ASSUME NEW p \in Clients, Return(p)
        PROVE  ClosedInv'
    BY <1>16 DEF Return
  <1>17. CASE Run
    BY <1>17 DEF Run, Commit!Harden, Commit!Break
  <1>18. CASE CloseLock
    BY <1>18 DEF CloseLock, Commit!BeginClose
  <1>19. CASE CloseWait
    BY <1>19 DEF CloseWait, Commit!EndClose
  <1>20. CASE Clear
    BY <1>20 DEF Clear
  <1>21. CASE UNCHANGED vars
    BY <1>21 DEF vars
  <1>22. QED
    BY <1>1, <1>2, <1>3, <1>4, <1>5, <1>6, <1>7, <1>8, <1>9, <1>10, <1>11, <1>12,
       <1>13, <1>14, <1>15, <1>16, <1>17, <1>18, <1>19, <1>20, <1>21 DEF Next

\* A client stays in the call that it is in.
LEMMA CallInvStep == Inv /\ [Next]_vars => CallInv'
  <1> SUFFICES ASSUME Inv, [Next]_vars
               PROVE  CallInv'
    OBVIOUS
  <1> USE DEF Inv, TypeOK, DataOK, CallInv, GoTo, allVars, commitVars
  <1>1. ASSUME NEW p \in Clients, NEW c \in Reads \cup Writes, Invoke(p, c)
        PROVE  CallInv'
    BY <1>1 DEF Invoke
  <1>2. ASSUME NEW p \in Clients, RLock(p)
        PROVE  CallInv'
    <2>1. CASE closed
      BY <1>2, <2>1 DEF RLock, closed
    <2>2. CASE ~closed /\ req[p].op = "All"
      BY <1>2, <2>2 DEF RLock
    <2>3. CASE ~closed /\ req[p].op # "All"
      BY <1>2, <2>3 DEF RLock
    <2>4. QED
      BY <2>1, <2>2, <2>3
  <1>3. ASSUME NEW p \in Clients, Read(p)
        PROVE  CallInv'
    BY <1>3 DEF Read
  <1>4. ASSUME NEW p \in Clients, Clone(p)
        PROVE  CallInv'
    BY <1>4 DEF Clone
  <1>5. ASSUME NEW p \in Clients, Cloned(p)
        PROVE  CallInv'
    BY <1>5 DEF Cloned
  <1>6. ASSUME NEW p \in Clients, Yield(p)
        PROVE  CallInv'
    BY <1>6 DEF Yield
  <1>7. ASSUME NEW p \in Clients, EndAll(p)
        PROVE  CallInv'
    BY <1>7 DEF EndAll
  <1>8. ASSUME NEW p \in Clients, TooLarge(p)
        PROVE  CallInv'
    BY <1>8 DEF TooLarge
  <1>9. ASSUME NEW p \in Clients, Lock(p)
        PROVE  CallInv'
    BY <1>9 DEF Lock, closed
  <1>10. ASSUME NEW p \in Clients, Write(p)
        PROVE  CallInv'
    BY <1>10 DEF Write, Commit!Submit
  <1>11. ASSUME NEW p \in Clients, UpdateRead(p)
        PROVE  CallInv'
    BY <1>11 DEF UpdateRead, Saw
  <1>12. ASSUME NEW p \in Clients, FnFails(p)
        PROVE  CallInv'
    BY <1>12 DEF FnFails
  <1>13. ASSUME NEW p \in Clients, UpdateWrite(p)
        PROVE  CallInv'
    BY <1>13 DEF UpdateWrite, Commit!Submit
  <1>14. ASSUME NEW p \in Clients, Unlock(p)
        PROVE  CallInv'
    BY <1>14 DEF Unlock
  <1>15. ASSUME NEW p \in Clients, Wait(p)
        PROVE  CallInv'
    BY <1>15 DEF Wait, Commit!Succeed, Commit!Fail
  <1>16. ASSUME NEW p \in Clients, Return(p)
        PROVE  CallInv'
    BY <1>16 DEF Return
  <1>17. CASE Run
    BY <1>17 DEF Run, Commit!Harden, Commit!Break
  <1>18. CASE CloseLock
    BY <1>18 DEF CloseLock, Commit!BeginClose
  <1>19. CASE CloseWait
    BY <1>19 DEF CloseWait, Commit!EndClose
  <1>20. CASE Clear
    BY <1>20 DEF Clear
  <1>21. CASE UNCHANGED vars
    BY <1>21 DEF vars
  <1>22. QED
    BY <1>1, <1>2, <1>3, <1>4, <1>5, <1>6, <1>7, <1>8, <1>9, <1>10, <1>11, <1>12,
       <1>13, <1>14, <1>15, <1>16, <1>17, <1>18, <1>19, <1>20, <1>21 DEF Next

\* The maps stay the same while an iteration clones them.
LEMMA CloneInvStep == Inv /\ [Next]_vars => CloneInv'
  <1> SUFFICES ASSUME Inv, [Next]_vars
               PROVE  CloneInv'
    OBVIOUS
  <1> USE DEF Inv, TypeOK, DataOK, GoTo, Reply, allVars, commitVars, CloneInv,
              ClosedInv, MutexOK, CallInv
  <1>1. ASSUME NEW p \in Clients, NEW c \in Reads \cup Writes, Invoke(p, c)
        PROVE  CloneInv'
    BY <1>1 DEF Invoke, Doc
  <1>2. ASSUME NEW p \in Clients, RLock(p)
        PROVE  CloneInv'
    <2>1. CASE closed
      BY <1>2, <2>1 DEF RLock, closed, Doc
    <2>2. CASE ~closed /\ req[p].op = "All"
      BY <1>2, <2>2 DEF RLock, Saw, Doc
    <2>3. CASE ~closed /\ req[p].op # "All"
      BY <1>2, <2>3 DEF RLock, Saw, Doc
    <2>4. QED
      BY <2>1, <2>2, <2>3
  <1>3. ASSUME NEW p \in Clients, Read(p)
        PROVE  CloneInv'
    BY <1>3 DEF Read, Doc
  <1>4. ASSUME NEW p \in Clients, Clone(p)
        PROVE  CloneInv'
    <2>1. PICK i \in left[p] :
            /\ snap' = [snap EXCEPT ![p][i] = Doc(i)]
            /\ left' = [left EXCEPT ![p] = @ \ {i}]
      BY <1>4 DEF Clone
    <2>2. /\ snap'[p] = [snap[p] EXCEPT ![i] = Doc(i)] /\ left'[p] = left[p] \ {i}
          /\ \A q \in Clients \ {p} : snap'[q] = snap[q] /\ left'[q] = left[q]
      BY <2>1
    <2>3. snap[p] \in [Ids -> 0..MaxRecs] /\ i \in Ids
      BY <2>1 DEF Docs
    <2>4. \A j \in Ids \ left'[p] : snap'[p][j] = Doc(j)
      BY <1>4, <2>2, <2>3 DEF Clone
    <2>5. /\ colls' = colls /\ pc' = pc /\ res' = res /\ pc[p] = "clone"
      BY <1>4 DEF Clone
    <2>6. ASSUME NEW q \in Clients, NEW j \in Ids \ left'[q], pc'[q] = "clone"
          PROVE  snap'[q][j] = Doc(j)
      <3>1. CASE q = p
        BY <2>4, <3>1
      <3>2. CASE q # p
        BY <2>2, <2>5, <2>6, <3>2
      <3>3. QED
        BY <3>1, <3>2
    <2>7. ASSUME NEW q \in Clients, pc'[q] = "iter"
          PROVE  res'[q] = <<"docs", snap'[q]>>
      BY <2>2, <2>5, <2>7
    <2>8. \A j \in Ids : Doc(j)' = Doc(j)
      BY <2>5 DEF Doc
    <2>9. QED
      BY <2>6, <2>7, <2>8
  <1>5. ASSUME NEW p \in Clients, Cloned(p)
        PROVE  CloneInv'
    BY <1>5 DEF Cloned, Doc
  <1>6. ASSUME NEW p \in Clients, Yield(p)
        PROVE  CloneInv'
    <2>1. /\ UNCHANGED <<pc, res, snap, colls>> /\ pc[p] = "iter"
          /\ \A q \in Clients \ {p} : left'[q] = left[q]
      BY <1>6, YieldKeeps, ZenonT(40) DEF Yield
    <2>2. QED
      BY <2>1 DEF Doc
  <1>7. ASSUME NEW p \in Clients, EndAll(p)
        PROVE  CloneInv'
    BY <1>7 DEF EndAll, Doc
  <1>8. ASSUME NEW p \in Clients, TooLarge(p)
        PROVE  CloneInv'
    BY <1>8 DEF TooLarge, Doc
  <1>9. ASSUME NEW p \in Clients, Lock(p)
        PROVE  CloneInv'
    BY <1>9 DEF Lock, closed, Doc
  <1>10. ASSUME NEW p \in Clients, Write(p)
        PROVE  CloneInv'
    <2>1. \A q \in Clients : pc[q] \notin {"read", "clone"} /\ (q # p => pc[q] # "fn")
      BY <1>10 DEF Write
    <2>2. QED
      BY <1>10, <2>1 DEF Write
  <1>11. ASSUME NEW p \in Clients, UpdateRead(p)
        PROVE  CloneInv'
    BY <1>11 DEF UpdateRead, Saw, Doc
  <1>12. ASSUME NEW p \in Clients, FnFails(p)
        PROVE  CloneInv'
    BY <1>12 DEF FnFails, Doc
  <1>13. ASSUME NEW p \in Clients, UpdateWrite(p)
        PROVE  CloneInv'
    <2>1. \A q \in Clients : pc[q] \notin {"read", "clone"} /\ (q # p => pc[q] # "fn")
      BY <1>13 DEF UpdateWrite
    <2>2. QED
      BY <1>13, <2>1 DEF UpdateWrite
  <1>14. ASSUME NEW p \in Clients, Unlock(p)
        PROVE  CloneInv'
    BY <1>14 DEF Unlock, Doc
  <1>15. ASSUME NEW p \in Clients, Wait(p)
        PROVE  CloneInv'
    BY <1>15 DEF Wait, Commit!Succeed, Commit!Fail, Doc
  <1>16. ASSUME NEW p \in Clients, Return(p)
        PROVE  CloneInv'
    BY <1>16 DEF Return, Doc
  <1>17. CASE Run
    BY <1>17 DEF Run, Commit!Harden, Commit!Break, Doc
  <1>18. CASE CloseLock
    BY <1>18 DEF CloseLock, Commit!BeginClose, Doc
  <1>19. CASE CloseWait
    BY <1>19 DEF CloseWait, Commit!EndClose, Doc
  <1>20. CASE Clear
    BY <1>20 DEF Clear
  <1>21. CASE UNCHANGED vars
    BY <1>21 DEF vars, Doc
  <1>22. QED
    BY <1>1, <1>2, <1>3, <1>4, <1>5, <1>6, <1>7, <1>8, <1>9, <1>10, <1>11, <1>12,
       <1>13, <1>14, <1>15, <1>16, <1>17, <1>18, <1>19, <1>20, <1>21 DEF Next

\* The document stays the same while fn runs.
LEMMA UpdateInvStep == Inv /\ [Next]_vars => UpdateInv'
  <1> SUFFICES ASSUME Inv, [Next]_vars
               PROVE  UpdateInv'
    OBVIOUS
  <1> USE DEF Inv, TypeOK, DataOK, GoTo, Reply, allVars, commitVars, UpdateInv,
              ClosedInv, MutexOK, CallInv
  <1>1. ASSUME NEW p \in Clients, NEW c \in Reads \cup Writes, Invoke(p, c)
        PROVE  UpdateInv'
    BY <1>1 DEF Invoke, Doc
  <1>2. ASSUME NEW p \in Clients, RLock(p)
        PROVE  UpdateInv'
    BY <1>2 DEF RLock, closed, Saw, Doc
  <1>3. ASSUME NEW p \in Clients, Read(p)
        PROVE  UpdateInv'
    BY <1>3 DEF Read, Doc
  <1>4. ASSUME NEW p \in Clients, Clone(p)
        PROVE  UpdateInv'
    BY <1>4 DEF Clone, Doc
  <1>5. ASSUME NEW p \in Clients, Cloned(p)
        PROVE  UpdateInv'
    BY <1>5 DEF Cloned, Doc
  <1>6. ASSUME NEW p \in Clients, Yield(p)
        PROVE  UpdateInv'
    BY <1>6 DEF Yield, Doc
  <1>7. ASSUME NEW p \in Clients, EndAll(p)
        PROVE  UpdateInv'
    BY <1>7 DEF EndAll, Doc
  <1>8. ASSUME NEW p \in Clients, TooLarge(p)
        PROVE  UpdateInv'
    BY <1>8 DEF TooLarge, Doc
  <1>9. ASSUME NEW p \in Clients, Lock(p)
        PROVE  UpdateInv'
    BY <1>9 DEF Lock, closed, Doc
  <1>10. ASSUME NEW p \in Clients, Write(p)
        PROVE  UpdateInv'
    <2>1. \A q \in Clients : pc[q] \notin {"read", "clone"} /\ (q # p => pc[q] # "fn")
      BY <1>10 DEF Write
    <2>2. QED
      BY <1>10, <2>1 DEF Write
  <1>11. ASSUME NEW p \in Clients, UpdateRead(p)
        PROVE  UpdateInv'
    BY <1>11 DEF UpdateRead, Saw, Doc
  <1>12. ASSUME NEW p \in Clients, FnFails(p)
        PROVE  UpdateInv'
    BY <1>12 DEF FnFails, Doc
  <1>13. ASSUME NEW p \in Clients, UpdateWrite(p)
        PROVE  UpdateInv'
    <2>1. \A q \in Clients : pc[q] \notin {"read", "clone"} /\ (q # p => pc[q] # "fn")
      BY <1>13 DEF UpdateWrite
    <2>2. QED
      BY <1>13, <2>1 DEF UpdateWrite
  <1>14. ASSUME NEW p \in Clients, Unlock(p)
        PROVE  UpdateInv'
    BY <1>14 DEF Unlock, Doc
  <1>15. ASSUME NEW p \in Clients, Wait(p)
        PROVE  UpdateInv'
    BY <1>15 DEF Wait, Commit!Succeed, Commit!Fail, Doc
  <1>16. ASSUME NEW p \in Clients, Return(p)
        PROVE  UpdateInv'
    BY <1>16 DEF Return, Doc
  <1>17. CASE Run
    BY <1>17 DEF Run, Commit!Harden, Commit!Break, Doc
  <1>18. CASE CloseLock
    BY <1>18 DEF CloseLock, Commit!BeginClose, Doc
  <1>19. CASE CloseWait
    BY <1>19 DEF CloseWait, Commit!EndClose, Doc
  <1>20. CASE Clear
    BY <1>20 DEF Clear
  <1>21. CASE UNCHANGED vars
    BY <1>21 DEF vars, Doc
  <1>22. QED
    BY <1>1, <1>2, <1>3, <1>4, <1>5, <1>6, <1>7, <1>8, <1>9, <1>10, <1>11, <1>12,
       <1>13, <1>14, <1>15, <1>16, <1>17, <1>18, <1>19, <1>20, <1>21 DEF Next

\* A change comes after what its caller has read.
LEMMA AckInvStep == Inv /\ [Next]_vars => AckInv'
  <1> SUFFICES ASSUME Inv, [Next]_vars
               PROVE  AckInv'
    OBVIOUS
  <1> USE DEF Inv, TypeOK, DataOK, GoTo, allVars, commitVars, AckInv
  <1>1. ASSUME NEW p \in Clients, NEW c \in Reads \cup Writes, Invoke(p, c)
        PROVE  AckInv'
    BY <1>1 DEF Invoke
  <1>2. ASSUME NEW p \in Clients, RLock(p)
        PROVE  AckInv'
    <2>1. CASE closed
      BY <1>2, <2>1 DEF RLock, closed
    <2>2. CASE ~closed /\ req[p].op = "All"
      BY <1>2, <2>2 DEF RLock, Saw
    <2>3. CASE ~closed /\ req[p].op # "All"
      BY <1>2, <2>3 DEF RLock, Saw
    <2>4. QED
      BY <2>1, <2>2, <2>3
  <1>3. ASSUME NEW p \in Clients, Read(p)
        PROVE  AckInv'
    BY <1>3 DEF Read
  <1>4. ASSUME NEW p \in Clients, Clone(p)
        PROVE  AckInv'
    BY <1>4 DEF Clone
  <1>5. ASSUME NEW p \in Clients, Cloned(p)
        PROVE  AckInv'
    BY <1>5 DEF Cloned
  <1>6. ASSUME NEW p \in Clients, Yield(p)
        PROVE  AckInv'
    BY <1>6 DEF Yield
  <1>7. ASSUME NEW p \in Clients, EndAll(p)
        PROVE  AckInv'
    BY <1>7 DEF EndAll
  <1>8. ASSUME NEW p \in Clients, TooLarge(p)
        PROVE  AckInv'
    BY <1>8 DEF TooLarge
  <1>9. ASSUME NEW p \in Clients, Lock(p)
        PROVE  AckInv'
    BY <1>9 DEF Lock, closed
  <1>10. ASSUME NEW p \in Clients, Write(p)
        PROVE  AckInv'
    BY <1>10 DEF Write, Commit!Submit
  <1>11. ASSUME NEW p \in Clients, UpdateRead(p)
        PROVE  AckInv'
    BY <1>11 DEF UpdateRead, Saw
  <1>12. ASSUME NEW p \in Clients, FnFails(p)
        PROVE  AckInv'
    BY <1>12 DEF FnFails
  <1>13. ASSUME NEW p \in Clients, UpdateWrite(p)
        PROVE  AckInv'
    BY <1>13 DEF UpdateWrite, Commit!Submit
  <1>14. ASSUME NEW p \in Clients, Unlock(p)
        PROVE  AckInv'
    BY <1>14 DEF Unlock
  <1>15. ASSUME NEW p \in Clients, Wait(p)
        PROVE  AckInv'
    BY <1>15 DEF Wait, Commit!Succeed, Commit!Fail
  <1>16. ASSUME NEW p \in Clients, Return(p)
        PROVE  AckInv'
    BY <1>16 DEF Return
  <1>17. CASE Run
    BY <1>17 DEF Run, Commit!Harden, Commit!Break
  <1>18. CASE CloseLock
    BY <1>18 DEF CloseLock, Commit!BeginClose
  <1>19. CASE CloseWait
    BY <1>19 DEF CloseWait, Commit!EndClose
  <1>20. CASE Clear
    BY <1>20 DEF Clear
  <1>21. CASE UNCHANGED vars
    BY <1>21 DEF vars
  <1>22. QED
    BY <1>1, <1>2, <1>3, <1>4, <1>5, <1>6, <1>7, <1>8, <1>9, <1>10, <1>11, <1>12,
       <1>13, <1>14, <1>15, <1>16, <1>17, <1>18, <1>19, <1>20, <1>21 DEF Next

\* The inductive invariant holds.
THEOREM InvHolds == Spec => []Inv
  <1>1. Init => Inv
    <2> SUFFICES ASSUME Init
                 PROVE  Inv
      OBVIOUS
    <2>1. Empty \in Docs
      BY DEF Empty, Docs
    <2>6. cleared \in BOOLEAN /\ failed \in BOOLEAN
      BY Zenon DEF Init, Commit!Init
    <2>2. DataOK
      BY <2>1, <2>6 DEF Init, Commit!Init, DataOK
    <2>5. MutexOK
      BY DEF Init, MutexOK
    <2>3. ClosedInv /\ CallInv /\ ReplyInv /\ CloneInv /\ UpdateInv /\ AckInv
      BY DEF Init, Commit!Init, ClosedInv, CallInv, ReplyInv, CloneInv, UpdateInv,
         AckInv
    <2>4. QED
      BY <2>2, <2>3, <2>5 DEF Inv, TypeOK
  <1>2. Inv /\ [Next]_vars => Inv'
    BY ReplyStep, DataOKStep, MutexOKStep, ClosedInvStep, CallInvStep, CloneInvStep,
       UpdateInvStep, AckInvStep DEF Inv, TypeOK
  <1>3. QED
    BY <1>1, <1>2, PTL DEF Spec

\* mu is held as its callers think it is: by one writer or by readers only.
THEOREM TypeCorrect == Spec => []TypeOK
  <1>1. Inv => TypeOK
    BY DEF Inv
  <1>2. QED
    BY <1>1, InvHolds, PTL

\* Close clears the maps when nobody is where they are looked at or changed.
THEOREM ClearedAloneHolds == Spec => []ClearedAlone
  <1>1. Inv => ClearedAlone
    BY DEF Inv, ClosedInv, ClearedAlone
  <1>2. QED
    BY <1>1, InvHolds, PTL

\* An acknowledged change makes everything its caller had read durable.
THEOREM AckCoversReadsHolds == Spec => []AckCoversReads
  <1>1. Inv => AckCoversReads
    BY DEF Inv, AckInv, AckCoversReads
  <1>2. QED
    BY <1>1, InvHolds, PTL

-----------------------------------------------------------------------------
(* A collection implements AtomicCollection *)

\* The answer that a client counts as having, by its control state.
LEMMA AnsweredValue ==
  ASSUME NEW p \in Clients
  PROVE  /\ pc[p] = "clone" => Answered[p] = <<"docs", Store!DocsOf(colls)>>
         /\ pc[p] \in {"iter", "unlock", "wait", "ret"} => Answered[p] = res[p]
         /\ pc[p] \in {"idle", "called", "read", "write", "fn"} => Answered[p] = Nil
  BY DEF Answered, Store!DocsOf, Store!Empty, Empty

\* The same in the state that a step leads to.
LEMMA AnsweredNext ==
  ASSUME NEW p \in Clients
  PROVE  /\ pc'[p] = "clone" => Answered'[p] = <<"docs", Store!DocsOf(colls')>>
         /\ pc'[p] \in {"iter", "unlock", "wait", "ret"} => Answered'[p] = res'[p]
         /\ pc'[p] \in {"idle", "called", "read", "write", "fn"} => Answered'[p] = Nil
  BY DEF Answered, Store!DocsOf, Store!Empty, Empty

\* A step of one client answers no other one's call.
LEMMA AnswerOne ==
  ASSUME Inv, NEW p \in Clients,
         \A q \in Clients \ {p} : pc'[q] = pc[q] /\ res'[q] = res[q],
         colls' = colls \/ \A q \in Clients : pc[q] # "clone"
  PROVE  Answered' = [Answered EXCEPT ![p] = Answered'[p]]
  <1>1. ASSUME NEW q \in Clients \ {p}
        PROVE  Answered'[q] = Answered[q]
    <2>1. pc[q] \in {"idle", "called", "read", "clone", "iter",
                     "write", "fn", "unlock", "wait", "ret"}
      BY DEF Inv, TypeOK, DataOK
    <2>2. QED
      BY <2>1, AnsweredValue, AnsweredNext
  <1>2. /\ Answered = [q \in Clients |-> Answered[q]]
        /\ Answered' = [q \in Clients |-> Answered'[q]]
    BY DEF Answered
  <1>3. QED
    BY <1>1, <1>2

\* A step that leaves the answer of the one client alone leaves them all.
LEMMA AnswerSame ==
  ASSUME NEW p \in Clients, Answered' = [Answered EXCEPT ![p] = Answered'[p]],
         Answered'[p] = Answered[p]
  PROVE  Answered' = Answered
  BY DEF Answered

\* AtomicCollection counts as Collection does.
LEMMA SameCount ==
  ASSUME NEW S
  PROVE  Store!Cardinality(S) = Cardinality(S)
  BY DEF Store!Cardinality, Cardinality

\* The documents of the collection.
LEMMA StoreDocs ==
  /\ \A i \in Ids : Store!DocsOf(colls)[i] = Doc(i)
  /\ DataOK => Store!DocsOf(colls) \in Docs
  BY DEF DataOK, Store!DocsOf, Store!Empty, Doc, Docs

\* What a call on a closed database answers.
LEMMA RefusedIs ==
  ASSUME NEW c \in Reads \cup Writes
  PROVE  Refused(c) = Store!ClosedAnswer(c)
  <1>1. CASE c \in Writes
    <2>1. c.op \in {"Set", "Delete", "Update", "Drop"}
      BY <1>1, WriteOps
    <2>2. QED
      BY <1>1, <2>1 DEF Refused, Store!ClosedAnswer, Writes
  <1>2. CASE c \in Reads /\ c \notin Writes
    <2> USE DEF Refused, Store!ClosedAnswer, Writes
    <2>0. Store!DocsOf(Nil) = Empty
      BY DEF Store!DocsOf, Store!Empty, Empty
    <2>1. CASE c.op = "Get"
      BY <2>1 DEF Store!Answer
    <2>2. CASE c.op = "Has"
      BY <1>2, <2>0, <2>2, ReadOps DEF Store!Answer, Empty
    <2>3. CASE c.op = "Count"
      <3>1. Cardinality({i \in Ids : Store!DocsOf(Nil)[i] # 0}) = 0
        <4>1. {i \in Ids : Store!DocsOf(Nil)[i] # 0} = {}
          BY <2>0 DEF Empty
        <4>2. QED
          BY <4>1, FS_EmptySet
      <3>2. Store!Answer(c, Nil)
              = <<"count", Cardinality({i \in Ids : Store!DocsOf(Nil)[i] # 0})>>
        BY <2>3, SameCount DEF Store!Answer
      <3>3. QED
        BY <1>2, <2>3, <3>1, <3>2 DEF Refused, Store!ClosedAnswer
    <2>4. CASE c.op = "All"
      BY <1>2, <2>0, <2>4 DEF Store!Answer
    <2>5. CASE c.op = "Collections"
      BY <1>2, <2>5 DEF Store!Answer
    <2>6. QED
      BY <1>2, <2>1, <2>2, <2>3, <2>4, <2>5, ReadOps
  <1>3. QED
    BY <1>1, <1>2

\* A call starts.
LEMMA InvokeMaps ==
  ASSUME Inv, NEW p \in Clients, NEW c \in Reads \cup Writes, Invoke(p, c)
  PROVE  Store!Invoke(p)
  <1>1. /\ pc[p] = "idle" /\ pc'[p] = "called" /\ req[p] = Nil
        /\ \A q \in Clients \ {p} : pc'[q] = pc[q]
        /\ UNCHANGED <<colls, applied, phase, res>>
        /\ req' = [req EXCEPT ![p] = c]
    BY DEF Invoke, GoTo, commitVars, Inv, TypeOK, DataOK, CallInv
  <1>2. Answered' = [Answered EXCEPT ![p] = Answered'[p]]
    BY <1>1, AnswerOne
  <1>3. Answered[p] = Nil /\ Answered'[p] = Nil
    BY <1>1, AnsweredValue, AnsweredNext
  <1>4. Answered' = Answered
    BY <1>2, <1>3, AnswerSame
  <1>5. QED
    BY <1>1, <1>4 DEF Store!Invoke, Store!Calls, Reads, Writes

\* A call gets its answer while the client has none.
LEMMA AnswerGiven ==
  ASSUME Inv, NEW p \in Clients, NEW r,
         pc[p] \in {"called", "read", "write", "fn"},
         \/ pc'[p] \in {"unlock", "ret"} /\ Reply(p, r)
         \/ /\ pc'[p] = "clone" /\ r = <<"docs", Store!DocsOf(colls)>>
            /\ UNCHANGED <<res, colls>>,
         \A q \in Clients \ {p} : pc'[q] = pc[q],
         colls' = colls \/ \A q \in Clients : pc[q] # "clone"
  PROVE  /\ Answered' = [Answered EXCEPT ![p] = r]
         /\ Store!Pending(p)
  <1>1. /\ res'[p] = r \/ pc'[p] = "clone"
        /\ \A q \in Clients \ {p} : res'[q] = res[q]
    BY DEF Reply, Inv, TypeOK, DataOK
  <1>2. Answered'[p] = r
    BY <1>1, AnsweredNext
  <1>3. Answered' = [Answered EXCEPT ![p] = Answered'[p]]
    BY <1>1, AnswerOne
  <1>4. req[p] # Nil /\ Answered[p] = Nil
    BY AnsweredValue DEF Inv, CallInv
  <1>5. QED
    BY <1>2, <1>3, <1>4 DEF Store!Pending

\* A step that leaves a client's answer alone.
LEMMA AnswerKept ==
  ASSUME Inv, NEW p \in Clients,
         \A q \in Clients \ {p} : pc'[q] = pc[q] /\ res'[q] = res[q],
         UNCHANGED <<colls, applied, phase, req>>,
         Answered'[p] = Answered[p]
  PROVE  UNCHANGED Store!vars
  <1>1. Answered' = [Answered EXCEPT ![p] = Answered'[p]]
    BY AnswerOne
  <1>2. Answered' = Answered
    BY <1>1, AnswerSame
  <1>3. QED
    BY <1>2 DEF Store!vars

\* RLock on a closed database refuses the call, an iteration takes its answer
\* there, and another reader has none yet.
LEMMA RLockMaps ==
  ASSUME Inv, NEW p \in Clients, RLock(p)
  PROVE  Store!Refuse(p) \/ Store!Read(p) \/ UNCHANGED Store!vars
  <1>1. /\ pc[p] = "called" /\ req[p] \in Reads
        /\ \A q \in Clients \ {p} : pc'[q] = pc[q]
        /\ UNCHANGED <<colls, applied, phase, req>>
    BY DEF RLock, GoTo, commitVars, Inv, TypeOK, DataOK
  <1>2. CASE closed
    <2>1. pc'[p] = "ret" /\ Reply(p, Refused(req[p]))
      BY <1>2 DEF RLock, GoTo, Inv, TypeOK, DataOK
    <2>2. /\ Answered' = [Answered EXCEPT ![p] = Refused(req[p])]
          /\ Store!Pending(p)
      BY <1>1, <2>1, AnswerGiven
    <2>3. QED
      BY <1>1, <1>2, <2>2, RefusedIs DEF Store!Refuse, closed
  <1>3. CASE ~closed /\ req[p].op = "All"
    <2>1. pc'[p] = "clone" /\ res' = res
      BY <1>3 DEF RLock, GoTo, Inv, TypeOK, DataOK
    <2>2. PICK r : r = <<"docs", Store!DocsOf(colls)>>
      OBVIOUS
    <2>3. Store!Answer(req[p], colls) = r
      BY <1>3, <2>2 DEF Store!Answer
    <2>5. /\ Answered' = [Answered EXCEPT ![p] = r]
          /\ Store!Pending(p)
      BY <1>1, <2>1, <2>2, AnswerGiven
    <2>4. QED
      BY <1>1, <1>3, <2>3, <2>5 DEF Store!Read, closed, Reads
  <1>4. CASE ~closed /\ req[p].op # "All"
    <2>1. pc'[p] = "read" /\ res' = res
      BY <1>4 DEF RLock, GoTo, Inv, TypeOK, DataOK
    <2>2. Answered[p] = Nil /\ Answered'[p] = Nil
      BY <1>1, <2>1, AnsweredValue, AnsweredNext
    <2>3. QED
      BY <1>1, <2>1, <2>2, AnswerKept
  <1>5. QED
    BY <1>2, <1>3, <1>4

\* DB.read, Count and Collections answer with what is there.
LEMMA ReadMaps ==
  ASSUME Inv, NEW p \in Clients, Read(p)
  PROVE  Store!Read(p)
  <1>1. /\ pc[p] = "read" /\ req[p] \in Reads /\ req[p].op # "All"
        /\ phase = "open" /\ pc'[p] = "ret"
        /\ \A q \in Clients \ {p} : pc'[q] = pc[q]
        /\ UNCHANGED <<colls, applied, phase, req>>
    BY DEF Read, GoTo, commitVars, Inv, TypeOK, DataOK, CallInv, ClosedInv
  <1>2. Reply(p, Store!Answer(req[p], colls))
    <2>1. CASE req[p].op = "Get"
      BY <1>1, <2>1, ReadOps, StoreDocs DEF Read, Store!Answer
    <2>2. CASE req[p].op = "Has"
      BY <1>1, <2>2, ReadOps, StoreDocs DEF Read, Store!Answer
    <2>3. CASE req[p].op = "Count"
      <3>1. {i \in Ids : Store!DocsOf(colls)[i] # 0} = {i \in Ids : Doc(i) # 0}
        BY StoreDocs
      <3>2. Cardinality({i \in Ids : Store!DocsOf(colls)[i] # 0})
              = Cardinality({i \in Ids : Doc(i) # 0})
        BY <3>1
      <3>3. Store!Answer(req[p], colls)
              = <<"count", Cardinality({i \in Ids : Store!DocsOf(colls)[i] # 0})>>
        BY <2>3, SameCount DEF Store!Answer
      <3>4. Reply(p, <<"count", Cardinality({i \in Ids : Doc(i) # 0})>>)
        BY <2>3 DEF Read
      <3>5. QED
        BY <3>2, <3>3, <3>4
    <2>4. CASE req[p].op = "Collections"
      BY <2>4 DEF Read, Store!Answer
    <2>5. QED
      BY <1>1, <2>1, <2>2, <2>3, <2>4, ReadOps
  <1>3. /\ Answered' = [Answered EXCEPT ![p] = Store!Answer(req[p], colls)]
        /\ Store!Pending(p)
    BY <1>1, <1>2, AnswerGiven
  <1>4. QED
    BY <1>1, <1>3 DEF Store!Read, Reads

\* The rest of an iteration has the answer of its beginning.
LEMMA AllMaps ==
  ASSUME Inv, NEW p \in Clients, Clone(p) \/ Cloned(p) \/ Yield(p) \/ EndAll(p)
  PROVE  UNCHANGED Store!vars
  <1>1. /\ \A q \in Clients \ {p} : pc'[q] = pc[q] /\ res'[q] = res[q]
        /\ UNCHANGED <<colls, applied, phase, req>>
    BY YieldKeeps DEF Clone, Cloned, Yield, EndAll, GoTo, Reply, commitVars, Inv,
       TypeOK, DataOK
  <1>2. Answered'[p] = Answered[p]
    <2>1. CASE Clone(p)
      BY <2>1, <1>1, AnsweredValue, AnsweredNext DEF Clone
    <2>2. CASE Cloned(p)
      <3>1. /\ pc[p] = "clone" /\ left[p] = {} /\ pc'[p] = "iter"
            /\ res'[p] = <<"docs", snap[p]>> /\ snap[p] \in Docs
        BY <2>2 DEF Cloned, GoTo, Reply, Inv, TypeOK, DataOK
      <3>2. \A i \in Ids : snap[p][i] = Doc(i)
        BY <3>1 DEF Inv, CloneInv
      <3>3. snap[p] = Store!DocsOf(colls)
        BY <3>1, <3>2, StoreDocs DEF Inv, TypeOK, Docs
      <3>4. QED
        BY <3>1, <3>3, AnsweredValue, AnsweredNext
    <2>3. CASE Yield(p)
      BY <2>3, YieldKeeps, AnsweredValue, AnsweredNext DEF Yield
    <2>4. CASE EndAll(p)
      <3>1. pc[p] = "iter" /\ pc'[p] = "ret" /\ res' = res
        BY <2>4 DEF EndAll, GoTo, Inv, TypeOK, DataOK
      <3>2. QED
        BY <3>1, AnsweredValue, AnsweredNext
    <2>5. QED
      BY <2>1, <2>2, <2>3, <2>4
  <1>3. QED
    BY <1>1, <1>2, AnswerKept

\* Locking mu for writing on a closed database refuses the call.
LEMMA LockMaps ==
  ASSUME Inv, NEW p \in Clients, Lock(p)
  PROVE  Store!Refuse(p) \/ UNCHANGED Store!vars
  <1>1. /\ pc[p] = "called" /\ req[p] \in Writes
        /\ \A q \in Clients \ {p} : pc'[q] = pc[q]
        /\ UNCHANGED <<colls, applied, phase, req>>
    BY DEF Lock, GoTo, commitVars, Inv, TypeOK, DataOK
  <1>2. CASE closed
    <2>1. pc'[p] = "ret" /\ Reply(p, Refused(req[p]))
      BY <1>2 DEF Lock, GoTo, Inv, TypeOK, DataOK
    <2>2. /\ Answered' = [Answered EXCEPT ![p] = Refused(req[p])]
          /\ Store!Pending(p)
      BY <1>1, <2>1, AnswerGiven
    <2>3. QED
      BY <1>1, <1>2, <2>2, RefusedIs DEF Store!Refuse, closed
  <1>3. CASE ~closed
    <2>1. pc'[p] = "write" /\ res' = res
      BY <1>3 DEF Lock, GoTo, Inv, TypeOK, DataOK
    <2>2. Answered[p] = Nil /\ Answered'[p] = Nil
      BY <1>1, <2>1, AnsweredValue, AnsweredNext
    <2>3. QED
      BY <1>1, <2>1, <2>2, AnswerKept
  <1>4. QED
    BY <1>2, <1>3

\* DB.apply makes of the documents what the call asks for.
LEMMA ApplyMaps ==
  ASSUME DataOK, NEW c \in Writes, NEW n, apply(c, n)
  PROVE  colls' = Store!Changed(c, colls, n)
  <1>1. CASE c.op \in {"Set", "Update"}
    <2>1. [i \in Ids |-> IF i = c.id THEN n ELSE Doc(i)]
            = [Store!DocsOf(colls) EXCEPT ![c.id] = n]
      BY StoreDocs DEF Docs
    <2>2. QED
      BY <1>1, <2>1 DEF apply, Store!Changed
  <1>2. CASE c.op = "Delete"
    BY <1>2 DEF apply, Store!Changed
  <1>3. CASE c.op = "Drop"
    BY <1>3 DEF apply, Store!Changed
  <1>4. QED
    BY <1>1, <1>2, <1>3, WriteOps

\* A change takes effect when apply has made it, and what Update answers is
\* what it has replaced.
LEMMA WriteMaps ==
  ASSUME Inv, NEW p \in Clients, Write(p) \/ UpdateWrite(p)
  PROVE  Store!Write(p)
  <1>1. /\ pc[p] \in {"write", "fn"} /\ req[p] \in Writes
        /\ pc[p] = "fn" <=> req[p].op = "Update"
        /\ phase = "open" /\ pc'[p] = "unlock"
        /\ \A q \in Clients \ {p} : pc'[q] = pc[q]
        /\ applied' = applied + 1 /\ UNCHANGED <<phase, req>>
    BY DEF Write, UpdateWrite, GoTo, Commit!Submit, Inv, TypeOK, DataOK, CallInv
  <1>2. \A q \in Clients : pc[q] # "clone"
    BY <1>1 DEF Inv, TypeOK, MutexOK
  <1>3. colls' = Store!Changed(req[p], colls, applied + 1)
    BY <1>1, ApplyMaps DEF Write, UpdateWrite, Inv, TypeOK
  <1>4. CASE Write(p)
    <2>1. Reply(p, <<"done">>) /\ req[p].op # "Update"
      BY <1>4 DEF Write
    <2>2. /\ Answered' = [Answered EXCEPT ![p] = <<"done">>]
          /\ Store!Pending(p)
      BY <1>1, <1>2, <2>1, AnswerGiven
    <2>3. QED
      BY <1>1, <1>3, <2>1, <2>2 DEF Store!Write, Writes
  <1>5. CASE UpdateWrite(p)
    <2>1. Reply(p, <<"updated", val[p]>>) /\ req[p].op = "Update"
      BY <1>1, <1>5 DEF UpdateWrite
    <2>2. /\ Answered' = [Answered EXCEPT ![p] = <<"updated", val[p]>>]
          /\ Store!Pending(p)
      BY <1>1, <1>2, <2>1, AnswerGiven
    <2>3. req[p].id \in Ids
      BY <1>1, <2>1, WriteOps
    <2>4. val[p] = Store!DocsOf(colls)[req[p].id] /\ val[p] # 0
      BY <1>1, <2>1, <2>3, StoreDocs DEF Inv, UpdateInv
    <2>5. QED
      BY <1>1, <1>3, <2>1, <2>2, <2>4 DEF Store!Write, Writes
  <1>6. QED
    BY <1>4, <1>5

\* An oversized document, a missing one and a failing fn are declined.
LEMMA DeclineMaps ==
  ASSUME Inv, NEW p \in Clients, TooLarge(p) \/ UpdateRead(p) \/ FnFails(p)
  PROVE  Store!Decline(p) \/ UNCHANGED Store!vars
  <1>1. /\ pc[p] \in {"called", "write", "fn"}
        /\ \A q \in Clients \ {p} : pc'[q] = pc[q]
        /\ UNCHANGED <<colls, applied, phase, req>>
    BY DEF TooLarge, UpdateRead, FnFails, GoTo, commitVars, Inv, TypeOK, DataOK
  <1>2. CASE TooLarge(p)
    <2>1. req[p].op = "Set" /\ Reply(p, <<"error">>) /\ pc'[p] = "ret"
      BY <1>2 DEF TooLarge, GoTo, Inv, TypeOK, DataOK
    <2>2. /\ Answered' = [Answered EXCEPT ![p] = <<"error">>]
          /\ Store!Pending(p)
      BY <1>1, <2>1, AnswerGiven
    <2>3. QED
      BY <1>1, <2>1, <2>2 DEF Store!Decline
  <1>3. CASE UpdateRead(p)
    <2>1. /\ req[p].op = "Update" /\ req[p].id \in Ids /\ phase = "open"
          /\ pc[p] = "write"
      BY <1>3, WriteOps DEF UpdateRead, Inv, CallInv, ClosedInv
    <2>2. CASE Doc(req[p].id) = 0
      <3>1. Reply(p, <<"missing">>) /\ pc'[p] = "ret"
        BY <1>3, <2>2 DEF UpdateRead, GoTo, Inv, TypeOK, DataOK
      <3>2. /\ Answered' = [Answered EXCEPT ![p] = <<"missing">>]
            /\ Store!Pending(p)
        BY <1>1, <3>1, AnswerGiven
      <3>3. Store!DocsOf(colls)[req[p].id] = 0
        BY <2>1, <2>2, StoreDocs
      <3>4. QED
        BY <1>1, <2>1, <3>2, <3>3 DEF Store!Decline
    <2>3. CASE Doc(req[p].id) # 0
      <3>1. pc'[p] = "fn" /\ res' = res
        BY <1>3, <2>3 DEF UpdateRead, GoTo, Inv, TypeOK, DataOK
      <3>2. Answered[p] = Nil /\ Answered'[p] = Nil
        BY <1>1, <3>1, AnsweredValue, AnsweredNext
      <3>3. QED
        BY <1>1, <3>1, <3>2, AnswerKept
    <2>4. QED
      BY <2>2, <2>3
  <1>4. CASE FnFails(p)
    <2>1. /\ req[p].op = "Update" /\ req[p].id \in Ids /\ phase = "open"
          /\ val[p] = Doc(req[p].id) /\ val[p] # 0
          /\ Reply(p, <<"error">>) /\ pc'[p] = "ret"
      BY <1>4, WriteOps DEF FnFails, GoTo, Inv, TypeOK, DataOK, CallInv,
         ClosedInv, UpdateInv
    <2>2. /\ Answered' = [Answered EXCEPT ![p] = <<"error">>]
          /\ Store!Pending(p)
      BY <1>1, <2>1, AnswerGiven
    <2>3. Store!DocsOf(colls)[req[p].id] # 0
      BY <2>1, StoreDocs
    <2>4. QED
      BY <1>1, <2>1, <2>2, <2>3 DEF Store!Decline
  <1>5. QED
    BY <1>2, <1>3, <1>4

\* A change that waits to be durable has its answer.
LEMMA WaitMaps ==
  ASSUME Inv, NEW p \in Clients, Unlock(p) \/ Wait(p)
  PROVE  UNCHANGED Store!vars
  <1>1. /\ pc[p] \in {"unlock", "wait"} /\ pc'[p] \in {"wait", "ret"}
        /\ \A q \in Clients \ {p} : pc'[q] = pc[q]
        /\ UNCHANGED <<colls, applied, phase, req, res>>
    BY DEF Unlock, Wait, Commit!Succeed, Commit!Fail, GoTo, commitVars, Inv,
       TypeOK, DataOK
  <1>2. Answered[p] = res[p] /\ Answered'[p] = res[p]
    BY <1>1, AnsweredValue, AnsweredNext
  <1>3. QED
    BY <1>1, <1>2, AnswerKept

\* A call ends with its answer.
LEMMA ReturnMaps ==
  ASSUME Inv, NEW p \in Clients, Return(p)
  PROVE  Store!Return(p)
  <1>1. /\ pc[p] = "ret" /\ pc'[p] = "idle" /\ res[p] # Nil
        /\ \A q \in Clients \ {p} : pc'[q] = pc[q] /\ res'[q] = res[q]
        /\ UNCHANGED <<colls, applied, phase>>
        /\ req' = [req EXCEPT ![p] = Nil]
    BY DEF Return, GoTo, Reply, Inv, TypeOK, DataOK, ReplyInv
  <1>2. Answered[p] = res[p] /\ Answered'[p] = Nil
    BY <1>1, AnsweredValue, AnsweredNext
  <1>3. Answered' = [Answered EXCEPT ![p] = Nil]
    BY <1>1, <1>2, AnswerOne
  <1>4. QED
    BY <1>1, <1>2, <1>3 DEF Store!Return

\* Close closes the collection, and what it clears nobody looks at.
LEMMA CloseMaps ==
  ASSUME Inv, Run \/ CloseLock \/ CloseWait \/ Clear
  PROVE  Store!Close \/ Store!Forget \/ UNCHANGED Store!vars
  <1>1. UNCHANGED <<pc, res, req, applied>> /\ (colls' = colls \/ Clear)
    BY DEF Run, CloseLock, CloseWait, Clear, Commit!Harden, Commit!Break,
           Commit!BeginClose, Commit!EndClose, commitVars
  <1>2. Answered' = Answered
    <2>1. CASE colls' = colls
      BY <1>1, <2>1 DEF Answered
    <2>2. CASE Clear
      <3>1. \A q \in Clients : pc[q] # "clone"
        BY <2>2 DEF Clear, Inv, ClosedInv
      <3>2. QED
        BY <1>1, <3>1 DEF Answered
    <2>3. QED
      BY <1>1, <2>1, <2>2
  <1>3. CASE Run
    BY <1>1, <1>2, <1>3 DEF Run, Commit!Harden, Commit!Break, Store!vars
  <1>4. CASE CloseLock
    BY <1>1, <1>2, <1>4 DEF CloseLock, Commit!BeginClose, Store!Close
  <1>5. CASE CloseWait
    BY <1>1, <1>2, <1>5 DEF CloseWait, Commit!EndClose, Store!vars
  <1>6. CASE Clear
    BY <1>1, <1>2, <1>6 DEF Clear, commitVars, Store!Forget
  <1>7. QED
    BY <1>3, <1>4, <1>5, <1>6

\* Every step of the collection is one of AtomicCollection, or none.
LEMMA StepMaps == Inv /\ [Next]_vars => [Store!Next]_(Store!vars)
  <1> SUFFICES ASSUME Inv, [Next]_vars
               PROVE  Store!Next \/ UNCHANGED Store!vars
    OBVIOUS
  <1>1. ASSUME NEW p \in Clients, NEW c \in Reads \cup Writes, Invoke(p, c)
        PROVE  Store!Next
    BY <1>1, InvokeMaps DEF Store!Next
  <1>2. ASSUME NEW p \in Clients,
               \/ RLock(p) \/ Read(p) \/ Lock(p) \/ Write(p) \/ UpdateWrite(p)
               \/ TooLarge(p) \/ UpdateRead(p) \/ FnFails(p) \/ Return(p)
        PROVE  Store!Next \/ UNCHANGED Store!vars
    BY <1>2, RLockMaps, ReadMaps, LockMaps, WriteMaps, DeclineMaps, ReturnMaps
       DEF Store!Next
  <1>3. ASSUME NEW p \in Clients,
               \/ Clone(p) \/ Cloned(p) \/ Yield(p) \/ EndAll(p)
               \/ Unlock(p) \/ Wait(p)
        PROVE  UNCHANGED Store!vars
    BY <1>3, AllMaps, WaitMaps
  <1>4. CASE Run \/ CloseLock \/ CloseWait \/ Clear
    BY <1>4, CloseMaps DEF Store!Next
  <1>5. CASE UNCHANGED vars
    BY <1>5 DEF vars, commitVars, Answered, Store!vars
  <1>6. QED
    BY <1>1, <1>2, <1>3, <1>4, <1>5 DEF Next

\* A collection is linearizable: with locks, clones, user functions under mu
\* and Close clearing the maps without it, every call takes effect at one
\* moment between its invocation and its return.
THEOREM LinearizableHolds == Spec => Linearizable
  <1>1. Init => Store!Init
    <2> SUFFICES ASSUME Init
                 PROVE  Store!Init
      OBVIOUS
    <2>1. Answered = [p \in Clients |-> Nil]
      BY DEF Init, Answered
    <2>2. QED
      BY <2>1 DEF Init, Commit!Init, Store!Init
  <1>2. QED
    BY <1>1, StepMaps, InvHolds, PTL DEF Spec, Linearizable, Store!Spec
=============================================================================

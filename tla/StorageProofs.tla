---------------------------- MODULE StorageProofs ----------------------------
(***************************************************************************)
(* That no crash makes the log unreadable, for any collections, documents, *)
(* operations, kills, power losses and failures; and what the operators of *)
(* Storage do, which module StorageDurability needs as well.               *)
(***************************************************************************)
EXTENDS Storage, SequenceTheorems, TLAPS

\* writeSnapshot, and its part that handles files.
Snapshotting == {"snap", "files", "mksync", "dirsync", "truncate", "truncsync"}
Writing == {"files", "mksync", "dirsync"}

\* Where Open, run and Close are in step.
ControlInv ==
  /\ mode = "down" <=> pc = "down"
  /\ pc \in {"openlog", "load", "replay", "trim", "trimsync"} => mode = "opening"
  /\ mode = "opening" => pc \notin {"idle", "sync", "failed"}

\* writeLog has a batch only between its write and its fsync; nothing is queued
\* during Open, after a failure, and once the last round writes its snapshot,
\* which then leaves nothing dirty.
QueueInv ==
  /\ pc # "sync" => batch = << >>
  /\ mode \in {"down", "opening"} \/ pc = "failed" => pending = << >>
  /\ mode = "last" /\ pc \in Snapshotting => pending = << >>
  /\ mode = "last" /\ pc \in Snapshotting \ {"snap"} => dirty = {}

\* The log shows whole records of the history, with a torn tail only until Open
\* has cut it off or after a failure; so does all that may survive of it.
LogInv ==
  /\ wal \in walDisk
  /\ \A w \in walDisk : w.recs \in Seq(1..Len(hist))
  /\ wal.torn => pc \in {"down", "openlog", "load", "replay", "trim", "failed"}
  /\ ~walEntry => walDisk = {NoLog} /\ pc \in {"down", "openlog"}
  /\ pc = "truncsync" => wal = NoLog

\* DB.size counts the records of the log once replayLog has stored it, but for
\* a batch that waits for its fsync and for a log that is being emptied; a
\* failure leaves it behind.
Counted == {"idle", "snap", "files", "mksync", "dirsync", "truncate"}
SizeInv ==
  /\ pc \in {"trim", "trimsync"} => pos = Len(wal.recs)
  /\ pc \in Counted => size = Len(wal.recs)
  /\ pc = "sync" => size + Len(batch) = Len(wal.recs)

\* The inductive invariant.
Shape == TypeOK /\ ControlInv /\ QueueInv /\ LogInv /\ SizeInv

\* TypeOK in parts.
HistOK == hist \in Seq(Ops) /\ Len(hist) <= MaxOps /\ acked \subseteq 1..Len(hist)
PlaceOK ==
  /\ mode \in {"down", "opening", "running", "closing", "last"}
  /\ pc \in {"down", "openlog", "load", "replay", "trim", "trimsync", "idle",
             "sync", "snap", "files", "mksync", "dirsync", "truncate",
             "truncsync", "failed"}
QueueOK == pending \in Seq(1..Len(hist)) /\ batch \in Seq(1..Len(hist))
SnapsOK == (\E S \in SUBSET Colls : snaps \in [S -> Contents]) /\ name \in Colls \cup {Nil}
MapsOK == colls \in [Colls -> Contents] /\ dirty \subseteq Colls
FilesOK ==
  /\ file \in [Colls -> Contents] /\ disk \in [Colls -> SUBSET Contents]
  /\ sub \in {"none", "cached", "durable"}
WalOK == wal \in Logs /\ walDisk \subseteq Logs /\ walEntry \in BOOLEAN
UsedOK == used \in [kill : 0..MaxKills, loss : 0..MaxLosses, fail : 0..MaxFails]

USE StorageAssumption DEF Corrupt

-----------------------------------------------------------------------------
(* Sequences and logs *)

\* A sequence of numbers up to m is one of numbers up to n.
LEMMA SeqWider ==
  ASSUME NEW m \in Nat, NEW n \in Nat, m <= n, NEW s \in Seq(1..m)
  PROVE  s \in Seq(1..n)
  OBVIOUS

\* A log without records, as openLog creates it and Truncate(0) leaves it.
LEMMA EmptyLog ==
  /\ NoLog \in Logs /\ NoLog.recs = << >> /\ ~NoLog.torn
  /\ \A n \in Nat : NoLog.recs \in Seq(1..n)
  <1>1. NoLog \in Logs
    BY EmptySeq, Zenon DEF NoLog, Logs
  <1>2. NoLog.recs = << >> /\ ~NoLog.torn
    BY DEF NoLog
  <1>3. QED
    BY <1>1, <1>2

\* The elements of a concatenation.
LEMMA ConcatIs ==
  ASSUME NEW S, NEW s \in Seq(S), NEW b \in Seq(S)
  PROVE  /\ s \o b \in Seq(S) /\ Len(s \o b) = Len(s) + Len(b)
         /\ \A i \in 1..Len(s) : (s \o b)[i] = s[i]
         /\ \A i \in 1..Len(b) : (s \o b)[Len(s) + i] = b[i]
  <1>1. /\ s \o b \in Seq(S) /\ Len(s \o b) = Len(s) + Len(b)
        /\ \A i \in 1..Len(s) + Len(b) :
             (s \o b)[i] = IF i <= Len(s) THEN s[i] ELSE b[i - Len(s)]
    BY ConcatProperties
  <1>2. Len(s) \in Nat /\ Len(b) \in Nat
    OBVIOUS
  <1>3. ASSUME NEW i \in 1..Len(b)
        PROVE  (s \o b)[Len(s) + i] = b[i]
    <2>1. Len(s) + i \in 1..Len(s) + Len(b) /\ ~(Len(s) + i <= Len(s))
      BY <1>2
    <2>2. (Len(s) + i) - Len(s) = i
      BY <1>2
    <2>3. (s \o b)[Len(s) + i] = b[(Len(s) + i) - Len(s)]
      BY <1>1, <2>1
    <2>4. QED
      BY <2>2, <2>3
  <1>4. \A i \in 1..Len(s) : (s \o b)[i] = s[i]
    BY <1>1, <1>2
  <1>5. QED
    BY <1>1, <1>3, <1>4

\* A batch that is appended to whole records.
LEMMA AppendedIs ==
  ASSUME Shape, ~wal.torn, NEW k \in 0..Len(pending), NEW t \in BOOLEAN
  PROVE  /\ Appended(k, t) \in Logs /\ Appended(k, t).torn = t
         /\ Appended(k, t).recs \in Seq(1..Len(hist))
         /\ Len(Appended(k, t).recs) = Len(wal.recs) + k
         /\ \A i \in 1..Len(wal.recs) : Appended(k, t).recs[i] = wal.recs[i]
         /\ \A i \in 1..k : Appended(k, t).recs[Len(wal.recs) + i] = pending[i]
  <1> DEFINE b == SubSeq(pending, 1, k)
             r == wal.recs \o b
  <1>1. /\ Len(hist) \in Nat /\ Len(hist) <= MaxOps
        /\ pending \in Seq(1..Len(hist)) /\ wal.recs \in Seq(1..Len(hist))
    BY DEF Shape, TypeOK, LogInv
  <1>2. b \in Seq(1..Len(hist)) /\ Len(b) = k /\ \A i \in 1..k : b[i] = pending[i]
    <2>1. \A i \in 1..k : pending[i] \in 1..Len(hist)
      BY <1>1, SMTT(30)
    <2>2. QED
      BY <2>1, SubSeqProperties
  <1>3. Appended(k, t) = [recs |-> r, torn |-> t]
    <2>1. Appended(k, t) = [recs |-> r, torn |-> t \/ FALSE]
      BY DEF Appended
    <2>2. (t \/ FALSE) = t
      BY Zenon
    <2>3. QED
      BY <2>1, <2>2
  <1> HIDE DEF b
  <1>4. /\ r \in Seq(1..Len(hist)) /\ Len(r) = Len(wal.recs) + k
        /\ \A i \in 1..Len(wal.recs) : r[i] = wal.recs[i]
        /\ \A i \in 1..k : r[Len(wal.recs) + i] = pending[i]
    <2>1. PICK S : S = 1..Len(hist)
      OBVIOUS
    <2>2. PICK s : s = wal.recs
      OBVIOUS
    <2>3. PICK d : d = b
      OBVIOUS
    <2>4. s \in Seq(S) /\ d \in Seq(S) /\ r = s \o d
      BY <1>1, <1>2, <2>1, <2>2, <2>3
    <2> HIDE DEF r
    <2>5. /\ r \in Seq(S) /\ Len(r) = Len(s) + Len(d)
          /\ \A i \in 1..Len(s) : r[i] = s[i]
          /\ \A i \in 1..Len(d) : r[Len(s) + i] = d[i]
      BY <2>4, ConcatIs, SMTT(30)
    <2>6. QED
      BY <1>2, <2>1, <2>2, <2>3, <2>5
  <1>5. r \in Seq(0..MaxOps)
    BY <1>1, <1>4, SMTT(30)
  <1> HIDE DEF r
  <1>6. Appended(k, t) \in Logs
    BY <1>3, <1>5 DEF Logs
  <1>7. Appended(k, t).recs = r /\ Appended(k, t).torn = t
    BY <1>3
  <1>8. QED
    BY <1>4, <1>6, <1>7

-----------------------------------------------------------------------------
(* Every step keeps the shape *)

\* The history grows, and what is in it stays.
Grows ==
  /\ Len(hist) \in Nat /\ Len(hist') \in Nat /\ Len(hist) <= Len(hist')
  /\ \A n \in 1..Len(hist) : hist'[n] = hist[n]
  /\ acked \subseteq acked'

\* Operations are only added to the history, and acknowledged ones stay so.
LEMMA HistStep ==
  ASSUME HistOK, QueueOK, [Next]_vars
  PROVE  HistOK' /\ Grows
  <1> USE DEF HistOK, QueueOK, Grows
  <1>1. ASSUME NEW o \in Ops, Change(o)
        PROVE  HistOK' /\ Grows
    BY <1>1 DEF Change
  <1>2. CASE SyncLog
    BY <1>2 DEF SyncLog
  <1>3. CASE Open \/ OpenLog \/ Load \/ Replay \/ ReplayEnd
    <2>1. UNCHANGED <<hist, acked>>
      BY <1>3, Zenon DEF Open, OpenLog, Load, Replay, ReplayEnd
    <2>2. QED
      BY <2>1
  <1>4. CASE Trim \/ TrimSync \/ WriteLog \/ Tick \/ SnapshotNothing
    <2>1. UNCHANGED <<hist, acked>>
      BY <1>4, Zenon DEF Trim, TrimSync, WriteLog, Tick, SnapshotNothing
    <2>2. QED
      BY <2>1
  <1>5. CASE Capture \/ (\E c \in Colls : Mkdir(c))
             \/ (\E c \in Colls : Rename(c)) \/ (\E c \in Colls : Remove(c))
             \/ (\E c \in Colls : RemoveNothing(c))
    <2>1. UNCHANGED <<hist, acked>>
      BY <1>5, Zenon DEF Capture, Mkdir, Rename, Remove, RemoveNothing
    <2>2. QED
      BY <2>1
  <1>6. CASE MkdirSync \/ DirSync \/ FilesDone \/ TruncateLog \/ TruncateSync
    <2>1. UNCHANGED <<hist, acked>>
      BY <1>6, Zenon DEF MkdirSync, DirSync, FilesDone, TruncateLog, TruncateSync
    <2>2. QED
      BY <2>1
  <1>7. CASE Close \/ Stop \/ CloseFailed \/ Kill \/ PowerLoss
    <2>1. UNCHANGED <<hist, acked>>
      BY <1>7, Zenon DEF Close, Stop, CloseFailed, Kill, PowerLoss
    <2>2. QED
      BY <2>1
  <1>8. CASE UNCHANGED vars
    BY <1>8 DEF vars
  <1>9. QED
    BY <1>1, <1>2, <1>3, <1>4, <1>5, <1>6, <1>7, <1>8 DEF Next, OpenStep,
       SnapshotStep

\* Open, run and Close stay in step.
LEMMA ControlStep ==
  ASSUME PlaceOK, ControlInv, [Next]_vars
  PROVE  PlaceOK' /\ ControlInv'
  <1> USE DEF PlaceOK, ControlInv
  <1>a. Fail /\ pc # "down" => PlaceOK' /\ ControlInv'
    BY DEF Fail
  <1>1. CASE Open
    BY <1>1 DEF Open
  <1>2. CASE OpenLog
    BY <1>2, <1>a DEF OpenLog
  <1>3. CASE Load
    BY <1>3, <1>a DEF Load
  <1>4. CASE Replay
    BY <1>4 DEF Replay
  <1>5. CASE ReplayEnd
    BY <1>5 DEF ReplayEnd
  <1>6. CASE Trim
    BY <1>6, <1>a DEF Trim
  <1>7. CASE TrimSync
    BY <1>7, <1>a DEF TrimSync
  <1>8. ASSUME NEW o \in Ops, Change(o)
        PROVE  PlaceOK' /\ ControlInv'
    BY <1>8 DEF Change
  <1>9. CASE WriteLog
    BY <1>9, <1>a DEF WriteLog
  <1>10. CASE SyncLog
    BY <1>10, <1>a DEF SyncLog
  <1>11. CASE Tick
    BY <1>11 DEF Tick
  <1>12. CASE SnapshotNothing
    BY <1>12 DEF SnapshotNothing, AfterSnapshot
  <1>13. CASE Capture
    BY <1>13 DEF Capture
  <1>14. ASSUME NEW c \in Colls, Mkdir(c)
         PROVE  PlaceOK' /\ ControlInv'
    BY <1>14, <1>a DEF Mkdir, Handles
  <1>15. ASSUME NEW c \in Colls, Rename(c)
         PROVE  PlaceOK' /\ ControlInv'
    BY <1>15, <1>a DEF Rename, Handles
  <1>16. ASSUME NEW c \in Colls, Remove(c)
         PROVE  PlaceOK' /\ ControlInv'
    BY <1>16, <1>a DEF Remove, Handles
  <1>17. ASSUME NEW c \in Colls, RemoveNothing(c)
         PROVE  PlaceOK' /\ ControlInv'
    BY <1>17 DEF RemoveNothing, Handles
  <1>18. CASE MkdirSync
    BY <1>18, <1>a DEF MkdirSync
  <1>19. CASE DirSync
    BY <1>19, <1>a DEF DirSync
  <1>20. CASE FilesDone
    BY <1>20 DEF FilesDone
  <1>21. CASE TruncateLog
    BY <1>21, <1>a DEF TruncateLog
  <1>22. CASE TruncateSync
    BY <1>22, <1>a DEF TruncateSync, AfterSnapshot
  <1>23. CASE Close
    BY <1>23 DEF Close
  <1>24. CASE Stop
    BY <1>24 DEF Stop
  <1>25. CASE CloseFailed
    BY <1>25 DEF CloseFailed
  <1>26. CASE Kill
    BY <1>26 DEF Kill
  <1>27. CASE PowerLoss
    BY <1>27 DEF PowerLoss
  <1>28. CASE UNCHANGED vars
    BY <1>28 DEF vars
  <1>29. QED
    BY <1>1, <1>2, <1>3, <1>4, <1>5, <1>6, <1>7, <1>8, <1>9, <1>10, <1>11, <1>12,
       <1>13, <1>14, <1>15, <1>16, <1>17, <1>18, <1>19, <1>20, <1>21, <1>22,
       <1>23, <1>24, <1>25, <1>26, <1>27, <1>28 DEF Next, OpenStep, SnapshotStep

\* Appending an element to a sequence over its set.
LEMMA AppendIn ==
  ASSUME NEW S, NEW s \in Seq(S), NEW e \in S
  PROVE  Append(s, e) \in Seq(S)
  OBVIOUS

\* The empty queue is one of operations.
LEMMA EmptyQueue ==
  \A n \in Nat : << >> \in Seq(1..n)
  OBVIOUS

\* The queue and the batch, in step with run.
LEMMA QueueStep ==
  ASSUME HistOK, PlaceOK, ControlInv, QueueOK, QueueInv, [Next]_vars
  PROVE  QueueOK' /\ QueueInv'
  <1>h. Grows /\ HistOK'
    BY HistStep
  <1>n. Len(hist) \in Nat /\ Len(hist') \in Nat /\ Len(hist) <= Len(hist')
    BY <1>h DEF Grows
  <1> USE DEF QueueInv, Snapshotting
  <1>s. \A s \in Seq(1..Len(hist)) : s \in Seq(1..Len(hist'))
    BY <1>n, SeqWider
  <1>e. << >> \in Seq(1..Len(hist'))
    BY <1>n, EmptyQueue
  <1>k. pending \in Seq(1..Len(hist')) /\ batch \in Seq(1..Len(hist'))
    BY <1>s DEF QueueOK
  <1>a. Fail /\ pc # "down" => QueueOK' /\ QueueInv'
    BY <1>e DEF Fail, NoMemory, QueueOK, ControlInv
  <1>b. NoMemory /\ pc' = "down" => QueueOK' /\ QueueInv'
    BY <1>e DEF NoMemory, QueueOK
  <1>1. CASE Open
    BY <1>1, <1>k DEF Open, QueueOK, ControlInv, memVars
  <1>2. CASE OpenLog
    BY <1>2, <1>k, <1>a DEF OpenLog, QueueOK, ControlInv, memVars
  <1>3. CASE Load
    BY <1>3, <1>k, <1>a DEF Load, QueueOK, ControlInv, memVars
  <1>4. CASE Replay
    BY <1>4, <1>k, <1>b DEF Replay, QueueOK, ControlInv, memVars, apply
  <1>5. CASE ReplayEnd
    BY <1>5, <1>k DEF ReplayEnd, QueueOK, ControlInv, memVars
  <1>6. CASE Trim
    BY <1>6, <1>k, <1>a DEF Trim, QueueOK, ControlInv, memVars
  <1>7. CASE TrimSync
    BY <1>7, <1>k, <1>a DEF TrimSync, QueueOK, ControlInv, memVars
  <1>8. ASSUME NEW o \in Ops, Change(o)
        PROVE  QueueOK' /\ QueueInv'
    <2>1. Len(hist') \in 1..Len(hist')
      BY <1>n, <1>8 DEF Change, HistOK
    <2>2. pending' \in Seq(1..Len(hist'))
      <3>1. pending' = pending \/ pending' = Append(pending, Len(hist'))
        BY <1>8, Zenon DEF Change
      <3>2. Append(pending, Len(hist')) \in Seq(1..Len(hist'))
        BY <1>k, <2>1, AppendIn
      <3>3. QED
        BY <1>k, <3>1, <3>2
    <2>3. QED
      BY <1>k, <1>8, <2>2 DEF Change, QueueOK, ControlInv, apply
  <1>9. CASE WriteLog
    BY <1>9, <1>k, <1>a, <1>e DEF WriteLog, QueueOK, ControlInv, memVars
  <1>10. CASE SyncLog
    BY <1>10, <1>k, <1>a, <1>e DEF SyncLog, QueueOK, ControlInv, memVars
  <1>11. CASE Tick
    BY <1>11, <1>k DEF Tick, QueueOK, ControlInv, memVars
  <1>12. CASE SnapshotNothing
    BY <1>12, <1>k, <1>b DEF SnapshotNothing, QueueOK, ControlInv, memVars,
       AfterSnapshot
  <1>13. CASE Capture
    BY <1>13, <1>k DEF Capture, QueueOK, ControlInv, memVars
  <1>14. ASSUME NEW c \in Colls, Mkdir(c)
         PROVE  QueueOK' /\ QueueInv'
    BY <1>14, <1>k, <1>a DEF Mkdir, QueueOK, ControlInv, memVars, Handles
  <1>15. ASSUME NEW c \in Colls, Rename(c)
         PROVE  QueueOK' /\ QueueInv'
    BY <1>15, <1>k, <1>a DEF Rename, QueueOK, ControlInv, memVars, Handles
  <1>16. ASSUME NEW c \in Colls, Remove(c)
         PROVE  QueueOK' /\ QueueInv'
    BY <1>16, <1>k, <1>a DEF Remove, QueueOK, ControlInv, memVars, Handles
  <1>17. ASSUME NEW c \in Colls, RemoveNothing(c)
         PROVE  QueueOK' /\ QueueInv'
    BY <1>17, <1>k DEF RemoveNothing, QueueOK, ControlInv, memVars, Handles
  <1>18. CASE MkdirSync
    BY <1>18, <1>k, <1>a DEF MkdirSync, QueueOK, ControlInv, memVars
  <1>19. CASE DirSync
    BY <1>19, <1>k, <1>a DEF DirSync, QueueOK, ControlInv, memVars
  <1>20. CASE FilesDone
    BY <1>20, <1>k DEF FilesDone, QueueOK, ControlInv, memVars
  <1>21. CASE TruncateLog
    BY <1>21, <1>k, <1>a DEF TruncateLog, QueueOK, ControlInv, memVars
  <1>22. CASE TruncateSync
    BY <1>22, <1>k, <1>a, <1>b DEF TruncateSync, QueueOK, ControlInv, memVars,
       AfterSnapshot
  <1>23. CASE Close
    BY <1>23, <1>k DEF Close, QueueOK, ControlInv, memVars
  <1>24. CASE Stop
    BY <1>24, <1>k DEF Stop, QueueOK, ControlInv, memVars
  <1>25. CASE CloseFailed
    BY <1>25, <1>k, <1>b DEF CloseFailed, QueueOK, ControlInv, memVars
  <1>26. CASE Kill
    BY <1>26, <1>k, <1>b DEF Kill, QueueOK, ControlInv, memVars
  <1>27. CASE PowerLoss
    BY <1>27, <1>k, <1>b DEF PowerLoss, QueueOK, ControlInv, memVars
  <1>28. CASE UNCHANGED vars
    BY <1>28, <1>k DEF vars, QueueOK, ControlInv, memVars
  <1>29. QED
    BY <1>1, <1>2, <1>3, <1>4, <1>5, <1>6, <1>7, <1>8, <1>9, <1>10, <1>11, <1>12,
       <1>13, <1>14, <1>15, <1>16, <1>17, <1>18, <1>19, <1>20, <1>21, <1>22,
       <1>23, <1>24, <1>25, <1>26, <1>27, <1>28 DEF Next, OpenStep, SnapshotStep

-----------------------------------------------------------------------------
(* The maps and the files *)

\* What operation n, which is o, makes of collection f.
Becomes(f, n, o) ==
  IF o.op = "set" THEN [(IF f = Nil THEN Empty ELSE f) EXCEPT ![o.id] = n]
  ELSE IF o.op = "drop" \/ f = Nil THEN Nil
  ELSE [f EXCEPT ![o.id] = 0]

\* DB.apply makes a collection, or none, of a collection or none.
LEMMA BecomesIn ==
  ASSUME NEW f \in Contents, NEW n \in 0..MaxOps, NEW o \in Ops
  PROVE  Becomes(f, n, o) \in Contents
  <1>1. Empty \in Docs
    BY DEF Empty, Docs
  <1>2. CASE o.op = "set"
    <2>1. PICK g \in Docs : g = IF f = Nil THEN Empty ELSE f
      BY <1>1 DEF Contents
    <2>2. o.id \in Ids
      BY <1>2 DEF Ops
    <2>3. [g EXCEPT ![o.id] = n] \in Docs
      BY <2>1, <2>2 DEF Docs
    <2>4. QED
      BY <1>2, <2>1, <2>3 DEF Becomes, Contents
  <1>3. CASE o.op # "set"
    <2>1. CASE o.op = "drop" \/ f = Nil
      BY <1>3, <2>1 DEF Becomes, Contents
    <2>2. CASE o.op # "drop" /\ f # Nil
      <3>1. f \in Docs
        BY <2>2 DEF Contents
      <3>2. o.id \in Ids /\ 0 \in 0..MaxOps
        BY <1>3, <2>2 DEF Ops
      <3>3. PICK i \in Ids : i = o.id
        BY <3>2
      <3>4. [f EXCEPT ![i] = 0] \in Docs
        BY <3>1, <3>2 DEF Docs
      <3>5. QED
        BY <1>3, <2>2, <3>3, <3>4 DEF Becomes, Contents
    <2>3. QED
      BY <2>1, <2>2
  <1>4. QED
    BY <1>2, <1>3

\* DB.apply changes the one collection that its operation names.
LEMMA AppliedIs ==
  ASSUME colls \in [Colls -> Contents], NEW n, NEW o \in Ops
  PROVE  Applied(n, o) = [colls EXCEPT ![o.coll] = Becomes(colls[o.coll], n, o)]
  <1>1. o.op \in {"set", "del", "drop"} /\ o.coll \in Colls
    BY DEF Ops
  <1>2. CASE o.op = "set"
    BY <1>1, <1>2 DEF Applied, Becomes
  <1>3. CASE o.op = "del"
    BY <1>1, <1>3 DEF Applied, Becomes
  <1>4. CASE o.op = "drop"
    BY <1>1, <1>4 DEF Applied, Becomes
  <1>5. QED
    BY <1>1, <1>2, <1>3, <1>4

\* DB.apply keeps the maps' type and leaves the other collections alone.
LEMMA AppliedIn ==
  ASSUME colls \in [Colls -> Contents], NEW n \in 0..MaxOps, NEW o \in Ops
  PROVE  /\ Applied(n, o) \in [Colls -> Contents] /\ o.coll \in Colls
         /\ \A c \in Colls :
              Applied(n, o)[c] = IF c = o.coll THEN Becomes(colls[c], n, o) ELSE colls[c]
  <1>1. o.coll \in Colls
    BY DEF Ops
  <1>2. Becomes(colls[o.coll], n, o) \in Contents
    BY <1>1, BecomesIn
  <1>3. PICK b : b = Becomes(colls[o.coll], n, o)
    OBVIOUS
  <1>4. Applied(n, o) = [colls EXCEPT ![o.coll] = b]
    BY <1>3, AppliedIs
  <1>5. QED
    BY <1>1, <1>2, <1>3, <1>4

\* The record that Replay reads is an operation of the history.
LEMMA ReplayReads ==
  ASSUME Shape, pos < Len(wal.recs)
  PROVE  /\ wal.recs[pos + 1] \in 1..Len(hist) /\ wal.recs[pos + 1] \in 0..MaxOps
         /\ wal.recs[pos + 1] # Corrupt /\ hist[wal.recs[pos + 1]] \in Ops
         /\ pos \in Nat
  <1>1. wal.recs \in Seq(1..Len(hist)) /\ pos \in Nat /\ hist \in Seq(Ops)
    BY DEF Shape, TypeOK, LogInv
  <1>2. PICK n : n = wal.recs[pos + 1]
    OBVIOUS
  <1>3. n \in 1..Len(hist) /\ Len(hist) <= MaxOps
    <2>1. PICK r : r = wal.recs
      OBVIOUS
    <2>2. pos + 1 \in 1..Len(r) /\ r \in Seq(1..Len(hist))
      BY <1>1, <2>1
    <2>3. n \in 1..Len(hist)
      BY <1>2, <2>1, <2>2
    <2>4. QED
      BY <2>3 DEF Shape, TypeOK
  <1>4. QED
    BY <1>1, <1>2, <1>3, SMTT(30)

\* DB.colls and DB.dirty hold collections.
LEMMA MapsStep ==
  ASSUME Shape, [Next]_vars
  PROVE  MapsOK'
  <1> USE DEF MapsOK
  <1>t. colls \in [Colls -> Contents] /\ dirty \subseteq Colls /\ file \in [Colls -> Contents]
    BY DEF Shape, TypeOK
  <1>m. NoMemory => MapsOK'
    BY DEF NoMemory, Contents
  <1>a. Fail => MapsOK'
    BY <1>t, <1>m DEF Fail
  <1>p. ASSUME NEW n \in 0..MaxOps, NEW o \in Ops, apply(n, o)
        PROVE  MapsOK'
    <2>1. Applied(n, o) \in [Colls -> Contents] /\ o.coll \in Colls
      BY <1>t, AppliedIn
    <2>2. QED
      BY <1>t, <1>p, <2>1 DEF apply
  <1>1. CASE Open
    BY <1>1, <1>t DEF Open, memVars
  <1>2. CASE OpenLog
    BY <1>2, <1>t, <1>a DEF OpenLog, memVars
  <1>3. CASE Load
    BY <1>3, <1>t, <1>a DEF Load, memVars
  <1>4. CASE Replay
    <2>1. PICK n : n = wal.recs[pos + 1]
      OBVIOUS
    <2>2. n \in 0..MaxOps /\ n # Corrupt /\ hist[n] \in Ops
      BY <1>4, <2>1, ReplayReads DEF Replay
    <2>3. apply(n, hist[n])
      BY <1>4, <2>1, <2>2 DEF Replay
    <2>4. QED
      BY <1>p, <2>2, <2>3
  <1>5. CASE ReplayEnd
    BY <1>5, <1>t DEF ReplayEnd, memVars
  <1>6. CASE Trim
    BY <1>6, <1>t, <1>a DEF Trim, memVars
  <1>7. CASE TrimSync
    BY <1>7, <1>t, <1>a DEF TrimSync, memVars
  <1>8. ASSUME NEW o \in Ops, Change(o)
        PROVE  MapsOK'
    <2>1. Len(hist') \in 0..MaxOps /\ apply(Len(hist'), o)
      BY <1>8 DEF Change, Shape, TypeOK
    <2>2. QED
      BY <2>1, <1>p
  <1>9. CASE WriteLog
    BY <1>9, <1>t, <1>a DEF WriteLog, memVars
  <1>10. CASE SyncLog
    BY <1>10, <1>t, <1>a DEF SyncLog, memVars
  <1>11. CASE Tick
    BY <1>11, <1>t DEF Tick, memVars
  <1>12. CASE SnapshotNothing
    BY <1>12, <1>t, <1>m DEF SnapshotNothing, memVars, AfterSnapshot
  <1>13. CASE Capture
    BY <1>13, <1>t DEF Capture, memVars
  <1>14. ASSUME NEW c \in Colls, Mkdir(c)
         PROVE  MapsOK'
    BY <1>14, <1>t, <1>a DEF Mkdir, memVars
  <1>15. ASSUME NEW c \in Colls, Rename(c)
         PROVE  MapsOK'
    BY <1>15, <1>t, <1>a DEF Rename, memVars
  <1>16. ASSUME NEW c \in Colls, Remove(c)
         PROVE  MapsOK'
    BY <1>16, <1>t, <1>a DEF Remove, memVars
  <1>17. ASSUME NEW c \in Colls, RemoveNothing(c)
         PROVE  MapsOK'
    BY <1>17, <1>t DEF RemoveNothing, memVars
  <1>18. CASE MkdirSync
    BY <1>18, <1>t, <1>a DEF MkdirSync, memVars
  <1>19. CASE DirSync
    BY <1>19, <1>t, <1>a DEF DirSync, memVars
  <1>20. CASE FilesDone
    BY <1>20, <1>t DEF FilesDone, memVars
  <1>21. CASE TruncateLog
    BY <1>21, <1>t, <1>a DEF TruncateLog, memVars
  <1>22. CASE TruncateSync
    BY <1>22, <1>t, <1>a, <1>m DEF TruncateSync, memVars, AfterSnapshot
  <1>23. CASE Close
    BY <1>23, <1>t DEF Close, memVars
  <1>24. CASE Stop
    BY <1>24, <1>t DEF Stop, memVars
  <1>25. CASE CloseFailed
    BY <1>25, <1>t, <1>m DEF CloseFailed, memVars
  <1>26. CASE Kill
    BY <1>26, <1>t, <1>m DEF Kill, memVars
  <1>27. CASE PowerLoss
    BY <1>27, <1>t, <1>m DEF PowerLoss, memVars
  <1>28. CASE UNCHANGED vars
    BY <1>28, <1>t DEF vars, memVars
  <1>29. QED
    BY <1>1, <1>2, <1>3, <1>4, <1>5, <1>6, <1>7, <1>8, <1>9, <1>10, <1>11, <1>12,
       <1>13, <1>14, <1>15, <1>16, <1>17, <1>18, <1>19, <1>20, <1>21, <1>22,
       <1>23, <1>24, <1>25, <1>26, <1>27, <1>28 DEF Next, OpenStep, SnapshotStep

\* No file to handle.
LEMMA NoSnaps ==
  \E S \in SUBSET Colls : << >> \in [S -> Contents]
  <1>1. << >> \in [{} -> Contents]
    OBVIOUS
  <1>2. QED
    BY <1>1

\* What is left of the files to handle.
LEMMA FewerSnaps ==
  ASSUME SnapsOK, NEW n
  PROVE  \E S \in SUBSET Colls : [d \in DOMAIN snaps \ {n} |-> snaps[d]] \in [S -> Contents]
  <1>1. PICK S \in SUBSET Colls : snaps \in [S -> Contents]
    BY DEF SnapsOK
  <1>2. [d \in DOMAIN snaps \ {n} |-> snaps[d]] \in [S \ {n} -> Contents]
    BY <1>1
  <1>3. S \ {n} \in SUBSET Colls
    OBVIOUS
  <1>4. QED
    BY <1>2, <1>3

\* The files to handle are of collections.
LEMMA SnapsStep ==
  ASSUME Shape, [Next]_vars
  PROVE  SnapsOK'
  <1> USE DEF SnapsOK
  <1>t. SnapsOK /\ MapsOK
    BY DEF Shape, TypeOK, MapsOK
  <1>m. NoMemory => SnapsOK'
    BY NoSnaps DEF NoMemory
  <1>a. Fail => SnapsOK'
    BY NoSnaps DEF Fail, NoMemory
  <1>1. CASE Open
    BY <1>1, <1>t DEF Open, memVars
  <1>2. CASE OpenLog
    BY <1>2, <1>t, <1>a DEF OpenLog, memVars
  <1>3. CASE Load
    BY <1>3, <1>t, <1>a DEF Load, memVars
  <1>4. CASE Replay
    BY <1>4, <1>t, <1>m DEF Replay, memVars
  <1>5. CASE ReplayEnd
    BY <1>5, <1>t DEF ReplayEnd, memVars
  <1>6. CASE Trim
    BY <1>6, <1>t, <1>a DEF Trim, memVars
  <1>7. CASE TrimSync
    BY <1>7, <1>t, <1>a DEF TrimSync, memVars
  <1>8. ASSUME NEW o \in Ops, Change(o)
        PROVE  SnapsOK'
    BY <1>8, <1>t DEF Change, memVars
  <1>9. CASE WriteLog
    BY <1>9, <1>t, <1>a DEF WriteLog, memVars
  <1>10. CASE SyncLog
    BY <1>10, <1>t, <1>a DEF SyncLog, memVars
  <1>11. CASE Tick
    BY <1>11, <1>t DEF Tick, memVars
  <1>12. CASE SnapshotNothing
    BY <1>12, <1>t, <1>m DEF SnapshotNothing, memVars, AfterSnapshot
  <1>13. CASE Capture
    <2>1. snaps' \in [dirty -> Contents] /\ dirty \in SUBSET Colls
      BY <1>13, <1>t DEF Capture, MapsOK
    <2>2. QED
      BY <1>13, <1>t, <2>1 DEF Capture
  <1>14. ASSUME NEW c \in Colls, Mkdir(c)
         PROVE  SnapsOK'
    BY <1>14, <1>t, <1>a DEF Mkdir, memVars, Handles
  <1>15. ASSUME NEW c \in Colls, Rename(c)
         PROVE  SnapsOK'
    BY <1>15, <1>t, <1>a DEF Rename, memVars, Handles
  <1>16. ASSUME NEW c \in Colls, Remove(c)
         PROVE  SnapsOK'
    BY <1>16, <1>t, <1>a DEF Remove, memVars, Handles
  <1>17. ASSUME NEW c \in Colls, RemoveNothing(c)
         PROVE  SnapsOK'
    BY <1>17, <1>t, FewerSnaps DEF RemoveNothing, memVars, Handles
  <1>18. CASE MkdirSync
    BY <1>18, <1>t, <1>a DEF MkdirSync, memVars
  <1>19. CASE DirSync
    BY <1>19, <1>t, <1>a, FewerSnaps DEF DirSync, memVars
  <1>20. CASE FilesDone
    BY <1>20, <1>t DEF FilesDone, memVars
  <1>21. CASE TruncateLog
    BY <1>21, <1>t, <1>a DEF TruncateLog, memVars
  <1>22. CASE TruncateSync
    BY <1>22, <1>t, <1>a, <1>m DEF TruncateSync, memVars, AfterSnapshot
  <1>23. CASE Close
    BY <1>23, <1>t DEF Close, memVars
  <1>24. CASE Stop
    BY <1>24, <1>t DEF Stop, memVars
  <1>25. CASE CloseFailed
    BY <1>25, <1>t, <1>m DEF CloseFailed, memVars
  <1>26. CASE Kill
    BY <1>26, <1>t, <1>m DEF Kill, memVars
  <1>27. CASE PowerLoss
    BY <1>27, <1>t, <1>m DEF PowerLoss, memVars
  <1>28. CASE UNCHANGED vars
    BY <1>28, <1>t DEF vars, memVars
  <1>29. QED
    BY <1>1, <1>2, <1>3, <1>4, <1>5, <1>6, <1>7, <1>8, <1>9, <1>10, <1>11, <1>12,
       <1>13, <1>14, <1>15, <1>16, <1>17, <1>18, <1>19, <1>20, <1>21, <1>22,
       <1>23, <1>24, <1>25, <1>26, <1>27, <1>28 DEF Next, OpenStep, SnapshotStep

\* The snapshot files hold collections.
LEMMA FilesStep ==
  ASSUME Shape, [Next]_vars
  PROVE  FilesOK'
  <1> USE DEF FilesOK
  <1>t. FilesOK /\ SnapsOK
    BY DEF Shape, TypeOK, SnapsOK
  <1>d. ASSUME NEW b, SyncDir(b), file' = file
        PROVE  FilesOK'
    <2>1. \A c \in Colls : {file[c]} \in SUBSET Contents /\ disk[c] \in SUBSET Contents
      BY <1>t
    <2>2. disk' \in [Colls -> SUBSET Contents]
      BY <1>d, <2>1 DEF SyncDir
    <2>3. sub' \in {"none", "cached", "durable"}
      BY <1>d, <1>t DEF SyncDir
    <2>4. QED
      BY <1>d, <1>t, <2>2, <2>3
  <1>u. UNCHANGED <<file, disk, sub>> => FilesOK'
    BY <1>t
  <1>s. ASSUME NEW c \in DOMAIN snaps
        PROVE  snaps[c] \in Contents /\ c \in Colls
    BY <1>t DEF SnapsOK
  <1>1. CASE OpenLog
    <2>1. CASE UNCHANGED <<file, disk, sub>>
      BY <1>u, <2>1
    <2>2. CASE SyncDir(FALSE)
      <3>1. PICK b : b = (FALSE)
        OBVIOUS
      <3>2. SyncDir(b) /\ file' = file
        BY <1>1, <2>2, <3>1 DEF OpenLog
      <3>3. QED
        BY <1>d, <3>2
    <2>3. QED
      BY <1>1, <2>1, <2>2 DEF OpenLog
  <1>2. CASE MkdirSync
    <2>1. CASE UNCHANGED <<file, disk, sub>>
      BY <1>u, <2>1
    <2>2. CASE SyncDir(FALSE)
      <3>1. PICK b : b = (FALSE)
        OBVIOUS
      <3>2. SyncDir(b) /\ file' = file
        BY <1>2, <2>2, <3>1 DEF MkdirSync
      <3>3. QED
        BY <1>d, <3>2
    <2>3. QED
      BY <1>2, <2>1, <2>2 DEF MkdirSync
  <1>3. CASE DirSync
    <2>1. CASE UNCHANGED <<file, disk, sub>>
      BY <1>u, <2>1
    <2>2. CASE SyncDir(name \in Nested)
      <3>1. PICK b : b = (name \in Nested)
        OBVIOUS
      <3>2. SyncDir(b) /\ file' = file
        BY <1>3, <2>2, <3>1 DEF DirSync
      <3>3. QED
        BY <1>d, <3>2
    <2>3. QED
      BY <1>3, <2>1, <2>2 DEF DirSync
  <1>4. ASSUME NEW c \in Colls, Mkdir(c)
        PROVE  FilesOK'
    BY <1>4, <1>t DEF Mkdir
  <1>5. ASSUME NEW c \in Colls, Rename(c)
        PROVE  FilesOK'
    <2>1. PICK v \in Contents : v = snaps[c]
      BY <1>5, <1>s DEF Rename, Handles, Contents
    <2>2. CASE UNCHANGED <<file, disk, sub>>
      BY <1>u, <2>2
    <2>3. CASE /\ file' = [file EXCEPT ![c] = v] /\ sub' = sub
               /\ disk' = [disk EXCEPT ![c] = @ \cup {v}]
      <3>1. disk[c] \cup {v} \in SUBSET Contents
        BY <1>t
      <3>2. QED
        BY <1>t, <2>3, <3>1
    <2>4. QED
      BY <1>5, <2>1, <2>2, <2>3 DEF Rename
  <1>6. ASSUME NEW c \in Colls, Remove(c)
        PROVE  FilesOK'
    <2>1. PICK v \in Contents : v = Nil
      BY <1>6, <1>s DEF Remove, Handles, Contents
    <2>2. CASE UNCHANGED <<file, disk, sub>>
      BY <1>u, <2>2
    <2>3. CASE /\ file' = [file EXCEPT ![c] = v] /\ sub' = sub
               /\ disk' = [disk EXCEPT ![c] = @ \cup {v}]
      <3>1. disk[c] \cup {v} \in SUBSET Contents
        BY <1>t
      <3>2. QED
        BY <1>t, <2>3, <3>1
    <2>4. QED
      BY <1>6, <2>1, <2>2, <2>3 DEF Remove
  <1>7. CASE PowerLoss
    <2>1. sub' \in {"none", "cached", "durable"}
      BY <1>t, <1>7 DEF PowerLoss
    <2>2. file' \in [Colls -> Contents]
      BY <1>7 DEF PowerLoss
    <2>3. disk' = [c \in Colls |-> {file'[c]}]
      BY <1>7 DEF PowerLoss
    <2>4. QED
      BY <2>1, <2>2, <2>3
  <1>8. CASE Open \/ Load \/ Replay \/ ReplayEnd \/ Trim
    <2>1. UNCHANGED <<file, disk, sub>>
      BY <1>8 DEF Open, Load, Replay, ReplayEnd, Trim, fileVars, walVars, memVars
    <2>2. QED
      BY <2>1, <1>u
  <1>9. CASE TrimSync \/ (\E o \in Ops : Change(o)) \/ WriteLog \/ SyncLog \/ Tick
    <2>1. UNCHANGED <<file, disk, sub>>
      BY <1>9 DEF TrimSync, Change, WriteLog, SyncLog, Tick, fileVars, walVars,
         memVars
    <2>2. QED
      BY <2>1, <1>u
  <1>10. CASE SnapshotNothing \/ Capture \/ (\E c \in Colls : RemoveNothing(c))
              \/ FilesDone \/ TruncateLog
    <2>1. UNCHANGED <<file, disk, sub>>
      BY <1>10 DEF SnapshotNothing, Capture, RemoveNothing, FilesDone,
         TruncateLog, fileVars, walVars, memVars
    <2>2. QED
      BY <2>1, <1>u
  <1>11. CASE TruncateSync \/ Close \/ Stop \/ CloseFailed \/ Kill
    <2>1. UNCHANGED <<file, disk, sub>>
      BY <1>11 DEF TruncateSync, Close, Stop, CloseFailed, Kill, fileVars,
         walVars, memVars
    <2>2. QED
      BY <2>1, <1>u
  <1>12. CASE UNCHANGED vars
    BY <1>12, <1>u DEF vars, fileVars, walVars, memVars
  <1>13. QED
    BY <1>1, <1>2, <1>3, <1>4, <1>5, <1>6, <1>7, <1>8, <1>9, <1>10, <1>11, <1>12 DEF
       Next, OpenStep, SnapshotStep

\* The bounds hold.
LEMMA UsedStep ==
  ASSUME UsedOK, [Next]_vars
  PROVE  UsedOK'
  <1> USE DEF UsedOK
  <1>a. Fail => UsedOK'
    BY DEF Fail
  <1>1. CASE Open
    BY <1>1 DEF Open
  <1>2. CASE OpenLog
    BY <1>2, <1>a DEF OpenLog
  <1>3. CASE Load
    BY <1>3, <1>a DEF Load
  <1>4. CASE Replay
    BY <1>4 DEF Replay
  <1>5. CASE ReplayEnd
    BY <1>5 DEF ReplayEnd
  <1>6. CASE Trim
    BY <1>6, <1>a DEF Trim
  <1>7. CASE TrimSync
    BY <1>7, <1>a DEF TrimSync
  <1>8. ASSUME NEW o \in Ops, Change(o)
        PROVE  UsedOK'
    BY <1>8 DEF Change
  <1>9. CASE WriteLog
    BY <1>9, <1>a DEF WriteLog
  <1>10. CASE SyncLog
    BY <1>10, <1>a DEF SyncLog
  <1>11. CASE Tick
    BY <1>11 DEF Tick
  <1>12. CASE SnapshotNothing
    BY <1>12 DEF SnapshotNothing
  <1>13. CASE Capture
    BY <1>13 DEF Capture
  <1>14. ASSUME NEW c \in Colls, Mkdir(c)
         PROVE  UsedOK'
    BY <1>14, <1>a DEF Mkdir
  <1>15. ASSUME NEW c \in Colls, Rename(c)
         PROVE  UsedOK'
    BY <1>15, <1>a DEF Rename
  <1>16. ASSUME NEW c \in Colls, Remove(c)
         PROVE  UsedOK'
    BY <1>16, <1>a DEF Remove
  <1>17. ASSUME NEW c \in Colls, RemoveNothing(c)
         PROVE  UsedOK'
    BY <1>17 DEF RemoveNothing
  <1>18. CASE MkdirSync
    BY <1>18, <1>a DEF MkdirSync
  <1>19. CASE DirSync
    BY <1>19, <1>a DEF DirSync
  <1>20. CASE FilesDone
    BY <1>20 DEF FilesDone
  <1>21. CASE TruncateLog
    BY <1>21, <1>a DEF TruncateLog
  <1>22. CASE TruncateSync
    BY <1>22, <1>a DEF TruncateSync
  <1>23. CASE Close
    BY <1>23 DEF Close
  <1>24. CASE Stop
    BY <1>24 DEF Stop
  <1>25. CASE CloseFailed
    BY <1>25 DEF CloseFailed
  <1>26. CASE Kill
    BY <1>26 DEF Kill
  <1>27. CASE PowerLoss
    BY <1>27 DEF PowerLoss
  <1>28. CASE UNCHANGED vars
    BY <1>28 DEF vars
  <1>29. QED
    BY <1>1, <1>2, <1>3, <1>4, <1>5, <1>6, <1>7, <1>8, <1>9, <1>10, <1>11, <1>12,
       <1>13, <1>14, <1>15, <1>16, <1>17, <1>18, <1>19, <1>20, <1>21, <1>22,
       <1>23, <1>24, <1>25, <1>26, <1>27, <1>28 DEF Next, OpenStep, SnapshotStep

-----------------------------------------------------------------------------
(* The log *)

\* replayLog's position is one of the log.
LogOK == WalOK /\ LogInv /\ pos \in 0..Len(wal.recs)

\* A log of whole records of the history.
Whole(w) == w \in Logs /\ w.recs \in Seq(1..Len(hist))

\* All that wal.log shows, or may survive of it, are whole records.
LEMMA WholeLogs ==
  ASSUME Shape
  PROVE  /\ Whole(wal) /\ Whole(NoLog)
         /\ \A w \in walDisk \cup WalSurvives : Whole(w)
  <1>1. Whole(NoLog)
    <2>1. Len(hist) \in Nat
      BY DEF Shape, TypeOK
    <2>2. QED
      BY <2>1, EmptyLog DEF Whole
  <1>2. \A w \in walDisk : Whole(w)
    BY DEF Shape, TypeOK, LogInv, Whole
  <1>3. QED
    BY <1>1, <1>2 DEF Shape, LogInv, WalSurvives

\* So are the parts of a batch that writeLog may have appended.
LEMMA WholeParts ==
  ASSUME Shape, pc = "idle"
  PROVE  /\ \A w \in Parts : Whole(w) /\ Len(wal.recs) <= Len(w.recs)
         /\ Whole(Appended(Len(pending), FALSE))
         /\ ~Appended(Len(pending), FALSE).torn
         /\ Len(wal.recs) <= Len(Appended(Len(pending), FALSE).recs)
  <1>1. /\ ~wal.torn /\ Len(pending) \in Nat /\ Len(wal.recs) \in Nat
        /\ FALSE \in BOOLEAN
    BY DEF Shape, LogInv, TypeOK, Logs
  <1>2. ASSUME NEW k \in 0..Len(pending), NEW t \in BOOLEAN
        PROVE  /\ Whole(Appended(k, t)) /\ Appended(k, t).torn = t
               /\ Len(wal.recs) <= Len(Appended(k, t).recs)
    BY <1>1, AppendedIs DEF Whole
  <1>3. ASSUME NEW w \in Parts
        PROVE  Whole(w) /\ Len(wal.recs) <= Len(w.recs)
    <2>1. PICK k \in 0..Len(pending) - 1, t \in BOOLEAN : w = Appended(k, t)
      BY DEF Parts
    <2>2. k \in 0..Len(pending)
      BY <1>1
    <2>3. QED
      BY <1>2, <2>1, <2>2
  <1>4. Len(pending) \in 0..Len(pending)
    BY <1>1
  <1>5. QED
    BY <1>1, <1>2, <1>3, <1>4

\* Only Open, run's writes and truncations, and a power loss change the log.
LEMMA LogStep ==
  ASSUME Shape, [Next]_vars
  PROVE  LogOK'
  <1>t. WalOK /\ LogInv /\ pos \in 0..Len(wal.recs) /\ ControlInv /\ PlaceOK
    BY DEF Shape, TypeOK, WalOK, PlaceOK
  <1>g. Grows
    BY HistStep DEF Shape, TypeOK, HistOK, QueueOK
  <1>w. \A w : Whole(w) => w \in Logs /\ w.recs \in Seq(1..Len(hist')) /\ Len(w.recs) \in Nat
    BY <1>g, SeqWider DEF Whole, Grows
  <1>d. /\ \A w \in walDisk : w \in Logs /\ w.recs \in Seq(1..Len(hist'))
        /\ wal \in walDisk /\ Len(wal.recs) \in Nat
    BY <1>w, WholeLogs DEF Shape, LogInv
  <1>c. PlaceOK' /\ ControlInv'
    BY <1>t, ControlStep
  <1>u. ASSUME UNCHANGED <<wal, walDisk, walEntry>>, pos' \in 0..Len(wal.recs),
               wal.torn => pc' \in {"down", "openlog", "load", "replay", "trim", "failed"},
               ~walEntry => pc' \in {"down", "openlog"}, pc' = "truncsync" => wal = NoLog
        PROVE  LogOK'
    BY <1>t, <1>d, <1>u DEF LogOK, WalOK, LogInv
  <1>m. NoMemory => pos' \in 0..Len(wal.recs)
    BY <1>d DEF NoMemory
  <1>a. ASSUME Fail, pc # "down"
        PROVE  /\ pos' \in 0..Len(wal.recs) /\ pc' \in {"down", "failed"}
               /\ ~walEntry => pc' = "down"
    BY <1>a, <1>t, <1>m DEF Fail, ControlInv, LogInv
  <1>f. ASSUME Fail, pc # "down", UNCHANGED <<wal, walDisk, walEntry>>
        PROVE  LogOK'
    <2>1. /\ pos' \in 0..Len(wal.recs) /\ pc' \in {"down", "failed"}
          /\ ~walEntry => pc' = "down"
      BY <1>f, <1>a
    <2>2. QED
      BY <1>f, <1>u, <2>1
  <1>1. CASE OpenLog
    <2>1. CASE SyncDir(FALSE) /\ pc' = "load" /\ UNCHANGED memVars
      BY <1>1, <2>1, <1>t, <1>d DEF OpenLog, SyncDir, LogOK, WalOK, LogInv, memVars
    <2>2. CASE Fail /\ UNCHANGED <<disk, walEntry, sub>>
      BY <1>1, <2>2, <1>f DEF OpenLog
    <2>3. QED
      BY <1>1, <2>1, <2>2 DEF OpenLog
  <1>2. CASE Trim
    <2>1. CASE /\ wal' = [wal EXCEPT !.torn = FALSE] /\ walDisk' = walDisk \cup {wal'}
               /\ pc' = "trimsync" /\ UNCHANGED memVars
      <3>1. wal' \in Logs /\ wal'.recs = wal.recs /\ ~wal'.torn
        <4>1. wal' = [recs |-> wal.recs, torn |-> FALSE]
          BY <1>t, <2>1 DEF WalOK, Logs
        <4>2. wal.recs \in Seq(0..MaxOps)
          BY <1>t DEF WalOK, Logs
        <4>3. wal' \in Logs
          BY <4>1, <4>2, Zenon DEF Logs
        <4>4. QED
          BY <4>1, <4>3
      <3>2. walEntry' = walEntry /\ walEntry
        BY <1>2, <1>t DEF Trim, LogInv
      <3>3. wal'.recs \in Seq(1..Len(hist'))
        BY <3>1, <1>d
      <3>4. \A w \in walDisk' : w \in Logs /\ w.recs \in Seq(1..Len(hist'))
        BY <2>1, <3>1, <3>3, <1>d
      <3>5. WalOK' /\ pos' \in 0..Len(wal'.recs)
        BY <2>1, <3>1, <3>2, <3>4, <1>t DEF WalOK, memVars
      <3>6. QED
        BY <2>1, <3>1, <3>2, <3>4, <3>5 DEF LogOK, LogInv
    <2>2. CASE Fail /\ UNCHANGED <<wal, walDisk>>
      BY <1>2, <2>2, <1>f DEF Trim
    <2>3. QED
      BY <1>2, <2>1, <2>2 DEF Trim
  <1>3. CASE TrimSync
    <2>1. CASE walDisk' = {wal} /\ pc' = "snap" /\ pos' = pos
      BY <1>3, <2>1, <1>t, <1>d DEF TrimSync, LogOK, WalOK, LogInv
    <2>2. CASE Fail /\ UNCHANGED walDisk
      BY <1>3, <2>2, <1>f DEF TrimSync
    <2>3. QED
      BY <1>3, <2>1, <2>2 DEF TrimSync, memVars
  <1>4. CASE SyncLog
    <2>1. CASE walDisk' = {wal} /\ pc' = "idle" /\ pos' = pos
      BY <1>4, <2>1, <1>t, <1>d DEF SyncLog, LogOK, WalOK, LogInv
    <2>2. CASE Fail /\ UNCHANGED walDisk
      BY <1>4, <2>2, <1>f DEF SyncLog
    <2>3. QED
      BY <1>4, <2>1, <2>2 DEF SyncLog, memVars
  <1>5. CASE TruncateSync
    <2>1. CASE walDisk' = {wal} /\ AfterSnapshot
      <3>1. pos' \in 0..Len(wal.recs) /\ pc' \in {"down", "idle"}
        BY <2>1, <1>t, <1>m DEF AfterSnapshot, memVars
      <3>2. QED
        BY <1>5, <2>1, <3>1, <1>t, <1>d, EmptyLog DEF TruncateSync, LogOK, WalOK, LogInv
    <2>2. CASE Fail /\ UNCHANGED walDisk
      BY <1>5, <2>2, <1>f DEF TruncateSync
    <2>3. QED
      BY <1>5, <2>1, <2>2 DEF TruncateSync
  <1>6. CASE WriteLog
    <2>1. PICK full : full = Appended(Len(pending), FALSE)
      OBVIOUS
    <2>2. /\ \A w \in Parts : w \in Logs /\ w.recs \in Seq(1..Len(hist'))
        /\ full \in Logs /\ full.recs \in Seq(1..Len(hist')) /\ ~full.torn
        /\ \A w \in Parts \cup {full} : Len(w.recs) \in Nat /\ Len(wal.recs) <= Len(w.recs)
      BY <1>6, <2>1, <1>w, WholeParts DEF WriteLog
    <2>3. \A w \in Parts \cup {full} : pos \in 0..Len(w.recs)
      BY <1>t, <1>d, <2>2
    <2>4. walEntry' = walEntry /\ walEntry
      BY <1>6, <1>t DEF WriteLog, LogInv
    <2>5. CASE /\ wal' = full /\ walDisk' = walDisk \cup Parts \cup {wal'}
               /\ pc' = "sync" /\ pos' = pos
      BY <2>2, <2>3, <2>4, <2>5, <1>t, <1>d DEF LogOK, WalOK, LogInv
    <2>6. CASE Fail /\ wal' \in Parts /\ walDisk' = walDisk \cup Parts
      <3>1. pc' = "failed" /\ pos' = pos
        BY <1>6, <2>6, <1>t DEF WriteLog, Fail, ControlInv
      <3>2. QED
        BY <2>2, <2>3, <2>4, <2>6, <3>1, <1>t, <1>d DEF LogOK, WalOK, LogInv
    <2>7. QED
      BY <1>6, <2>1, <2>5, <2>6 DEF WriteLog
  <1>7. CASE TruncateLog
    <2>1. CASE /\ wal' = NoLog /\ walDisk' = walDisk \cup {NoLog}
               /\ pos' = 0 /\ pc' = "truncsync"
      <3>1. NoLog \in Logs /\ NoLog.recs \in Seq(1..Len(hist')) /\ ~NoLog.torn
        BY <1>g, EmptyLog DEF Grows
      <3>2. 0 \in 0..Len(NoLog.recs)
        BY <3>1
      <3>3. walEntry' = walEntry /\ walEntry
        BY <1>7, <1>t DEF TruncateLog, LogInv
      <3>4. QED
        BY <2>1, <3>1, <3>2, <3>3, <1>t, <1>d DEF LogOK, WalOK, LogInv
    <2>2. CASE Fail /\ UNCHANGED <<wal, walDisk>>
      BY <1>7, <2>2, <1>f DEF TruncateLog
    <2>3. QED
      BY <1>7, <2>1, <2>2 DEF TruncateLog
  <1>8. CASE PowerLoss
    <2>1. Whole(wal') /\ walDisk' = {wal'} /\ pc' = "down" /\ NoMemory /\ walEntry' = walEntry
      BY <1>8, WholeLogs DEF PowerLoss
    <2>2. wal' \in Logs /\ wal'.recs \in Seq(1..Len(hist')) /\ 0 \in 0..Len(wal'.recs)
      BY <2>1, <1>w
    <2>3. ~walEntry => wal' = NoLog
      BY <1>8, <1>t DEF PowerLoss, WalSurvives, LogInv
    <2>4. QED
      BY <2>1, <2>2, <2>3, <1>t DEF LogOK, WalOK, LogInv, NoMemory
  <1>9. CASE Replay
    <2>1. pos' \in 0..Len(wal.recs)
      BY <1>9, <1>t, <1>d, <1>m DEF Replay
    <2>2. QED
      BY <1>9, <2>1, <1>t, <1>u DEF Replay, LogInv, walVars
  <1>10. CASE MkdirSync
    <2>1. walEntry
      BY <1>10, <1>t DEF MkdirSync, LogInv
    <2>2. CASE SyncDir(FALSE) /\ pc' = "files" /\ UNCHANGED pos
      <3>1. walEntry' = walEntry
        BY <2>1, <2>2, <1>t DEF SyncDir, WalOK
      <3>2. QED
        BY <1>10, <2>1, <2>2, <3>1, <1>t, <1>u DEF MkdirSync, LogInv
    <2>3. CASE Fail /\ UNCHANGED <<disk, walEntry, sub>>
      BY <1>10, <2>3, <1>f DEF MkdirSync
    <2>4. QED
      BY <1>10, <2>2, <2>3 DEF MkdirSync, memVars
  <1>11. CASE DirSync
    <2>1. walEntry
      BY <1>11, <1>t DEF DirSync, LogInv
    <2>2. CASE SyncDir(name \in Nested) /\ pc' = "files" /\ UNCHANGED pos
      <3>1. walEntry' = walEntry
        BY <2>1, <2>2, <1>t DEF SyncDir, WalOK
      <3>2. QED
        BY <1>11, <2>1, <2>2, <3>1, <1>t, <1>u DEF DirSync, LogInv
    <2>3. CASE Fail /\ UNCHANGED <<disk, walEntry, sub>>
      BY <1>11, <2>3, <1>f DEF DirSync
    <2>4. QED
      BY <1>11, <2>2, <2>3 DEF DirSync, memVars
  <1>12. CASE Open
    BY <1>12, <1>t, <1>u DEF Open, LogInv, walVars, memVars
  <1>13. CASE Load
    BY <1>13, <1>t, <1>u, <1>f DEF Load, LogInv, walVars, memVars
  <1>14. CASE ReplayEnd
    BY <1>14, <1>t, <1>u DEF ReplayEnd, LogInv, walVars, memVars
  <1>15. ASSUME NEW o \in Ops, Change(o)
         PROVE  LogOK'
    BY <1>15, <1>t, <1>u DEF Change, LogInv, walVars, memVars
  <1>16. CASE Tick
    BY <1>16, <1>t, <1>u DEF Tick, LogInv, walVars, memVars
  <1>17. CASE SnapshotNothing
    BY <1>17, <1>t, <1>u, <1>m DEF SnapshotNothing, LogInv, walVars, memVars,
       AfterSnapshot
  <1>18. CASE Capture
    BY <1>18, <1>t, <1>u DEF Capture, LogInv, walVars, memVars
  <1>19. ASSUME NEW c \in Colls, Mkdir(c)
         PROVE  LogOK'
    BY <1>19, <1>t, <1>u, <1>f DEF Mkdir, LogInv, walVars, memVars, Handles
  <1>20. ASSUME NEW c \in Colls, Rename(c)
         PROVE  LogOK'
    BY <1>20, <1>t, <1>u, <1>f DEF Rename, LogInv, walVars, memVars, Handles
  <1>21. ASSUME NEW c \in Colls, Remove(c)
         PROVE  LogOK'
    BY <1>21, <1>t, <1>u, <1>f DEF Remove, LogInv, walVars, memVars, Handles
  <1>22. ASSUME NEW c \in Colls, RemoveNothing(c)
         PROVE  LogOK'
    BY <1>22, <1>t, <1>u DEF RemoveNothing, LogInv, walVars, memVars, Handles
  <1>23. CASE FilesDone
    BY <1>23, <1>t, <1>u DEF FilesDone, LogInv, walVars, memVars
  <1>24. CASE Close
    BY <1>24, <1>t, <1>u DEF Close, LogInv, walVars, memVars
  <1>25. CASE Stop
    BY <1>25, <1>t, <1>u DEF Stop, LogInv, walVars, memVars
  <1>26. CASE CloseFailed
    BY <1>26, <1>t, <1>u, <1>m DEF CloseFailed, LogInv, walVars, memVars
  <1>27. CASE Kill
    BY <1>27, <1>t, <1>u, <1>m DEF Kill, LogInv, walVars, memVars
  <1>28. CASE UNCHANGED vars
    BY <1>28, <1>t, <1>u DEF vars, LogInv, walVars, memVars
  <1>29. QED
    BY <1>1, <1>2, <1>3, <1>4, <1>5, <1>6, <1>7, <1>8, <1>9, <1>10, <1>11, <1>12,
       <1>13, <1>14, <1>15, <1>16, <1>17, <1>18, <1>19, <1>20, <1>21, <1>22,
       <1>23, <1>24, <1>25, <1>26, <1>27, <1>28 DEF Next, OpenStep, SnapshotStep

\* DB.size follows the log through replay, writes, snapshots and failures.
LEMMA SizeStep ==
  ASSUME Shape, [Next]_vars
  PROVE  size' \in Nat /\ SizeInv'
  <1>t. /\ size \in Nat /\ Len(wal.recs) \in Nat /\ Len(batch) \in Nat
        /\ pos \in Nat /\ SizeInv /\ Len(pending) \in Nat
    <2>1. size \in Nat /\ SizeInv /\ pos \in 0..Len(wal.recs)
      BY DEF Shape, TypeOK
    <2>2. wal.recs \in Seq(0..MaxOps) /\ batch \in Seq(1..Len(hist))
          /\ pending \in Seq(1..Len(hist))
      BY DEF Shape, TypeOK, Logs
    <2>3. QED
      BY <2>1, <2>2, LenProperties
  <1>l. LogInv
    BY DEF Shape
  <1>v. pc' \in {"down", "openlog", "load", "replay", "truncsync", "failed"} => SizeInv'
    BY DEF SizeInv, Counted
  <1>n. NoMemory => size' = 0
    BY DEF NoMemory
  <1>a. Fail => size' \in Nat /\ SizeInv'
    BY <1>t, <1>v, <1>n DEF Fail
  <1>u. UNCHANGED <<wal, batch, pos, size>> /\ pc \in Counted /\ pc' \in Counted
          => size' \in Nat /\ SizeInv'
    BY <1>t DEF SizeInv, Counted
  <1>e. wal' = wal /\ size' = Len(wal.recs) /\ pc' \in Counted
          => size' \in Nat /\ SizeInv'
    BY <1>t DEF SizeInv, Counted
  <1>1. CASE Open
    BY <1>1, <1>t, <1>v DEF Open
  <1>2. CASE OpenLog
    BY <1>2, <1>t, <1>v, <1>a DEF OpenLog
  <1>3. CASE Load
    BY <1>3, <1>t, <1>v, <1>a DEF Load
  <1>4. CASE Replay
    BY <1>4, <1>t, <1>v, <1>n DEF Replay
  <1>5. CASE ReplayEnd
    <2>1. CASE pc' = "trim"
      BY <1>5, <2>1, <1>t DEF ReplayEnd, SizeInv, Counted, walVars, memVars
    <2>2. CASE pc' = "snap"
      BY <1>5, <2>2, <1>e DEF ReplayEnd, Counted, walVars
    <2>3. QED
      BY <1>5, <2>1, <2>2 DEF ReplayEnd
  <1>6. CASE Trim
    <2>1. CASE wal' = [wal EXCEPT !.torn = FALSE] /\ pc' = "trimsync" /\ UNCHANGED memVars
               /\ UNCHANGED size
      <3>1. wal'.recs = wal.recs
        BY <2>1 DEF Shape, TypeOK, Logs
      <3>2. pos = Len(wal.recs)
        BY <1>6, <1>t DEF Trim, SizeInv
      <3>3. QED
        BY <2>1, <3>1, <3>2, <1>t DEF SizeInv, Counted, memVars
    <2>2. QED
      BY <1>6, <2>1, <1>a DEF Trim
  <1>7. CASE TrimSync
    <2>1. pos = Len(wal.recs)
      BY <1>7, <1>t DEF TrimSync, SizeInv
    <2>2. QED
      BY <1>7, <2>1, <1>a, <1>e DEF TrimSync, Counted
  <1>8. ASSUME NEW o \in Ops, Change(o)
        PROVE  size' \in Nat /\ SizeInv'
    BY <1>8, <1>t DEF Change, SizeInv, Counted, walVars
  <1>9. CASE WriteLog
    <2>1. CASE wal' = Appended(Len(pending), FALSE) /\ batch' = pending
               /\ pc' = "sync" /\ UNCHANGED size
      <3>1. ~wal.torn /\ size = Len(wal.recs)
        BY <1>9, <1>l, <1>t DEF WriteLog, LogInv, SizeInv, Counted
      <3>2. Len(wal'.recs) = Len(wal.recs) + Len(pending)
        <4>1. Len(pending) \in 0..Len(pending) /\ FALSE \in BOOLEAN
          BY <1>t
        <4>2. Len(Appended(Len(pending), FALSE).recs) = Len(wal.recs) + Len(pending)
          BY <3>1, <4>1, AppendedIs, Zenon
        <4>3. QED
          BY <2>1, <4>2, Zenon
      <3>3. QED
        BY <2>1, <3>1, <3>2, <1>t DEF SizeInv, Counted
    <2>2. QED
      BY <1>9, <2>1, <1>a DEF WriteLog
  <1>10. CASE SyncLog
    <2>1. size + Len(batch) = Len(wal.recs)
      BY <1>10, <1>t DEF SyncLog, SizeInv
    <2>2. QED
      BY <1>10, <2>1, <1>a, <1>e DEF SyncLog, Counted
  <1>11. CASE Tick
    BY <1>11, <1>u DEF Tick, Counted, memVars, walVars
  <1>12. CASE SnapshotNothing
    <2>1. CASE mode = "last"
      BY <1>12, <2>1, <1>n, <1>v DEF SnapshotNothing, AfterSnapshot
    <2>2. CASE mode # "last"
      BY <1>12, <2>2, <1>u DEF SnapshotNothing, AfterSnapshot, Counted, memVars, walVars
    <2>3. QED
      BY <2>1, <2>2
  <1>13. CASE Capture
    BY <1>13, <1>u DEF Capture, Counted, walVars
  <1>14. ASSUME NEW c \in Colls, Mkdir(c)
         PROVE  size' \in Nat /\ SizeInv'
    BY <1>14, <1>u, <1>a DEF Mkdir, Handles, Counted, walVars
  <1>15. ASSUME NEW c \in Colls, Rename(c)
         PROVE  size' \in Nat /\ SizeInv'
    BY <1>15, <1>u, <1>a DEF Rename, Handles, Counted, walVars
  <1>16. ASSUME NEW c \in Colls, Remove(c)
         PROVE  size' \in Nat /\ SizeInv'
    BY <1>16, <1>u, <1>a DEF Remove, Handles, Counted, walVars
  <1>17. ASSUME NEW c \in Colls, RemoveNothing(c)
         PROVE  size' \in Nat /\ SizeInv'
    BY <1>17, <1>u DEF RemoveNothing, Handles, Counted, walVars
  <1>18. CASE MkdirSync
    BY <1>18, <1>u, <1>a DEF MkdirSync, Counted, memVars
  <1>19. CASE DirSync
    BY <1>19, <1>u, <1>a DEF DirSync, Counted
  <1>20. CASE FilesDone
    BY <1>20, <1>u DEF FilesDone, Counted, memVars, walVars
  <1>21. CASE TruncateLog
    BY <1>21, <1>t, <1>v, <1>a DEF TruncateLog
  <1>22. CASE TruncateSync
    <2>1. CASE size' = 0 /\ wal' = wal /\ pc' = "idle"
      <3>1. Len(wal.recs) = 0
        <4>1. wal.recs = << >>
          BY <1>22, <1>l, EmptyLog, Zenon DEF TruncateSync, LogInv
        <4>2. QED
          BY <4>1, EmptySeq, Zenon
      <3>2. QED
        BY <2>1, <3>1, <1>e DEF Counted
    <2>2. CASE size' = 0 /\ pc' = "down"
      BY <2>2, <1>v
    <2>3. QED
      BY <1>22, <2>1, <2>2, <1>a DEF TruncateSync, AfterSnapshot
  <1>23. CASE Close
    BY <1>23, <1>t DEF Close, SizeInv, Counted, memVars, walVars
  <1>24. CASE Stop
    BY <1>24, <1>u DEF Stop, Counted, memVars, walVars
  <1>25. CASE CloseFailed
    BY <1>25, <1>n, <1>v DEF CloseFailed
  <1>26. CASE Kill
    BY <1>26, <1>n, <1>v DEF Kill
  <1>27. CASE PowerLoss
    BY <1>27, <1>n, <1>v DEF PowerLoss
  <1>28. CASE UNCHANGED vars
    BY <1>28, <1>t DEF vars, SizeInv, Counted, memVars, walVars
  <1>29. QED
    BY <1>1, <1>2, <1>3, <1>4, <1>5, <1>6, <1>7, <1>8, <1>9, <1>10, <1>11, <1>12,
       <1>13, <1>14, <1>15, <1>16, <1>17, <1>18, <1>19, <1>20, <1>21, <1>22,
       <1>23, <1>24, <1>25, <1>26, <1>27, <1>28 DEF Next, OpenStep, SnapshotStep

-----------------------------------------------------------------------------
(* Theorems *)

\* An empty directory has the shape.
LEMMA ShapeInit == Init => Shape
  <1> SUFFICES ASSUME Init PROVE Shape
    OBVIOUS
  <1> USE DEF Init
  <1>1. /\ hist \in Seq(Ops) /\ Len(hist) = 0 /\ acked \subseteq 1..Len(hist)
        /\ pending \in Seq(1..Len(hist)) /\ batch \in Seq(1..Len(hist))
    OBVIOUS
  <1>n. Len(hist) <= MaxOps
    BY <1>1
  <1>2. colls \in [Colls -> Contents] /\ file \in [Colls -> Contents]
    BY DEF Contents
  <1>3. disk \in [Colls -> SUBSET Contents]
    BY DEF Contents
  <1>4. \E S \in SUBSET Colls : snaps \in [S -> Contents]
    BY NoSnaps
  <1>5. wal \in Logs /\ walDisk \subseteq Logs /\ pos \in 0..Len(wal.recs)
    BY EmptyLog
  <1>6. walEntry \in BOOLEAN
    BY Zenon
  <1>7. used \in [kill : 0..MaxKills, loss : 0..MaxLosses, fail : 0..MaxFails]
    OBVIOUS
  <1>s. size \in Nat
    OBVIOUS
  <1>8. TypeOK
    BY <1>1, <1>2, <1>3, <1>4, <1>5, <1>6, <1>7, <1>n, <1>s, Zenon DEF TypeOK
  <1>9. LogInv
    BY <1>1, EmptyLog DEF LogInv
  <1>10. QED
    BY <1>8, <1>9 DEF Shape, ControlInv, QueueInv, Snapshotting, SizeInv, Counted

\* Every step keeps the shape.
LEMMA ShapeStep == Shape /\ [Next]_vars => Shape'
  <1> SUFFICES ASSUME Shape, [Next]_vars PROVE Shape'
    OBVIOUS
  <1>1. HistOK /\ PlaceOK /\ QueueOK /\ UsedOK /\ ControlInv /\ QueueInv
    BY DEF Shape, TypeOK, HistOK, PlaceOK, QueueOK, UsedOK
  <1>2. HistOK' /\ PlaceOK' /\ ControlInv' /\ UsedOK'
    BY <1>1, HistStep, ControlStep, UsedStep
  <1>3. QueueOK' /\ QueueInv'
    BY <1>1, QueueStep
  <1>4. MapsOK' /\ SnapsOK' /\ FilesOK' /\ LogOK'
    BY MapsStep, SnapsStep, FilesStep, LogStep
  <1>s. size' \in Nat /\ SizeInv'
    BY SizeStep
  <1>5. TypeOK'
    BY <1>2, <1>3, <1>4, <1>s DEF TypeOK, HistOK, PlaceOK, QueueOK, MapsOK, SnapsOK, FilesOK,
       WalOK, UsedOK, LogOK
  <1>6. QED
    BY <1>2, <1>3, <1>4, <1>5, <1>s DEF Shape, LogOK

\* Shape holds throughout.
THEOREM ShapeHolds == Spec => []Shape
  BY ShapeInit, ShapeStep, PTL DEF Spec

\* What Open, run and Close keep, in memory and in files, has its type.
THEOREM TypeCorrect == Spec => []TypeOK
  <1>1. Shape => TypeOK
    BY DEF Shape
  <1>2. QED
    BY ShapeHolds, <1>1, PTL

\* No crash makes the database unreadable, whatever is killed, lost or fails:
\* no line that the log shows, or that may survive of it, fails to parse in
\* replayLog.
THEOREM ParsesHolds == Spec => []Parses
  <1>1. Shape => Parses
    <2> SUFFICES ASSUME Shape, NEW w \in WalSurvives \cup {wal}, NEW i \in 1..Len(w.recs)
                 PROVE  w.recs[i] # Corrupt
      BY DEF Parses
    <2>1. w.recs \in Seq(1..Len(hist))
      BY WholeLogs DEF Whole
    <2>2. PICK r : r = w.recs
      OBVIOUS
    <2>3. r \in Seq(1..Len(hist)) /\ i \in 1..Len(r)
      BY <2>1, <2>2
    <2>4. r[i] \in 1..Len(hist)
      BY <2>3
    <2>5. QED
      BY <2>2, <2>4
  <1>2. QED
    BY ShapeHolds, <1>1, PTL
=============================================================================

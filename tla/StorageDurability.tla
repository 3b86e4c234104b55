-------------------------- MODULE StorageDurability --------------------------
(***************************************************************************)
(* That what MeDB acknowledged survives every crash, that readers see it,  *)
(* and that a clean Close leaves it in the snapshot files: with any number *)
(* of kills, power losses and failing system calls for the collections in  *)
(* the database directory itself; for those in a subdirectory with any     *)
(* number of power losses, or with any number of kills and failing calls,  *)
(* but not both.                                                           *)
(*                                                                         *)
(* A cell is a document of a collection, or the collection itself, whose   *)
(* id is then Nil and whose value is 1 when it exists.  Operators take the *)
(* history h and the operations M that count as done explicitly, since     *)
(* what is legal in one state is compared with what is legal in the next.  *)
(***************************************************************************)
EXTENDS StorageProofs, WellFoundedInduction

Cells == Ids \cup {Nil}

\* What content f of a file or of DB.colls says about a cell.
Val(f, a) == IF f = Nil THEN 0 ELSE IF a = Nil THEN 1 ELSE f[a]

\* Operation n concerns cell a of collection c, and leaves it at Result.
Touches(h, n, c, a) ==
  /\ h[n].coll = c
  /\ IF a = Nil THEN h[n].op # "del" ELSE h[n].op = "drop" \/ h[n].id = a

Result(h, n, a) == IF h[n].op # "set" THEN 0 ELSE IF a = Nil THEN 1 ELSE n

\* No operation of M on the cell is later than operation n.
Newest(h, n, c, a, M) == \A m \in M : m > n => ~Touches(h, m, c, a)

\* Some operation left v in the cell, or none did and v is 0, and no operation
\* of M is later.
Legal(h, c, a, v, M) ==
  \E n \in 0..Len(h) :
    /\ IF n = 0 THEN v = 0 ELSE Touches(h, n, c, a) /\ v = Result(h, n, a)
    /\ Newest(h, n, c, a, M)

LegalFile(h, c, f, M) == \A a \in Cells : Legal(h, c, a, Val(f, a), M)

\* Among the first k records of r, record i is the last on the cell; none is.
Last(h, r, k, c, a, i) ==
  /\ i \in 1..k /\ Touches(h, r[i], c, a)
  /\ \A j \in 1..k : j > i => ~Touches(h, r[j], c, a)

Silent(h, r, k, c, a) == \A j \in 1..k : ~Touches(h, r[j], c, a)

\* The last word of a log on a cell is as new as all that is done.
LegalLog(h, r, M) ==
  \A c \in Colls, a \in Cells : \A i \in 1..Len(r) :
    Last(h, r, Len(r), c, a, i) => Newest(h, r[i], c, a, M)

\* Where the log is silent, the file is legal.
LegalPair(h, r, c, f, M) ==
  \A a \in Cells : Silent(h, r, Len(r), c, a) => Legal(h, c, a, Val(f, a), M)

\* No process is killed and no system call fails.
Gentle == MaxKills = 0 /\ MaxFails = 0

\* The collections whose directory is synced as they need it.  In a
\* subdirectory, what a killed process or one that failed has left unsynced may
\* stay so: the next Open takes what the kernel shows, and a replayed record that
\* finds nothing to do makes nothing dirty and nobody sync.  The database
\* directory is synced by openLog at every Open.
Kept == IF Gentle THEN Colls ELSE Colls \ Nested

\* The collections that Open recovers: without power losses, all.
Seen == IF MaxLosses = 0 THEN Colls ELSE Kept

\* What Open may find in the place of a file.
Files(c) == IF c \in Kept THEN disk[c] ELSE {file[c]}

Durable ==
  \A w \in walDisk :
    /\ LegalLog(hist, w.recs, acked)
    /\ \A c \in Seen : \A f \in Files(c) : LegalPair(hist, w.recs, c, f, acked)

Ascends(s) == \A i \in 1..Len(s), j \in 1..Len(s) : i < j => s[i] < s[j]
Below(n, s) == \A i \in 1..Len(s) : n < s[i]

\* Operations are queued, written and acknowledged in order; the batch that
\* waits for its fsync is the end of the log.
OrderInv ==
  /\ Ascends(batch) /\ Ascends(pending)
  /\ \A m \in acked : Below(m, batch) /\ Below(m, pending)
  /\ \A i \in 1..Len(batch) : Below(batch[i], pending)
  /\ pc = "sync" =>
       \E k \in 0..Len(wal.recs) :
         /\ Len(wal.recs) = k + Len(batch)
         /\ \A i \in 1..Len(batch) : wal.recs[k + i] = batch[i]

\* The subdirectory holds no file before it is itself durable.
SubInv ==
  Gentle => /\ sub = "cached" => pc = "mksync"
            /\ \A c \in Nested : sub # "durable" => disk[c] = {Nil}

\* What a directory shows may survive, and nothing else does but for the entry
\* that is being written, or what a kill or a failure has left unsynced.
DirInv ==
  /\ \A c \in Colls : file[c] \in disk[c]
  /\ \A c \in Kept :
       \/ disk[c] = {file[c]}
       \/ pc = "dirsync" /\ c = name
       \/ c \notin Nested /\ pc \in {"down", "openlog", "failed"}

\* What writeSnapshot writes is legal, and so are the files it is done with.
SnapInv ==
  /\ pc \notin Writing => DOMAIN snaps = {}
  /\ pc = "dirsync" => name \in DOMAIN snaps /\ file[name] = snaps[name]
  /\ \A c \in Seen \cap DOMAIN snaps : LegalFile(hist, c, snaps[c], acked)
  /\ pc \in Snapshotting \ {"snap"} =>
       \A c \in Seen \ DOMAIN snaps : LegalFile(hist, c, file[c], acked)

\* A collection that is not dirty is in its file, or will be.
CleanInv ==
  /\ pc \in {"down", "openlog", "load"} => dirty = {}
  /\ pc \notin {"down", "openlog", "load", "failed"} =>
       \A c \in Colls \ dirty :
         colls[c] = IF c \in DOMAIN snaps THEN snaps[c] ELSE file[c]

\* What is done or will be unless it fails.
Admitted ==
  acked \cup {batch[i] : i \in 1..Len(batch)} \cup {pending[i] : i \in 1..Len(pending)}

\* Memory after the first k records were replayed over file f.
Replayed(h, r, k, c, f, g) ==
  \A a \in Cells :
    /\ \A i \in 1..k : Last(h, r, k, c, a, i) => Val(g, a) = Result(h, r[i], a)
    /\ Silent(h, r, k, c, a) => Val(g, a) = Val(f, a)

MemInv ==
  /\ pc \in {"down", "openlog", "load"} => pos = 0
  /\ pc = "replay" =>
       \A c \in Colls : Replayed(hist, wal.recs, pos, c, file[c], colls[c])
  /\ pc \notin {"down", "openlog", "load", "replay"} =>
       \A c \in Seen : LegalFile(hist, c, colls[c], Admitted)

\* The inductive invariant.
Inv ==
  /\ Shape /\ OrderInv /\ SubInv /\ DirInv
  /\ SnapInv /\ CleanInv /\ MemInv /\ Durable

\* Every collection is in the database directory, or no process is killed and
\* no system call fails: then all are kept.
Covered == Nested = {} \/ Gentle

USE StorageAssumption DEF Corrupt

-----------------------------------------------------------------------------
(* Cells and histories *)

\* History g begins with history h.
Longer(h, g) ==
  /\ Len(h) \in Nat /\ Len(g) \in Nat /\ Len(h) <= Len(g)
  /\ \A n \in 1..Len(h) : g[n] = h[n]

\* What operation n touches does not depend on later operations.
LEMMA TouchesGrows ==
  ASSUME NEW h, NEW g, Longer(h, g), NEW n \in 1..Len(h), NEW c, NEW a
  PROVE  Touches(g, n, c, a) <=> Touches(h, n, c, a)
  <1>1. g[n] = h[n]
    BY DEF Longer
  <1>2. QED
    BY <1>1 DEF Touches

\* Nor does what it leaves.
LEMMA ResultGrows ==
  ASSUME NEW h, NEW g, Longer(h, g), NEW n \in 1..Len(h), NEW a
  PROVE  Result(g, n, a) = Result(h, n, a)
  <1>1. g[n] = h[n]
    BY DEF Longer
  <1>2. QED
    BY <1>1 DEF Result

\* Nor does whether one of M on the cell is later.
LEMMA NewestGrows ==
  ASSUME NEW h, NEW g, Longer(h, g), NEW n, NEW c, NEW a,
         NEW M \in SUBSET (1..Len(h))
  PROVE  Newest(g, n, c, a, M) <=> Newest(h, n, c, a, M)
  <1>1. \A m \in M : Touches(g, m, c, a) <=> Touches(h, m, c, a)
    BY TouchesGrows
  <1>2. QED
    BY <1>1 DEF Newest

\* What is legal stays so while the history grows.
LEMMA LegalGrows ==
  ASSUME NEW h, NEW g, Longer(h, g), NEW c, NEW a, NEW v,
         NEW M \in SUBSET (1..Len(h)), Legal(h, c, a, v, M)
  PROVE  Legal(g, c, a, v, M)
  <1>1. PICK n \in 0..Len(h) :
          /\ IF n = 0 THEN v = 0 ELSE Touches(h, n, c, a) /\ v = Result(h, n, a)
          /\ Newest(h, n, c, a, M)
    BY DEF Legal
  <1>2. n \in 0..Len(g) /\ Newest(g, n, c, a, M)
    BY <1>1, NewestGrows DEF Longer
  <1>3. CASE n = 0
    BY <1>1, <1>2, <1>3 DEF Legal
  <1>4. CASE n # 0
    <2>1. n \in 1..Len(h)
      BY <1>4 DEF Longer
    <2>2. Touches(g, n, c, a) /\ v = Result(g, n, a)
      BY <1>1, <1>4, <2>1, TouchesGrows, ResultGrows
    <2>3. QED
      BY <1>2, <1>4, <2>2 DEF Legal
  <1>5. QED
    BY <1>3, <1>4

\* Fewer operations to take into account, or only more of no concern.
LEMMA LegalOf ==
  ASSUME NEW h, NEW c, NEW a, NEW v, NEW M, NEW K, Legal(h, c, a, v, M),
         \A m \in K : m \in M \/ ~Touches(h, m, c, a)
  PROVE  Legal(h, c, a, v, K)
  BY DEF Legal, Newest

\* The same for a whole file, with fewer operations to take into account.
LEMMA LegalFileOf ==
  ASSUME NEW h, NEW g, Longer(h, g), NEW c, NEW f, NEW M \in SUBSET (1..Len(h)),
         NEW K \in SUBSET M, LegalFile(h, c, f, M)
  PROVE  LegalFile(g, c, f, K)
  <1> SUFFICES ASSUME NEW a \in Cells PROVE Legal(g, c, a, Val(f, a), K)
    BY DEF LegalFile
  <1>1. PICK v : v = Val(f, a)
    OBVIOUS
  <1>2. Legal(h, c, a, v, M)
    BY <1>1 DEF LegalFile
  <1>3. Legal(g, c, a, v, M)
    BY <1>2, LegalGrows
  <1>4. Legal(g, c, a, v, K)
    BY <1>3, LegalOf
  <1>5. QED
    BY <1>1, <1>4

\* The last record on a cell does not depend on later operations.
LEMMA LogGrows ==
  ASSUME NEW h, NEW g, Longer(h, g), NEW r \in Seq(1..Len(h)), NEW k \in 0..Len(r),
         NEW c, NEW a
  PROVE  /\ \A i : Last(g, r, k, c, a, i) <=> Last(h, r, k, c, a, i)
         /\ Silent(g, r, k, c, a) <=> Silent(h, r, k, c, a)
  <1>1. \A j \in 1..k : r[j] \in 1..Len(h)
    OBVIOUS
  <1>2. \A j \in 1..k : Touches(g, r[j], c, a) <=> Touches(h, r[j], c, a)
    BY <1>1, TouchesGrows
  <1>3. QED
    BY <1>2 DEF Last, Silent

\* A log that is legal stays so while the history grows.
LEMMA LegalLogGrows ==
  ASSUME NEW h, NEW g, Longer(h, g), NEW r \in Seq(1..Len(h)),
         NEW M \in SUBSET (1..Len(h)), LegalLog(h, r, M)
  PROVE  LegalLog(g, r, M)
  <1> SUFFICES ASSUME NEW c \in Colls, NEW a \in Cells, NEW i \in 1..Len(r),
                      Last(g, r, Len(r), c, a, i)
               PROVE  Newest(g, r[i], c, a, M)
    BY DEF LegalLog
  <1>1. Len(r) \in 0..Len(r)
    OBVIOUS
  <1>2. Last(h, r, Len(r), c, a, i)
    BY <1>1, LogGrows
  <1>3. Newest(h, r[i], c, a, M)
    BY <1>2 DEF LegalLog
  <1>4. PICK n : n = r[i]
    OBVIOUS
  <1>5. QED
    BY <1>3, <1>4, NewestGrows

\* So does a file with a log.
LEMMA LegalPairGrows ==
  ASSUME NEW h, NEW g, Longer(h, g), NEW r \in Seq(1..Len(h)), NEW c, NEW f,
         NEW M \in SUBSET (1..Len(h)), LegalPair(h, r, c, f, M)
  PROVE  LegalPair(g, r, c, f, M)
  <1> SUFFICES ASSUME NEW a \in Cells, Silent(g, r, Len(r), c, a)
               PROVE  Legal(g, c, a, Val(f, a), M)
    BY DEF LegalPair
  <1>1. Len(r) \in 0..Len(r)
    OBVIOUS
  <1>2. Silent(h, r, Len(r), c, a)
    BY <1>1, LogGrows
  <1>3. PICK v : v = Val(f, a)
    OBVIOUS
  <1>4. Legal(h, c, a, v, M)
    BY <1>2, <1>3 DEF LegalPair
  <1>5. QED
    BY <1>3, <1>4, LegalGrows

\* DB.apply changes the cells that the operation touches, and no other.
LEMMA BecomesVal ==
  ASSUME NEW h, NEW n \in 0..MaxOps, h[n] \in Ops, NEW f \in Contents, NEW a \in Cells
  PROVE  /\ Touches(h, n, h[n].coll, a) => Val(Becomes(f, n, h[n]), a) = Result(h, n, a)
         /\ ~Touches(h, n, h[n].coll, a) => Val(Becomes(f, n, h[n]), a) = Val(f, a)
  <1>1. PICK o \in Ops : o = h[n]
    OBVIOUS
  <1>2. PICK t : t = Becomes(f, n, o)
    OBVIOUS
  <1>3. /\ o.op \in {"set", "del", "drop"} /\ Nil \notin Ids
        /\ o.op # "drop" => o.id \in Ids
        /\ f # Nil => f \in [Ids -> 0..MaxOps]
    BY DEF Ops, Contents, Docs
  <1>4. CASE o.op = "drop"
    <2>1. t = Nil
      BY <1>2, <1>4 DEF Becomes
    <2>2. QED
      BY <1>1, <1>2, <1>4, <2>1 DEF Touches, Result, Val
  <1>5. CASE o.op = "del"
    <2>1. CASE f = Nil
      <3>1. t = Nil
        BY <1>2, <1>5, <2>1 DEF Becomes
      <3>2. QED
        BY <1>1, <1>2, <1>5, <2>1, <3>1 DEF Touches, Result, Val
    <2>2. CASE f # Nil
      <3>1. t = [f EXCEPT ![o.id] = 0]
        BY <1>2, <1>5, <2>2 DEF Becomes
      <3>2. /\ t \in [Ids -> 0..MaxOps] /\ t[o.id] = 0
            /\ \A i \in Ids : i # o.id => t[i] = f[i]
        BY <1>3, <1>5, <2>2, <3>1
      <3>3. t # Nil
        BY <3>2
      <3>4. QED
        BY <1>1, <1>2, <1>3, <1>5, <2>2, <3>2, <3>3 DEF Touches, Result, Val, Cells
    <2>3. QED
      BY <2>1, <2>2
  <1>6. CASE o.op = "set"
    <2>1. PICK e : e = IF f = Nil THEN Empty ELSE f
      OBVIOUS
    <2>2. e \in [Ids -> 0..MaxOps] /\ \A i \in Ids : e[i] = Val(f, i)
      BY <1>3, <2>1 DEF Empty, Val
    <2>3. t = [e EXCEPT ![o.id] = n]
      BY <1>2, <1>6, <2>1 DEF Becomes
    <2>4. /\ t[o.id] = n /\ \A i \in Ids : i # o.id => t[i] = e[i]
      BY <1>3, <1>6, <2>2, <2>3
    <2>5. t # Nil
      <3>1. t \in [Ids -> 0..MaxOps]
        BY <1>3, <1>6, <2>2, <2>3
      <3>2. QED
        BY <3>1
    <2>6. QED
      BY <1>1, <1>2, <1>3, <1>6, <2>2, <2>4, <2>5 DEF Touches, Result, Val, Cells
  <1>7. QED
    BY <1>3, <1>4, <1>5, <1>6

-----------------------------------------------------------------------------
(* The order of the operations *)

\* The elements of a sequence after Append.
LEMMA AppendIs ==
  ASSUME NEW S, NEW s \in Seq(S), NEW e
  PROVE  /\ Len(s) \in Nat /\ Len(Append(s, e)) = Len(s) + 1
         /\ \A i \in 1..Len(s) : Append(s, e)[i] = s[i]
         /\ Append(s, e)[Len(s) + 1] = e
  OBVIOUS

\* The newest operation ends the queue.
LEMMA AppendOrder ==
  ASSUME NEW N \in Nat, NEW s \in Seq(1..N), NEW p, p = Append(s, N + 1)
  PROVE  /\ Ascends(s) => Ascends(p)
         /\ \A m \in 1..N : Below(m, s) => Below(m, p)
  <1>1. /\ Len(s) \in Nat /\ Len(p) = Len(s) + 1 /\ p[Len(s) + 1] = N + 1
        /\ \A i \in 1..Len(s) : p[i] = s[i] /\ s[i] \in 1..N
    BY AppendIs
  <1>2. \A i \in 1..Len(p) : i \in 1..Len(s) \/ i = Len(s) + 1
    BY <1>1
  <1>3. ASSUME Ascends(s), NEW i \in 1..Len(p), NEW j \in 1..Len(p), i < j
        PROVE  p[i] < p[j]
    <2>1. i \in 1..Len(s) /\ p[i] = s[i] /\ s[i] \in 1..N
      BY <1>1, <1>3, SMTT(30)
    <2>2. CASE j \in 1..Len(s)
      BY <1>1, <1>3, <2>1, <2>2 DEF Ascends
    <2>3. CASE j = Len(s) + 1
      BY <1>1, <2>1, <2>3
    <2>4. QED
      BY <1>2, <2>2, <2>3
  <1>4. ASSUME NEW m \in 1..N, Below(m, s), NEW i \in 1..Len(p)
        PROVE  m < p[i]
    <2>1. CASE i \in 1..Len(s)
      BY <1>1, <1>4, <2>1 DEF Below
    <2>2. CASE i = Len(s) + 1
      BY <1>1, <2>2
    <2>3. QED
      BY <1>2, <2>1, <2>2
  <1>5. QED
    BY <1>3, <1>4 DEF Ascends, Below

\* An empty queue is in order.
LEMMA EmptyOrder ==
  Ascends(<< >>) /\ \A n : Below(n, << >>)
  BY DEF Ascends, Below

\* Operations are queued, written and acknowledged in the order of their numbers.
LEMMA OrderStep ==
  ASSUME Shape, OrderInv, [Next]_vars
  PROVE  OrderInv'
  <1>t. /\ pending \in Seq(1..Len(hist)) /\ batch \in Seq(1..Len(hist))
        /\ acked \subseteq 1..Len(hist) /\ Len(hist) \in Nat
        /\ pc # "sync" => batch = << >>
    BY SMTT(30) DEF Shape, TypeOK, QueueInv
  <1>u. ASSUME UNCHANGED <<acked, batch, pending>>, pc' = "sync" => pc = "sync" /\ wal' = wal
        PROVE  OrderInv'
    BY <1>u DEF OrderInv
  <1>e. ASSUME batch' = << >>, pending' = << >>, pc' # "sync"
        PROVE  OrderInv'
    BY <1>e, EmptyOrder DEF OrderInv
  <1>m. NoMemory /\ pc' = "down" => OrderInv'
    BY <1>e DEF NoMemory
  <1>a. Fail => OrderInv'
    BY <1>e, <1>m DEF Fail
  <1>1. ASSUME NEW o \in Ops, Change(o)
        PROVE  OrderInv'
    <2>1. PICK n : n = Len(hist) + 1
      OBVIOUS
    <2>2. /\ UNCHANGED <<acked, batch, pc, wal>>
          /\ pending' = pending \/ pending' = Append(pending, n)
      BY <1>1, <2>1, <1>t DEF Change, walVars, Shape, TypeOK
    <2>3. CASE pending' = pending
      BY <2>2, <2>3, <1>u
    <2>4. CASE pending' = Append(pending, n)
      <3>1. \A i \in 1..Len(batch) : batch[i] \in 1..Len(hist)
        BY <1>t
      <3>2. /\ Ascends(pending) => Ascends(pending')
            /\ \A m \in 1..Len(hist) : Below(m, pending) => Below(m, pending')
        BY <1>t, <2>1, <2>4, AppendOrder
      <3>3. QED
        BY <1>t, <2>2, <3>1, <3>2, ZenonT(40) DEF OrderInv
    <2>5. QED
      BY <2>2, <2>3, <2>4
  <1>2. CASE WriteLog
    <2>1. CASE Fail
      BY <2>1, <1>a
    <2>2. CASE /\ wal' = Appended(Len(pending), FALSE)
               /\ batch' = pending /\ pending' = << >>
      <3>1. pc = "idle" /\ acked' = acked
        BY <1>2 DEF WriteLog
      <3>2. ~wal.torn /\ Len(pending) \in 0..Len(pending) /\ FALSE \in BOOLEAN
        BY <1>t, <3>1 DEF Shape, LogInv
      <3>3. /\ Len(wal'.recs) = Len(wal.recs) + Len(pending)
            /\ \A i \in 1..Len(pending) : wal'.recs[Len(wal.recs) + i] = pending[i]
        BY <2>2, <3>2, AppendedIs
      <3>4. Len(wal.recs) \in Nat /\ Len(pending) \in Nat
        BY <1>t, SMTT(30) DEF Shape, TypeOK, Logs
      <3>5. Len(wal.recs) \in 0..Len(wal'.recs)
        BY <3>3, <3>4
      <3>6. \E k \in 0..Len(wal'.recs) :
              /\ Len(wal'.recs) = k + Len(batch')
              /\ \A i \in 1..Len(batch') : wal'.recs[k + i] = batch'[i]
        BY <2>2, <3>3, <3>5
      <3>7. QED
        BY <2>2, <3>1, <3>6, EmptyOrder DEF OrderInv
    <2>3. QED
      BY <1>2, <2>1, <2>2 DEF WriteLog
  <1>3. CASE SyncLog
    <2>1. CASE Fail
      BY <2>1, <1>a
    <2>2. CASE /\ acked' = acked \cup {batch[i] : i \in 1..Len(batch)}
               /\ batch' = << >> /\ pc' = "idle" /\ pending' = pending
      BY <2>2, EmptyOrder DEF OrderInv
    <2>3. QED
      BY <1>3, <2>1, <2>2 DEF SyncLog
  <1>4. CASE Open
    BY <1>4, <1>u DEF Open, walVars, memVars
  <1>5. CASE OpenLog
    BY <1>5, <1>u, <1>a DEF OpenLog, walVars, memVars
  <1>6. CASE Load
    BY <1>6, <1>u, <1>a DEF Load, walVars, memVars
  <1>7. CASE Replay
    BY <1>7, <1>u, <1>m DEF Replay, walVars, memVars
  <1>8. CASE ReplayEnd
    BY <1>8, <1>u DEF ReplayEnd, walVars, memVars
  <1>9. CASE Trim
    BY <1>9, <1>u, <1>a DEF Trim, walVars, memVars
  <1>10. CASE TrimSync
    BY <1>10, <1>u, <1>a DEF TrimSync, walVars, memVars
  <1>11. CASE Tick
    BY <1>11, <1>u DEF Tick, walVars, memVars
  <1>12. CASE SnapshotNothing
    BY <1>12, <1>u, <1>m DEF SnapshotNothing, walVars, memVars, AfterSnapshot
  <1>13. CASE Capture
    BY <1>13, <1>u DEF Capture, walVars, memVars
  <1>14. ASSUME NEW c \in Colls, Mkdir(c)
         PROVE  OrderInv'
    BY <1>14, <1>u, <1>a DEF Mkdir, walVars, memVars
  <1>15. ASSUME NEW c \in Colls, Rename(c)
         PROVE  OrderInv'
    BY <1>15, <1>u, <1>a DEF Rename, walVars, memVars
  <1>16. ASSUME NEW c \in Colls, Remove(c)
         PROVE  OrderInv'
    BY <1>16, <1>u, <1>a DEF Remove, walVars, memVars
  <1>17. ASSUME NEW c \in Colls, RemoveNothing(c)
         PROVE  OrderInv'
    BY <1>17, <1>u DEF RemoveNothing, walVars, memVars
  <1>18. CASE MkdirSync
    BY <1>18, <1>u, <1>a DEF MkdirSync, walVars, memVars
  <1>19. CASE DirSync
    BY <1>19, <1>u, <1>a DEF DirSync, walVars, memVars
  <1>20. CASE FilesDone
    BY <1>20, <1>u DEF FilesDone, walVars, memVars
  <1>21. CASE TruncateLog
    BY <1>21, <1>u, <1>a DEF TruncateLog, walVars, memVars
  <1>22. CASE TruncateSync
    BY <1>22, <1>u, <1>a, <1>m DEF TruncateSync, walVars, memVars, AfterSnapshot
  <1>23. CASE Close
    BY <1>23, <1>u DEF Close, walVars, memVars
  <1>24. CASE Stop
    BY <1>24, <1>u DEF Stop, walVars, memVars
  <1>25. CASE CloseFailed
    BY <1>25, <1>u, <1>m DEF CloseFailed, walVars, memVars
  <1>26. CASE Kill
    BY <1>26, <1>u, <1>m DEF Kill, walVars, memVars
  <1>27. CASE PowerLoss
    BY <1>27, <1>u, <1>m DEF PowerLoss, walVars, memVars
  <1>28. CASE UNCHANGED vars
    BY <1>28, <1>u DEF vars, walVars, memVars
  <1>29. QED
    BY <1>1, <1>2, <1>3, <1>4, <1>5, <1>6, <1>7, <1>8, <1>9, <1>10, <1>11, <1>12,
       <1>13, <1>14, <1>15, <1>16, <1>17, <1>18, <1>19, <1>20, <1>21, <1>22,
       <1>23, <1>24, <1>25, <1>26, <1>27, <1>28 DEF Next, OpenStep, SnapshotStep

-----------------------------------------------------------------------------
(* Directories *)

\* Collections are kept or seen.
LEMMA KeptSeen == Kept \subseteq Seen /\ Seen \subseteq Colls /\ Colls \ Nested \subseteq Kept
  BY DEF Kept, Seen

\* When a process is killed or a system call fails, those in a subdirectory are
\* not kept; when power is lost, only those that are kept are recovered.
LEMMA FlatOnly ==
  ASSUME Shape
  PROVE  /\ Fail \/ Kill => ~Gentle /\ Kept = Colls \ Nested
         /\ PowerLoss => Seen = Kept
  <1>1. used.kill \in 0..MaxKills /\ used.fail \in 0..MaxFails /\ used.loss \in 0..MaxLosses
    BY DEF Shape, TypeOK
  <1>2. Fail \/ Kill => ~Gentle
    BY <1>1 DEF Gentle, Fail, Kill
  <1>3. PowerLoss => MaxLosses # 0
    BY <1>1 DEF PowerLoss
  <1>4. QED
    BY <1>2, <1>3 DEF Kept, Seen

\* A directory shows what may survive, and little else survives.
LEMMA DirStep ==
  ASSUME Shape, SnapInv, DirInv, [Next]_vars
  PROVE  DirInv'
  <1>t. file \in [Colls -> Contents] /\ disk \in [Colls -> SUBSET Contents]
    BY DEF Shape, TypeOK
  <1>u. ASSUME UNCHANGED <<file, disk>>,
               pc = "dirsync" => \/ pc' = "dirsync" /\ name' = name
                                 \/ Kept \cap Nested = {} /\ pc' \in {"down", "failed"},
               pc \in {"down", "openlog", "failed"} => pc' \in {"down", "openlog", "failed"}
        PROVE  DirInv'
    BY <1>u DEF DirInv
  <1>v. UNCHANGED <<file, disk, pc, name>> => DirInv'
    BY DEF DirInv
  <1>f. ASSUME Fail, UNCHANGED <<file, disk>>
        PROVE  DirInv'
    <2>1. pc' \in {"down", "failed"} /\ Kept \cap Nested = {}
      BY <1>f, FlatOnly DEF Fail
    <2>2. QED
      BY <1>f, <1>u, <2>1
  <1>1. CASE OpenLog
    <2>1. CASE Fail /\ UNCHANGED <<disk, walEntry, sub>>
      BY <1>1, <2>1, <1>f DEF OpenLog
    <2>2. CASE SyncDir(FALSE)
      <3>1. pc = "openlog" /\ file' = file
        BY <1>1 DEF OpenLog
      <3>2. ASSUME NEW c \in Kept PROVE disk'[c] = {file[c]}
        BY <2>2, <3>1, KeptSeen DEF SyncDir, DirInv
      <3>3. \A c \in Colls : file[c] \in disk'[c]
        BY <2>2 DEF SyncDir, DirInv
      <3>4. QED
        BY <3>1, <3>2, <3>3 DEF DirInv
    <2>3. QED
      BY <1>1, <2>1, <2>2 DEF OpenLog
  <1>2. CASE MkdirSync
    <2>1. CASE Fail /\ UNCHANGED <<disk, walEntry, sub>>
      BY <1>2, <2>1, <1>f DEF MkdirSync
    <2>2. CASE SyncDir(FALSE)
      <3>1. pc = "mksync" /\ file' = file
        BY <1>2 DEF MkdirSync
      <3>2. ASSUME NEW c \in Kept PROVE disk'[c] = {file[c]}
        BY <2>2, <3>1, KeptSeen DEF SyncDir, DirInv
      <3>3. \A c \in Colls : file[c] \in disk'[c]
        BY <2>2 DEF SyncDir, DirInv
      <3>4. QED
        BY <3>1, <3>2, <3>3 DEF DirInv
    <2>3. QED
      BY <1>2, <2>1, <2>2 DEF MkdirSync
  <1>3. CASE DirSync
    <2>1. CASE Fail /\ UNCHANGED <<disk, walEntry, sub>>
      BY <1>3, <2>1, <1>f DEF DirSync
    <2>2. CASE SyncDir(name \in Nested)
      <3>1. pc = "dirsync" /\ file' = file
        BY <1>3 DEF DirSync
      <3>2. ASSUME NEW c \in Kept PROVE disk'[c] = {file[c]}
        BY <2>2, <3>1, KeptSeen DEF SyncDir, DirInv
      <3>3. \A c \in Colls : file[c] \in disk'[c]
        BY <2>2 DEF SyncDir, DirInv
      <3>4. QED
        BY <3>1, <3>2, <3>3 DEF DirInv
    <2>3. QED
      BY <1>3, <2>1, <2>2 DEF DirSync
  <1>4. ASSUME NEW c \in Colls, Rename(c)
        PROVE  DirInv'
    <2>1. CASE Fail /\ UNCHANGED <<file, disk>>
      BY <1>4, <2>1, <1>f DEF Rename
    <2>2. CASE /\ file' = [file EXCEPT ![c] = snaps[c]]
               /\ disk' = [disk EXCEPT ![c] = @ \cup {snaps[c]}]
               /\ name' = c /\ pc' = "dirsync"
      <3>1. pc = "files"
        BY <1>4 DEF Rename, Handles
      <3>2. file'[c] \in disk'[c]
        BY <1>t, <2>2
      <3>3. \A d \in Colls : d # c => file'[d] = file[d] /\ disk'[d] = disk[d]
        BY <1>t, <2>2
      <3>4. QED
        BY <2>2, <3>1, <3>2, <3>3, KeptSeen DEF DirInv
    <2>3. QED
      BY <1>4, <2>1, <2>2 DEF Rename
  <1>5. ASSUME NEW c \in Colls, Remove(c)
        PROVE  DirInv'
    <2>1. CASE Fail /\ UNCHANGED <<file, disk>>
      BY <1>5, <2>1, <1>f DEF Remove
    <2>2. CASE /\ file' = [file EXCEPT ![c] = Nil]
               /\ disk' = [disk EXCEPT ![c] = @ \cup {Nil}]
               /\ name' = c /\ pc' = "dirsync"
      <3>1. pc = "files"
        BY <1>5 DEF Remove, Handles
      <3>2. file'[c] \in disk'[c]
        BY <1>t, <2>2
      <3>3. \A d \in Colls : d # c => file'[d] = file[d] /\ disk'[d] = disk[d]
        BY <1>t, <2>2
      <3>4. QED
        BY <2>2, <3>1, <3>2, <3>3, KeptSeen DEF DirInv
    <2>3. QED
      BY <1>5, <2>1, <2>2 DEF Remove
  <1>6. CASE PowerLoss
    BY <1>6, KeptSeen DEF PowerLoss, DirInv
  <1>7. CASE Kill
    <2>1. Kept \cap Nested = {}
      BY <1>7, FlatOnly
    <2>2. QED
      BY <1>7, <2>1, <1>u DEF Kill, fileVars
  <1>8. CASE Open
    BY <1>8, <1>u DEF Open, fileVars, memVars, Shape, ControlInv
  <1>9. CASE Load
    BY <1>9, <1>u, <1>f DEF Load, fileVars, memVars
  <1>10. CASE Replay
    BY <1>10, <1>u DEF Replay, fileVars, memVars
  <1>11. CASE ReplayEnd
    BY <1>11, <1>u DEF ReplayEnd, fileVars, memVars
  <1>12. CASE Trim
    BY <1>12, <1>u, <1>f DEF Trim, fileVars, memVars
  <1>13. CASE TrimSync
    BY <1>13, <1>u, <1>f DEF TrimSync, fileVars, memVars
  <1>14. ASSUME NEW o \in Ops, Change(o)
         PROVE  DirInv'
    BY <1>14, <1>v DEF Change, fileVars, memVars
  <1>15. CASE WriteLog
    BY <1>15, <1>u, <1>f DEF WriteLog, fileVars, memVars
  <1>16. CASE SyncLog
    BY <1>16, <1>u, <1>f DEF SyncLog, fileVars, memVars
  <1>17. CASE Tick
    BY <1>17, <1>u DEF Tick, fileVars, memVars
  <1>18. CASE SnapshotNothing
    BY <1>18, <1>u DEF SnapshotNothing, fileVars, memVars, AfterSnapshot
  <1>19. CASE Capture
    BY <1>19, <1>u DEF Capture, fileVars, memVars
  <1>20. ASSUME NEW c \in Colls, Mkdir(c)
         PROVE  DirInv'
    BY <1>20, <1>u, <1>f DEF Mkdir, fileVars, memVars, Handles
  <1>21. ASSUME NEW c \in Colls, RemoveNothing(c)
         PROVE  DirInv'
    BY <1>21, <1>u DEF RemoveNothing, fileVars, memVars, Handles
  <1>22. CASE FilesDone
    BY <1>22, <1>u DEF FilesDone, fileVars, memVars
  <1>23. CASE TruncateLog
    BY <1>23, <1>u, <1>f DEF TruncateLog, fileVars, memVars
  <1>24. CASE TruncateSync
    BY <1>24, <1>u, <1>f DEF TruncateSync, fileVars, memVars, AfterSnapshot
  <1>25. CASE Close
    BY <1>25, <1>v DEF Close, fileVars, memVars
  <1>26. CASE Stop
    BY <1>26, <1>v DEF Stop, fileVars, memVars
  <1>27. CASE CloseFailed
    BY <1>27, <1>u DEF CloseFailed, fileVars, memVars
  <1>28. CASE UNCHANGED vars
    BY <1>28, <1>v DEF vars, fileVars, memVars
  <1>29. QED
    BY <1>1, <1>2, <1>3, <1>4, <1>5, <1>6, <1>7, <1>8, <1>9, <1>10, <1>11, <1>12,
       <1>13, <1>14, <1>15, <1>16, <1>17, <1>18, <1>19, <1>20, <1>21, <1>22,
       <1>23, <1>24, <1>25, <1>26, <1>27, <1>28 DEF Next, OpenStep, SnapshotStep

\* The subdirectory comes before its files.
LEMMA SubStep ==
  ASSUME Shape, SnapInv, DirInv, SubInv, [Next]_vars
  PROVE  SubInv'
  <1> SUFFICES ASSUME Gentle PROVE SubInv'
    BY DEF SubInv
  <1>t. /\ file \in [Colls -> Contents] /\ disk \in [Colls -> SUBSET Contents]
        /\ sub \in {"none", "cached", "durable"}
    BY DEF Shape, TypeOK
  <1>u. ASSUME UNCHANGED <<disk, sub>>, sub = "cached" => pc' = "mksync"
        PROVE  SubInv'
    BY <1>u DEF SubInv
  <1>f. ASSUME Fail, UNCHANGED <<disk, sub>>
        PROVE  SubInv'
    BY <1>f, FlatOnly
  <1>d. ASSUME NEW b, SyncDir(b), b = FALSE \/ sub # "cached"
        PROVE  SubInv'
    <2>1. \A c \in Colls : disk'[c] = {file[c]} \/ disk'[c] = disk[c]
      BY <1>d DEF SyncDir
    <2>2. \A c \in Nested : sub # "durable" => file[c] = Nil
      BY DEF SubInv, DirInv
    <2>3. \A c \in Nested : sub # "durable" => disk'[c] = {Nil}
      BY <2>1, <2>2 DEF SubInv
    <2>4. sub' # "cached" /\ (sub' = sub \/ sub' = "durable") /\ (sub = "none" => sub' = "none")
      BY <1>d DEF SyncDir
    <2>5. QED
      BY <2>3, <2>4 DEF SubInv
  <1>1. CASE OpenLog
    BY <1>1, <1>d, <1>f DEF OpenLog
  <1>2. CASE MkdirSync
    BY <1>2, <1>d, <1>f DEF MkdirSync
  <1>3. CASE DirSync
    <2>1. sub # "cached"
      BY <1>3 DEF SubInv, DirSync
    <2>2. PICK b : b = (name \in Nested)
      OBVIOUS
    <2>3. QED
      BY <1>3, <2>1, <2>2, <1>d, <1>f DEF DirSync
  <1>4. ASSUME NEW c \in Colls, Mkdir(c)
        PROVE  SubInv'
    <2>1. CASE Fail /\ UNCHANGED sub
      BY <1>4, <2>1, <1>f DEF Mkdir
    <2>2. CASE sub' = "cached" /\ pc' = "mksync"
      BY <1>4, <2>2 DEF Mkdir, SubInv
    <2>3. QED
      BY <1>4, <2>1, <2>2 DEF Mkdir
  <1>5. ASSUME NEW c \in Colls, Rename(c)
        PROVE  SubInv'
    <2>1. CASE Fail /\ UNCHANGED <<file, disk>>
      BY <1>5, <2>1, <1>f DEF Rename
    <2>2. CASE disk' = [disk EXCEPT ![c] = @ \cup {snaps[c]}]
      <3>1. sub' = sub /\ sub # "cached"
        BY <1>5 DEF Rename, Handles, SubInv
      <3>2. \A d \in Colls : d # c => disk'[d] = disk[d]
        BY <1>t, <2>2
      <3>3. c \in Nested => sub = "durable"
        BY <1>5, <1>t, <3>1 DEF Rename, SubInv, DirInv
      <3>4. QED
        BY <3>1, <3>2, <3>3 DEF SubInv
    <2>3. QED
      BY <1>5, <2>1, <2>2 DEF Rename
  <1>6. ASSUME NEW c \in Colls, Remove(c)
        PROVE  SubInv'
    <2>1. CASE Fail /\ UNCHANGED <<file, disk>>
      BY <1>6, <2>1, <1>f DEF Remove
    <2>2. CASE disk' = [disk EXCEPT ![c] = @ \cup {Nil}]
      <3>1. sub' = sub /\ sub # "cached"
        BY <1>6 DEF Remove, Handles, SubInv
      <3>2. \A d \in Colls : d # c => disk'[d] = disk[d]
        BY <1>t, <2>2
      <3>3. c \in Nested => sub = "durable"
        BY <1>6, <1>t, <3>1 DEF Remove, SubInv, DirInv
      <3>4. QED
        BY <3>1, <3>2, <3>3 DEF SubInv
    <2>3. QED
      BY <1>6, <2>1, <2>2 DEF Remove
  <1>7. CASE PowerLoss
    <2>1. PICK lost \in {TRUE, FALSE} :
            /\ lost => sub = "cached"
            /\ sub' = CASE lost -> "none" [] sub = "cached" /\ ~lost -> "durable"
                        [] OTHER -> sub
            /\ \A c \in Colls : IF lost /\ c \in Nested THEN file'[c] = Nil
                                                        ELSE file'[c] \in disk[c]
      BY <1>7 DEF PowerLoss
    <2>2. \A c \in Nested : disk'[c] = {file'[c]}
      BY <1>7 DEF PowerLoss
    <2>3. CASE lost
      <3>1. sub' = "none" /\ \A c \in Nested : file'[c] = Nil
        BY <2>1, <2>3
      <3>2. QED
        BY <2>2, <3>1 DEF SubInv
    <2>4. CASE ~lost
      <3>1. /\ sub' = IF sub = "cached" THEN "durable" ELSE sub
            /\ \A c \in Nested : file'[c] \in disk[c]
        BY <2>1, <2>4
      <3>2. QED
        BY <1>t, <2>2, <3>1 DEF SubInv
    <2>5. QED
      BY <2>3, <2>4
  <1>8. CASE Kill
    BY <1>8, FlatOnly
  <1>9. CASE Open
    BY <1>9, <1>u DEF Open, SubInv, fileVars, memVars, Shape, ControlInv
  <1>10. CASE Load
    BY <1>10, <1>u, <1>f DEF Load, SubInv, fileVars, memVars
  <1>11. CASE Replay
    BY <1>11, <1>u DEF Replay, SubInv, fileVars, memVars
  <1>12. CASE ReplayEnd
    BY <1>12, <1>u DEF ReplayEnd, SubInv, fileVars, memVars
  <1>13. CASE Trim
    BY <1>13, <1>u, <1>f DEF Trim, SubInv, fileVars, memVars
  <1>14. CASE TrimSync
    BY <1>14, <1>u, <1>f DEF TrimSync, SubInv, fileVars, memVars
  <1>15. ASSUME NEW o \in Ops, Change(o)
         PROVE  SubInv'
    BY <1>15, <1>u DEF Change, SubInv, fileVars, memVars
  <1>16. CASE WriteLog
    BY <1>16, <1>u, <1>f DEF WriteLog, SubInv, fileVars, memVars
  <1>17. CASE SyncLog
    BY <1>17, <1>u, <1>f DEF SyncLog, SubInv, fileVars, memVars
  <1>18. CASE Tick
    BY <1>18, <1>u DEF Tick, SubInv, fileVars, memVars
  <1>19. CASE SnapshotNothing
    BY <1>19, <1>u DEF SnapshotNothing, SubInv, fileVars, memVars, AfterSnapshot
  <1>20. CASE Capture
    BY <1>20, <1>u DEF Capture, SubInv, fileVars, memVars
  <1>21. ASSUME NEW c \in Colls, RemoveNothing(c)
         PROVE  SubInv'
    BY <1>21, <1>u DEF RemoveNothing, SubInv, fileVars, memVars, Handles
  <1>22. CASE FilesDone
    BY <1>22, <1>u DEF FilesDone, SubInv, fileVars, memVars
  <1>23. CASE TruncateLog
    BY <1>23, <1>u, <1>f DEF TruncateLog, SubInv, fileVars, memVars
  <1>24. CASE TruncateSync
    BY <1>24, <1>u, <1>f DEF TruncateSync, SubInv, fileVars, memVars,
       AfterSnapshot
  <1>25. CASE Close
    BY <1>25, <1>u DEF Close, SubInv, fileVars, memVars
  <1>26. CASE Stop
    BY <1>26, <1>u DEF Stop, SubInv, fileVars, memVars
  <1>27. CASE CloseFailed
    BY <1>27, <1>u DEF CloseFailed, SubInv, fileVars, memVars
  <1>28. CASE UNCHANGED vars
    BY <1>28, <1>u DEF vars, SubInv, fileVars, memVars
  <1>29. QED
    BY <1>1, <1>2, <1>3, <1>4, <1>5, <1>6, <1>7, <1>8, <1>9, <1>10, <1>11, <1>12,
       <1>13, <1>14, <1>15, <1>16, <1>17, <1>18, <1>19, <1>20, <1>21, <1>22,
       <1>23, <1>24, <1>25, <1>26, <1>27, <1>28 DEF Next, OpenStep, SnapshotStep

-----------------------------------------------------------------------------
(* writeSnapshot *)

\* The history that the next state has.
LEMMA NextHist ==
  ASSUME Shape, [Next]_vars
  PROVE  /\ Longer(hist, hist') /\ acked \in SUBSET (1..Len(hist))
         /\ \A c, f : LegalFile(hist, c, f, acked) => LegalFile(hist', c, f, acked)
  <1>1. Longer(hist, hist')
    BY HistStep DEF Shape, TypeOK, HistOK, QueueOK, Grows, Longer
  <1>2. acked \in SUBSET (1..Len(hist))
    BY DEF Shape, TypeOK
  <1>3. QED
    BY <1>1, <1>2, LegalFileOf

\* With no file to handle there is none.
LEMMA NoDomain == DOMAIN << >> = {}
  OBVIOUS

\* The files to write are legal, and so are the ones written.
LEMMA SnapStep ==
  ASSUME Shape, SnapInv, CleanInv, MemInv, [Next]_vars
  PROVE  SnapInv'
  <1>t. /\ file \in [Colls -> Contents] /\ dirty \in SUBSET Colls
        /\ \E S \in SUBSET Colls : snaps \in [S -> Contents]
    BY DEF Shape, TypeOK
  <1>l. \A c, f : LegalFile(hist, c, f, acked) => LegalFile(hist', c, f, acked)
    BY NextHist
  <1>z. ASSUME DOMAIN snaps' = {}, pc' \notin Snapshotting \ {"snap"}
        PROVE  SnapInv'
    BY <1>z DEF SnapInv, Snapshotting, Writing
  <1>u. UNCHANGED <<snaps, file, acked, pc, name>> => SnapInv'
    BY <1>l DEF SnapInv
  <1>w. ASSUME UNCHANGED <<snaps, file, acked>>, pc \in Snapshotting \ {"snap"},
               pc' \in Snapshotting \ {"snap", "dirsync"},
               pc' \in Writing \/ DOMAIN snaps = {}
        PROVE  SnapInv'
    BY <1>w, <1>l DEF SnapInv
  <1>m. NoMemory /\ pc' = "down" => SnapInv'
    BY <1>z, NoDomain DEF NoMemory, Snapshotting
  <1>a. Fail => SnapInv'
    BY <1>z, <1>m, NoDomain DEF Fail, Snapshotting
  <1> USE DEF Snapshotting, Writing
  <1>1. CASE Capture
    <2>1. /\ DOMAIN snaps = {} /\ snaps' = [c \in dirty |-> colls[c]]
          /\ pc' = "files" /\ UNCHANGED <<file, acked>> /\ pc = "snap"
      BY <1>1 DEF Capture, SnapInv, fileVars
    <2>2. \A c \in Seen : LegalFile(hist', c, colls[c], acked)
      <3>1. \A c \in Seen : LegalFile(hist, c, colls[c], Admitted)
        BY <2>1 DEF MemInv
      <3>2. acked \in SUBSET Admitted
        BY DEF Admitted
      <3>3. \A c \in Seen : LegalFile(hist, c, colls[c], acked)
        BY <3>1, <3>2, LegalOf DEF LegalFile
      <3>4. QED
        BY <3>3, <1>l
    <2>3. \A c \in Colls \ dirty : file[c] = colls[c]
      BY <2>1 DEF CleanInv
    <2>4. DOMAIN snaps' = dirty /\ \A c \in dirty : snaps'[c] = colls[c]
      BY <2>1
    <2>5. QED
      BY <1>t, <2>1, <2>2, <2>3, <2>4, KeptSeen DEF SnapInv
  <1>2. ASSUME NEW c \in Colls, Rename(c)
        PROVE  SnapInv'
    <2>1. CASE Fail
      BY <2>1, <1>a
    <2>2. CASE /\ file' = [file EXCEPT ![c] = snaps[c]]
               /\ name' = c /\ pc' = "dirsync" /\ snaps' = snaps
      <3>1. /\ pc = "files" /\ c \in DOMAIN snaps /\ acked' = acked
            /\ snaps[c] = snaps[c]
        BY <1>2 DEF Rename, Handles
      <3>2. file'[c] = snaps[c] /\ \A d \in Colls : d # c => file'[d] = file[d]
        BY <1>t, <2>2, <3>1
      <3>3. \A d \in Colls \ DOMAIN snaps : file'[d] = file[d]
        BY <3>1, <3>2
      <3>4. QED
        BY <1>l, <2>2, <3>1, <3>2, <3>3, KeptSeen DEF SnapInv
    <2>3. QED
      BY <1>2, <2>1, <2>2 DEF Rename
  <1>3. ASSUME NEW c \in Colls, Remove(c)
        PROVE  SnapInv'
    <2>1. CASE Fail
      BY <2>1, <1>a
    <2>2. CASE /\ file' = [file EXCEPT ![c] = Nil]
               /\ name' = c /\ pc' = "dirsync" /\ snaps' = snaps
      <3>1. /\ pc = "files" /\ c \in DOMAIN snaps /\ acked' = acked
            /\ snaps[c] = Nil
        BY <1>3 DEF Remove, Handles
      <3>2. file'[c] = snaps[c] /\ \A d \in Colls : d # c => file'[d] = file[d]
        BY <1>t, <2>2, <3>1
      <3>3. \A d \in Colls \ DOMAIN snaps : file'[d] = file[d]
        BY <3>1, <3>2
      <3>4. QED
        BY <1>l, <2>2, <3>1, <3>2, <3>3, KeptSeen DEF SnapInv
    <2>3. QED
      BY <1>3, <2>1, <2>2 DEF Remove
  <1>4. ASSUME NEW c \in Colls, RemoveNothing(c)
        PROVE  SnapInv'
    <2>2. CASE /\ snaps' = [d \in DOMAIN snaps \ {c} |-> snaps[d]]
               /\ pc' = "files" /\ UNCHANGED <<file, acked>>
      <3>1. pc \in {"files", "dirsync"} /\ file[c] = snaps[c] /\ c \in DOMAIN snaps
        BY <1>4 DEF RemoveNothing, Handles, SnapInv
      <3>2. DOMAIN snaps' = DOMAIN snaps \ {c} /\ \A d \in DOMAIN snaps' : snaps'[d] = snaps[d]
        BY <2>2
      <3>3. \A d \in Seen \ DOMAIN snaps' : LegalFile(hist', d, file[d], acked)
        BY <1>l, <3>1, <3>2 DEF SnapInv
      <3>4. \A d \in Seen \cap DOMAIN snaps' : LegalFile(hist', d, snaps'[d], acked)
        BY <1>l, <3>2 DEF SnapInv
      <3>5. QED
        BY <2>2, <3>3, <3>4 DEF SnapInv
    <2>3. QED
      BY <1>4, <2>2 DEF RemoveNothing, Handles, fileVars
  <1>5. CASE DirSync
    <2>1. CASE Fail
      BY <2>1, <1>a
    <2>2. CASE /\ snaps' = [d \in DOMAIN snaps \ {name} |-> snaps[d]]
               /\ pc' = "files" /\ UNCHANGED <<file, acked>>
      <3>1. pc \in {"files", "dirsync"} /\ file[name] = snaps[name] /\ name \in DOMAIN snaps
        BY <1>5 DEF DirSync, SnapInv
      <3>2. DOMAIN snaps' = DOMAIN snaps \ {name} /\ \A d \in DOMAIN snaps' : snaps'[d] = snaps[d]
        BY <2>2
      <3>3. \A d \in Seen \ DOMAIN snaps' : LegalFile(hist', d, file[d], acked)
        BY <1>l, <3>1, <3>2 DEF SnapInv
      <3>4. \A d \in Seen \cap DOMAIN snaps' : LegalFile(hist', d, snaps'[d], acked)
        BY <1>l, <3>2 DEF SnapInv
      <3>5. QED
        BY <2>2, <3>3, <3>4 DEF SnapInv
    <2>3. QED
      BY <1>5, <2>1, <2>2 DEF DirSync
  <1>6. CASE SyncLog
    <2>1. pc = "sync" /\ DOMAIN snaps = {}
      BY <1>6 DEF SyncLog, SnapInv
    <2>2. QED
      BY <1>6, <2>1, <1>z, <1>a DEF SyncLog
  <1>7. CASE Open
    BY <1>7, <1>z DEF Open, SnapInv, fileVars, memVars, Shape, ControlInv
  <1>8. CASE OpenLog
    BY <1>8, <1>z, <1>a DEF OpenLog, SnapInv, fileVars, memVars
  <1>9. CASE Load
    BY <1>9, <1>z, <1>a DEF Load, SnapInv, fileVars, memVars
  <1>10. CASE Replay
    BY <1>10, <1>z, <1>m DEF Replay, SnapInv, fileVars, memVars
  <1>11. CASE ReplayEnd
    BY <1>11, <1>z DEF ReplayEnd, SnapInv, fileVars, memVars
  <1>12. CASE Trim
    BY <1>12, <1>z, <1>a DEF Trim, SnapInv, fileVars, memVars
  <1>13. CASE TrimSync
    BY <1>13, <1>z, <1>a DEF TrimSync, SnapInv, fileVars, memVars
  <1>14. ASSUME NEW o \in Ops, Change(o)
         PROVE  SnapInv'
    BY <1>14, <1>u DEF Change, fileVars, memVars
  <1>15. CASE WriteLog
    BY <1>15, <1>z, <1>a DEF WriteLog, SnapInv, fileVars, memVars
  <1>16. CASE Tick
    BY <1>16, <1>z DEF Tick, SnapInv, fileVars, memVars
  <1>17. CASE SnapshotNothing
    BY <1>17, <1>z, <1>m DEF SnapshotNothing, SnapInv, fileVars, memVars,
       AfterSnapshot
  <1>18. ASSUME NEW c \in Colls, Mkdir(c)
         PROVE  SnapInv'
    BY <1>18, <1>w, <1>a DEF Mkdir, SnapInv, fileVars, memVars, Handles
  <1>19. CASE MkdirSync
    BY <1>19, <1>w, <1>a DEF MkdirSync, SnapInv, fileVars, memVars
  <1>20. CASE FilesDone
    BY <1>20, <1>w DEF FilesDone, SnapInv, fileVars, memVars
  <1>21. CASE TruncateLog
    BY <1>21, <1>w, <1>a DEF TruncateLog, SnapInv, fileVars, memVars
  <1>22. CASE TruncateSync
    BY <1>22, <1>z, <1>a, <1>m DEF TruncateSync, SnapInv, fileVars, memVars,
       AfterSnapshot
  <1>23. CASE Close
    BY <1>23, <1>u DEF Close, fileVars, memVars
  <1>24. CASE Stop
    BY <1>24, <1>u DEF Stop, fileVars, memVars
  <1>25. CASE CloseFailed
    BY <1>25, <1>z, <1>m DEF CloseFailed, SnapInv, fileVars, memVars
  <1>26. CASE Kill
    BY <1>26, <1>z, <1>m DEF Kill, SnapInv, fileVars, memVars
  <1>27. CASE PowerLoss
    BY <1>27, <1>z, <1>m DEF PowerLoss, SnapInv, fileVars, memVars
  <1>28. CASE UNCHANGED vars
    BY <1>28, <1>u DEF vars, fileVars, memVars
  <1>29. QED
    BY <1>1, <1>2, <1>3, <1>4, <1>5, <1>6, <1>7, <1>8, <1>9, <1>10, <1>11, <1>12,
       <1>13, <1>14, <1>15, <1>16, <1>17, <1>18, <1>19, <1>20, <1>21, <1>22,
       <1>23, <1>24, <1>25, <1>26, <1>27, <1>28 DEF Next, OpenStep, SnapshotStep

\* What apply leaves clean it leaves alone.
LEMMA ApplyClean ==
  ASSUME colls \in [Colls -> Contents], NEW n \in 0..MaxOps, NEW p \in Ops, apply(n, p),
         NEW c \in Colls \ dirty'
  PROVE  c \notin dirty /\ colls'[c] = colls[c]
  <1>1. CASE dirty' = dirty \cup {p.coll}
    <2>1. c # p.coll
      BY <1>1
    <2>2. Applied(n, p)[c] = colls[c]
      BY <2>1, AppliedIn
    <2>3. QED
      BY <1>1, <2>2 DEF apply
  <1>2. CASE dirty' = dirty /\ Applied(n, p) = colls
    BY <1>2 DEF apply
  <1>3. QED
    BY <1>1, <1>2 DEF apply

\* A collection that is not dirty is in its file or among the files to write.
LEMMA CleanStep ==
  ASSUME Shape, SnapInv, CleanInv, [Next]_vars
  PROVE  CleanInv'
  <1>t. /\ colls \in [Colls -> Contents] /\ file \in [Colls -> Contents] /\ dirty \in SUBSET Colls
        /\ \E S \in SUBSET Colls : snaps \in [S -> Contents]
    BY DEF Shape, TypeOK
  <1>u. ASSUME UNCHANGED <<colls, dirty, snaps, file>>,
               pc \notin {"down", "openlog", "load", "failed"},
               pc' \notin {"down", "openlog", "load"}
        PROVE  CleanInv'
    BY <1>u DEF CleanInv
  <1>v. UNCHANGED <<colls, dirty, snaps, file, pc>> => CleanInv'
    BY DEF CleanInv
  <1>e. ASSUME pc \in {"down", "openlog", "load"}, dirty' = dirty,
               pc' \in {"down", "openlog", "load"}
        PROVE  CleanInv'
    BY <1>e DEF CleanInv
  <1>m. NoMemory /\ pc' = "down" => CleanInv'
    BY DEF NoMemory, CleanInv
  <1>a. Fail => CleanInv'
    BY <1>m DEF Fail, CleanInv
  <1>p. ASSUME NEW n \in 0..MaxOps, NEW p \in Ops, apply(n, p), UNCHANGED <<snaps, file, pc>>,
               pc \notin {"down", "openlog", "load"}
        PROVE  CleanInv'
    <2>1. \A c \in Colls \ dirty' : c \notin dirty /\ colls'[c] = colls[c]
      BY <1>p, <1>t, ApplyClean
    <2>2. QED
      BY <1>p, <2>1 DEF CleanInv
  <1>1. CASE Load
    <2>1. CASE Fail
      BY <2>1, <1>a
    <2>2. CASE colls' = file /\ pc' = "replay" /\ UNCHANGED <<dirty, snaps>>
      <3>1. DOMAIN snaps = {}
        BY <1>1 DEF Load, SnapInv, Writing
      <3>2. QED
        BY <1>1, <2>2, <3>1 DEF Load, CleanInv, fileVars
    <2>3. QED
      BY <1>1, <2>1, <2>2 DEF Load
  <1>2. CASE Replay
    <2>1. PICK n : n = wal.recs[pos + 1]
      OBVIOUS
    <2>2. n \in 0..MaxOps /\ n # Corrupt /\ hist[n] \in Ops
      BY <1>2, <2>1, ReplayReads DEF Replay
    <2>3. apply(n, hist[n]) /\ UNCHANGED <<snaps, file, pc>> /\ pc = "replay"
      BY <1>2, <2>1, <2>2 DEF Replay, fileVars
    <2>4. QED
      BY <1>p, <2>2, <2>3
  <1>3. ASSUME NEW o \in Ops, Change(o)
        PROVE  CleanInv'
    <2>1. Len(hist') \in 0..MaxOps /\ apply(Len(hist'), o)
      BY <1>3 DEF Change, Shape, TypeOK
    <2>2. UNCHANGED <<snaps, file, pc>> /\ pc \notin {"down", "openlog", "load"}
      BY <1>3 DEF Change, fileVars, Shape, ControlInv
    <2>3. QED
      BY <2>1, <2>2, <1>p
  <1>4. CASE Capture
    <2>1. /\ DOMAIN snaps = {} /\ snaps' = [c \in dirty |-> colls[c]] /\ pc = "snap"
          /\ pc' = "files" /\ UNCHANGED <<file, colls>> /\ dirty' = {}
      BY <1>4 DEF Capture, SnapInv, fileVars, Writing
    <2>2. DOMAIN snaps' = dirty /\ \A c \in dirty : snaps'[c] = colls[c]
      BY <2>1
    <2>3. QED
      BY <2>1, <2>2 DEF CleanInv
  <1>5. ASSUME NEW c \in Colls, Rename(c)
        PROVE  CleanInv'
    <2>1. CASE Fail
      BY <2>1, <1>a
    <2>2. CASE /\ file' = [file EXCEPT ![c] = snaps[c]]
               /\ pc' = "dirsync" /\ UNCHANGED <<snaps, colls, dirty>>
      <3>1. pc = "files" /\ c \in DOMAIN snaps
        BY <1>5 DEF Rename, Handles
      <3>2. \A d \in Colls : d # c => file'[d] = file[d]
        BY <1>t, <2>2
      <3>3. QED
        BY <2>2, <3>1, <3>2 DEF CleanInv
    <2>3. QED
      BY <1>5, <2>1, <2>2 DEF Rename
  <1>6. ASSUME NEW c \in Colls, Remove(c)
        PROVE  CleanInv'
    <2>1. CASE Fail
      BY <2>1, <1>a
    <2>2. CASE /\ file' = [file EXCEPT ![c] = Nil]
               /\ pc' = "dirsync" /\ UNCHANGED <<snaps, colls, dirty>>
      <3>1. pc = "files" /\ c \in DOMAIN snaps
        BY <1>6 DEF Remove, Handles
      <3>2. \A d \in Colls : d # c => file'[d] = file[d]
        BY <1>t, <2>2
      <3>3. QED
        BY <2>2, <3>1, <3>2 DEF CleanInv
    <2>3. QED
      BY <1>6, <2>1, <2>2 DEF Remove
  <1>7. ASSUME NEW c \in Colls, RemoveNothing(c)
        PROVE  CleanInv'
    <2>2. CASE /\ snaps' = [d \in DOMAIN snaps \ {c} |-> snaps[d]]
               /\ pc' = "files" /\ UNCHANGED <<file, colls, dirty>>
      <3>1. pc \in {"files", "dirsync"} /\ file[c] = snaps[c] /\ c \in DOMAIN snaps
        BY <1>7 DEF RemoveNothing, Handles, SnapInv
      <3>2. DOMAIN snaps' = DOMAIN snaps \ {c} /\ \A d \in DOMAIN snaps' : snaps'[d] = snaps[d]
        BY <2>2
      <3>3. \A d \in Colls \ dirty : colls[d] = IF d \in DOMAIN snaps THEN snaps[d] ELSE file[d]
        BY <3>1 DEF CleanInv
      <3>4. \A d \in Colls \ dirty : colls[d] = IF d \in DOMAIN snaps' THEN snaps'[d] ELSE file[d]
        BY <3>1, <3>2, <3>3
      <3>5. QED
        BY <2>2, <3>4 DEF CleanInv
    <2>3. QED
      BY <1>7, <2>2 DEF RemoveNothing, Handles, fileVars
  <1>8. CASE DirSync
    <2>1. CASE Fail
      BY <2>1, <1>a
    <2>2. CASE /\ snaps' = [d \in DOMAIN snaps \ {name} |-> snaps[d]]
               /\ pc' = "files" /\ UNCHANGED <<file, colls, dirty>>
      <3>1. pc \in {"files", "dirsync"} /\ file[name] = snaps[name] /\ name \in DOMAIN snaps
        BY <1>8 DEF DirSync, SnapInv
      <3>2. DOMAIN snaps' = DOMAIN snaps \ {name} /\ \A d \in DOMAIN snaps' : snaps'[d] = snaps[d]
        BY <2>2
      <3>3. \A d \in Colls \ dirty : colls[d] = IF d \in DOMAIN snaps THEN snaps[d] ELSE file[d]
        BY <3>1 DEF CleanInv
      <3>4. \A d \in Colls \ dirty : colls[d] = IF d \in DOMAIN snaps' THEN snaps'[d] ELSE file[d]
        BY <3>1, <3>2, <3>3
      <3>5. QED
        BY <2>2, <3>4 DEF CleanInv
    <2>3. QED
      BY <1>8, <2>1, <2>2 DEF DirSync
  <1>9. CASE Open
    BY <1>9, <1>e DEF Open, fileVars, memVars, Shape, ControlInv
  <1>10. CASE OpenLog
    BY <1>10, <1>e, <1>a DEF OpenLog, fileVars, memVars
  <1>11. CASE ReplayEnd
    BY <1>11, <1>u DEF ReplayEnd, fileVars, memVars
  <1>12. CASE Trim
    BY <1>12, <1>u, <1>a DEF Trim, fileVars, memVars
  <1>13. CASE TrimSync
    BY <1>13, <1>u, <1>a DEF TrimSync, fileVars, memVars
  <1>14. CASE WriteLog
    BY <1>14, <1>u, <1>a DEF WriteLog, fileVars, memVars
  <1>15. CASE SyncLog
    BY <1>15, <1>u, <1>a DEF SyncLog, fileVars, memVars
  <1>16. CASE Tick
    BY <1>16, <1>u DEF Tick, fileVars, memVars
  <1>17. CASE SnapshotNothing
    BY <1>17, <1>u, <1>m DEF SnapshotNothing, fileVars, memVars, AfterSnapshot
  <1>18. ASSUME NEW c \in Colls, Mkdir(c)
         PROVE  CleanInv'
    BY <1>18, <1>u, <1>a DEF Mkdir, fileVars, memVars, Handles
  <1>19. CASE MkdirSync
    BY <1>19, <1>u, <1>a DEF MkdirSync, fileVars, memVars
  <1>20. CASE FilesDone
    BY <1>20, <1>u DEF FilesDone, fileVars, memVars
  <1>21. CASE TruncateLog
    BY <1>21, <1>u, <1>a DEF TruncateLog, fileVars, memVars
  <1>22. CASE TruncateSync
    BY <1>22, <1>u, <1>a, <1>m DEF TruncateSync, fileVars, memVars, AfterSnapshot
  <1>23. CASE Close
    BY <1>23, <1>v DEF Close, fileVars, memVars
  <1>24. CASE Stop
    BY <1>24, <1>v DEF Stop, fileVars, memVars
  <1>25. CASE CloseFailed
    BY <1>25, <1>m DEF CloseFailed, fileVars, memVars
  <1>26. CASE Kill
    BY <1>26, <1>m DEF Kill, fileVars, memVars
  <1>27. CASE PowerLoss
    BY <1>27, <1>m DEF PowerLoss, fileVars, memVars
  <1>28. CASE UNCHANGED vars
    BY <1>28, <1>v DEF vars, fileVars, memVars
  <1>29. QED
    BY <1>1, <1>2, <1>3, <1>4, <1>5, <1>6, <1>7, <1>8, <1>9, <1>10, <1>11, <1>12,
       <1>13, <1>14, <1>15, <1>16, <1>17, <1>18, <1>19, <1>20, <1>21, <1>22,
       <1>23, <1>24, <1>25, <1>26, <1>27, <1>28 DEF Next, OpenStep, SnapshotStep

-----------------------------------------------------------------------------
(* Logs and what is replayed of them *)

\* A bounded set of numbers has a greatest.
LEMMA Greatest ==
  ASSUME NEW k \in Nat, NEW T \in SUBSET (1..k), T # {}
  PROVE  \E i \in T : \A j \in T : j <= i
  <1> DEFINE U == {d \in 0..k : k - d \in T}
             R == OpToRel(<, Nat)
  <1>1. U \subseteq Nat /\ U # {}
    <2>1. PICK i \in T : TRUE
      OBVIOUS
    <2>2. k - i \in 0..k /\ k - (k - i) = i
      OBVIOUS
    <2>3. k - i \in U
      BY <2>1, <2>2
    <2>4. QED
      BY <2>3
  <1>2. \A x \in U, y \in U : y < x => <<y, x>> \in R
    BY <1>1 DEF OpToRel
  <1>3. IsWellFoundedOn(R, Nat)
    BY NatLessThanWellFounded
  <1> HIDE DEF R
  <1>4. PICK x \in U : \A y \in U : <<y, x>> \notin R
    <2> HIDE DEF U
    <2>1. QED
      BY <1>1, <1>3, WFMin
  <1>5. ASSUME NEW j \in T PROVE j <= k - x
    <2>1. k - j \in 0..k /\ k - (k - j) = j
      OBVIOUS
    <2>2. k - j \in U
      BY <2>1
    <2>3. ~(k - j < x)
      BY <1>2, <1>4, <2>2
    <2>4. QED
      BY <2>1, <2>3
  <1>6. QED
    BY <1>4, <1>5

\* A log is silent on a cell or has a last record on it.
LEMMA SilentOrLast ==
  ASSUME NEW h, NEW r, NEW k \in Nat, NEW c, NEW a
  PROVE  Silent(h, r, k, c, a) \/ \E i \in 1..k : Last(h, r, k, c, a, i)
  <1> SUFFICES ASSUME ~Silent(h, r, k, c, a)
               PROVE  \E i \in 1..k : Last(h, r, k, c, a, i)
    OBVIOUS
  <1> DEFINE T == {j \in 1..k : Touches(h, r[j], c, a)}
  <1>1. T \in SUBSET (1..k) /\ T # {}
    BY DEF Silent
  <1>2. PICK i \in T : \A j \in T : j <= i
    <2> HIDE DEF T
    <2>1. QED
      BY <1>1, Greatest
  <1>3. i \in 1..k /\ Touches(h, r[i], c, a)
    BY <1>2
  <1>4. \A j \in 1..k : j > i => ~Touches(h, r[j], c, a)
    BY <1>2
  <1>5. QED
    BY <1>3, <1>4 DEF Last

\* What it makes of any collection, which need not be the operation's own.
LEMMA BecomesNext ==
  ASSUME NEW h, NEW n \in 0..MaxOps, h[n] \in Ops, NEW e \in Contents, NEW a \in Cells,
         NEW c, NEW d, d = IF c = h[n].coll THEN Becomes(e, n, h[n]) ELSE e
  PROVE  /\ Touches(h, n, c, a) => Val(d, a) = Result(h, n, a)
         /\ ~Touches(h, n, c, a) => Val(d, a) = Val(e, a)
  <1>1. CASE c = h[n].coll
    BY <1>1, BecomesVal
  <1>2. CASE c # h[n].coll
    BY <1>2 DEF Touches
  <1>3. QED
    BY <1>1, <1>2

\* One round of replayLog.
LEMMA ReplayedNext ==
  ASSUME NEW h \in Seq(Ops), Len(h) <= MaxOps, NEW r \in Seq(1..Len(h)),
         NEW k \in Nat, k < Len(r), NEW n, r[k + 1] = n, NEW c, NEW f, NEW e \in Contents,
         Replayed(h, r, k, c, f, e),
         NEW d, d = IF c = h[n].coll THEN Becomes(e, n, h[n]) ELSE e
  PROVE  Replayed(h, r, k + 1, c, f, d)
  <1> SUFFICES ASSUME NEW a \in Cells
               PROVE  /\ \A i \in 1..k + 1 :
                           Last(h, r, k + 1, c, a, i) => Val(d, a) = Result(h, r[i], a)
                      /\ Silent(h, r, k + 1, c, a) => Val(d, a) = Val(f, a)
    BY DEF Replayed
  <1>1. n \in 1..Len(h) /\ n \in 0..MaxOps
    OBVIOUS
  <1>2. h[n] \in Ops
    BY <1>1
  <1>3. /\ Touches(h, n, c, a) => Val(d, a) = Result(h, n, a)
        /\ ~Touches(h, n, c, a) => Val(d, a) = Val(e, a)
    BY <1>1, <1>2, BecomesNext, SMTT(30)
  <1>5. k + 1 \in 1..k + 1 /\ \A j \in 1..k : j \in 1..k + 1 /\ k + 1 > j
    BY SMTT(30)
  <1>6. ASSUME NEW i \in 1..k + 1, Last(h, r, k + 1, c, a, i)
        PROVE  Val(d, a) = Result(h, r[i], a)
    <2>1. CASE i = k + 1
      BY <1>3, <1>6, <2>1 DEF Last
    <2>2. CASE i # k + 1
      <3>1. i \in 1..k
        BY <2>2, SMTT(30)
      <3>2. ~Touches(h, n, c, a)
        BY <1>5, <1>6, <3>1 DEF Last
      <3>3. Last(h, r, k, c, a, i)
        BY <1>5, <1>6, <3>1 DEF Last
      <3>4. Val(e, a) = Result(h, r[i], a)
        BY <3>1, <3>3 DEF Replayed
      <3>5. QED
        BY <1>3, <3>2, <3>4
    <2>3. QED
      BY <2>1, <2>2
  <1>7. ASSUME Silent(h, r, k + 1, c, a)
        PROVE  Val(d, a) = Val(f, a)
    <2>1. ~Touches(h, n, c, a) /\ Silent(h, r, k, c, a)
      BY <1>5, <1>7 DEF Silent
    <2>2. Val(e, a) = Val(f, a)
      BY <2>1 DEF Replayed
    <2>3. QED
      BY <1>3, <2>1, <2>2
  <1>8. QED
    BY <1>6, <1>7

\* A log replayed to its end over a file that it is legal with.
LEMMA ReplayedLegal ==
  ASSUME NEW h, Len(h) \in Nat, NEW r \in Seq(1..Len(h)), NEW c \in Colls, NEW f, NEW e,
         NEW M, LegalLog(h, r, M), LegalPair(h, r, c, f, M),
         Replayed(h, r, Len(r), c, f, e)
  PROVE  LegalFile(h, c, e, M)
  <1> SUFFICES ASSUME NEW a \in Cells PROVE Legal(h, c, a, Val(e, a), M)
    BY DEF LegalFile
  <1>1. Len(r) \in Nat
    OBVIOUS
  <1>2. CASE Silent(h, r, Len(r), c, a)
    BY <1>2 DEF Replayed, LegalPair
  <1>3. CASE \E i \in 1..Len(r) : Last(h, r, Len(r), c, a, i)
    <2>1. PICK i \in 1..Len(r) : Last(h, r, Len(r), c, a, i)
      BY <1>3
    <2>2. PICK n : n = r[i]
      OBVIOUS
    <2>3. Newest(h, n, c, a, M) /\ Touches(h, n, c, a) /\ Val(e, a) = Result(h, n, a)
      BY <2>1, <2>2 DEF LegalLog, Replayed, Last
    <2>4. n \in 0..Len(h) /\ n # 0
      BY <2>2
    <2>5. QED
      BY <2>3, <2>4 DEF Legal
  <1>4. QED
    BY <1>1, <1>2, <1>3, SilentOrLast

\* Operation n, the last of g, makes d of content e of collection c.
Changed(h, g, n, c, e, d, M, K) ==
  /\ Longer(h, g) /\ n \in 0..MaxOps /\ n = Len(h) + 1 /\ n = Len(g)
  /\ g[n] \in Ops /\ e \in Contents
  /\ M \in SUBSET (1..Len(h)) /\ K \in SUBSET (M \cup {n})
  /\ d = IF c = g[n].coll THEN Becomes(e, n, g[n]) ELSE e

\* DB.apply of a new operation leaves a legal collection legal, the new operation
\* taken into account.
LEMMA LegalChanged ==
  ASSUME NEW h, NEW g, NEW n, NEW c, NEW e, NEW d, NEW M, NEW K,
         Changed(h, g, n, c, e, d, M, K), LegalFile(h, c, e, M)
  PROVE  LegalFile(g, c, d, K)
  <1> USE DEF Changed
  <1> SUFFICES ASSUME NEW a \in Cells PROVE Legal(g, c, a, Val(d, a), K)
    BY DEF LegalFile
  <1>1. CASE Touches(g, n, c, a)
    <2>1. c = g[n].coll
      BY <1>1 DEF Touches
    <2>2. Val(d, a) = Result(g, n, a)
      BY <1>1, <2>1, BecomesVal
    <2>3. \A m \in K : ~(m > n)
      BY DEF Longer
    <2>4. Newest(g, n, c, a, K)
      BY <2>3 DEF Newest
    <2>5. n \in 0..Len(g) /\ n # 0
      BY DEF Longer
    <2>6. QED
      BY <1>1, <2>2, <2>4, <2>5 DEF Legal
  <1>2. CASE ~Touches(g, n, c, a)
    <2>1. PICK v : v = Val(e, a)
      OBVIOUS
    <2>2. Val(d, a) = v
      BY <1>2, <2>1, BecomesVal
    <2>3. Legal(h, c, a, v, M)
      BY <2>1 DEF LegalFile
    <2>4. Legal(g, c, a, v, M)
      BY <2>3, LegalGrows
    <2>5. \A m \in K : m \in M \/ ~Touches(g, m, c, a)
      BY <1>2
    <2>6. Legal(g, c, a, v, K)
      BY <2>4, <2>5, LegalOf
    <2>7. QED
      BY <2>2, <2>6
  <1>3. QED
    BY <1>1, <1>2

\* A log with newer records appended.
LEMMA LegalAppended ==
  ASSUME NEW h, NEW S, NEW r \in Seq(S), NEW s \in Seq(S), NEW M, Len(r) <= Len(s),
         \A i \in 1..Len(r) : s[i] = r[i],
         \A i \in 1..Len(s) : i > Len(r) => \A m \in M : ~(m > s[i])
  PROVE  /\ LegalLog(h, r, M) => LegalLog(h, s, M)
         /\ \A c, f : LegalPair(h, r, c, f, M) => LegalPair(h, s, c, f, M)
  <1>1. Len(r) \in Nat /\ Len(s) \in Nat
    OBVIOUS
  <1>2. \A i \in 1..Len(r) : i \in 1..Len(s)
    BY <1>1
  <1>3. ASSUME LegalLog(h, r, M), NEW c \in Colls, NEW a \in Cells, NEW i \in 1..Len(s),
               Last(h, s, Len(s), c, a, i)
        PROVE  Newest(h, s[i], c, a, M)
    <2>1. CASE i > Len(r)
      BY <2>1 DEF Newest
    <2>2. CASE ~(i > Len(r))
      <3>1. i \in 1..Len(r) /\ s[i] = r[i]
        BY <1>1, <2>2
      <3>2. Last(h, r, Len(r), c, a, i)
        BY <1>2, <1>3, <3>1 DEF Last
      <3>3. QED
        BY <1>3, <3>1, <3>2 DEF LegalLog
    <2>3. QED
      BY <2>1, <2>2
  <1>4. ASSUME NEW c, NEW f, LegalPair(h, r, c, f, M), NEW a \in Cells,
               Silent(h, s, Len(s), c, a)
        PROVE  Legal(h, c, a, Val(f, a), M)
    <2>1. Silent(h, r, Len(r), c, a)
      BY <1>2, <1>4 DEF Silent
    <2>2. QED
      BY <1>4, <2>1 DEF LegalPair
  <1>5. LegalLog(h, r, M) => LegalLog(h, s, M)
    BY <1>3 DEF LegalLog
  <1>6. ASSUME NEW c, NEW f, LegalPair(h, r, c, f, M) PROVE LegalPair(h, s, c, f, M)
    BY <1>4, <1>6 DEF LegalPair
  <1>7. QED
    BY <1>5, <1>6

\* A place in the log against one in the batch that ends it.
LEMMA InBatch ==
  ASSUME NEW k \in Nat, NEW n \in Nat, NEW j \in 1..n, NEW i \in 1..k + n
  PROVE  k + j > i \/ k + j = i \/ \E l \in 1..n : i = k + l /\ j < l
  <1>1. CASE k + j < i
    <2>1. i - k \in 1..n /\ i = k + (i - k) /\ j < i - k
      BY <1>1
    <2>2. QED
      BY <2>1
  <1>2. QED
    BY <1>1

\* Batch b ends log r after k records, and K is M with the batch.
Synced(N, r, b, k, M, K) ==
  /\ N \in Nat /\ r \in Seq(1..N) /\ b \in Seq(1..N) /\ Ascends(b)
  /\ k \in Nat /\ Len(r) = k + Len(b) /\ \A i \in 1..Len(b) : r[k + i] = b[i]
  /\ M \in SUBSET (1..N) /\ K = M \cup {b[i] : i \in 1..Len(b)}

\* The batch at the end of the log is done as well.
LEMMA LegalSynced ==
  ASSUME NEW h, NEW N, NEW r, NEW b, NEW k, NEW M, NEW K, Synced(N, r, b, k, M, K)
  PROVE  /\ LegalLog(h, r, M) => LegalLog(h, r, K)
         /\ \A c, f : LegalPair(h, r, c, f, M) => LegalPair(h, r, c, f, K)
  <1> USE DEF Synced
  <1>0. \A j \in 1..Len(b) : b[j] \in 1..N
    <2>1. b \in Seq(1..N)
      OBVIOUS
    <2> HIDE DEF Synced
    <2>2. QED
      BY <2>1, ElementOfSeq
  <1>1. Len(r) \in Nat /\ Len(b) \in Nat
    OBVIOUS
  <1>2. \A j \in 1..Len(b) : k + j \in 1..Len(r)
    <2>1. k \in Nat /\ Len(r) = k + Len(b)
      OBVIOUS
    <2> HIDE DEF Synced
    <2>2. QED
      BY <1>1, <2>1
  <1>3. ASSUME LegalLog(h, r, M), NEW c \in Colls, NEW a \in Cells, NEW i \in 1..Len(r),
               Last(h, r, Len(r), c, a, i), NEW m \in K, m > r[i]
        PROVE  ~Touches(h, m, c, a)
    <2>1. CASE m \in M
      BY <1>3, <2>1 DEF LegalLog, Newest
    <2>2. CASE m \notin M
      <3>1. PICK j \in 1..Len(b) : m = b[j]
        BY <2>2
      <3>2. m = r[k + j] /\ k + j \in 1..Len(r)
        BY <1>2, <3>1
      <3>3. CASE k + j > i
        BY <1>3, <3>2, <3>3 DEF Last
      <3>4. CASE k + j = i
        <4>1. m > m /\ m \in 1..N
          BY <1>3, <3>1, <3>2, <3>4, SMTT(30)
        <4>2. QED
          BY <4>1
      <3>5. CASE \E l \in 1..Len(b) : i = k + l /\ j < l
        <4>1. PICK l \in 1..Len(b) : i = k + l /\ j < l
          BY <3>5
        <4>2. PICK x \in 1..N : x = b[l]
          BY <1>0
        <4>3. r[i] = x /\ m < x /\ m \in 1..N
          <5>1. r[i] = x
            BY <4>1, <4>2
          <5>2. b[j] < b[l]
            BY <4>1 DEF Ascends
          <5>3. QED
            BY <1>0, <3>1, <4>2, <5>1, <5>2
        <4>4. m > x
          BY <1>3, <4>3
        <4>5. QED
          BY <4>3, <4>4, SMTT(30)
      <3>6. k \in Nat /\ i \in 1..k + Len(b)
        BY <1>1
      <3>7. QED
        <4> HIDE DEF Synced
        <4>1. k + j > i \/ k + j = i \/ \E l \in 1..Len(b) : i = k + l /\ j < l
          BY <1>1, <3>6, InBatch
        <4>2. QED
          BY <3>3, <3>4, <3>5, <4>1
    <2>3. QED
      BY <2>1, <2>2
  <1>4. ASSUME NEW c, NEW f, LegalPair(h, r, c, f, M), NEW a \in Cells,
               Silent(h, r, Len(r), c, a)
        PROVE  Legal(h, c, a, Val(f, a), K)
    <2>1. \A j \in 1..Len(b) : ~Touches(h, b[j], c, a)
      BY <1>2, <1>4 DEF Silent
    <2>2. \A m \in K : m \in M \/ ~Touches(h, m, c, a)
      BY <2>1
    <2>3. PICK v : v = Val(f, a)
      OBVIOUS
    <2>4. Legal(h, c, a, v, M)
      BY <1>4, <2>3 DEF LegalPair
    <2>5. Legal(h, c, a, v, K)
      BY <2>2, <2>4, LegalOf
    <2>6. QED
      BY <2>3, <2>5
  <1>5. LegalLog(h, r, M) => LegalLog(h, r, K)
    BY <1>3 DEF LegalLog, Newest
  <1>6. ASSUME NEW c, NEW f, LegalPair(h, r, c, f, M) PROVE LegalPair(h, r, c, f, K)
    BY <1>4, <1>6 DEF LegalPair
  <1>7. QED
    BY <1>5, <1>6

-----------------------------------------------------------------------------
(* Memory *)

\* Before readers see DB.colls.
Early == {"down", "openlog", "load", "replay"}

\* Memory is what replayLog and DB.apply make of legal files and logs.
LEMMA MemStep ==
  ASSUME Shape, DirInv, MemInv, Durable, [Next]_vars
  PROVE  MemInv'
  <1>t. /\ colls \in [Colls -> Contents] /\ file \in [Colls -> Contents]
        /\ hist \in Seq(Ops) /\ Len(hist) \in Nat /\ Len(hist) <= MaxOps
        /\ wal.recs \in Seq(1..Len(hist)) /\ wal \in walDisk /\ pos \in 0..Len(wal.recs)
        /\ pending \in Seq(1..Len(hist)) /\ batch \in Seq(1..Len(hist))
    BY DEF Shape, TypeOK, LogInv
  <1>n. Longer(hist, hist')
    BY NextHist
  <1>s. Admitted \in SUBSET (1..Len(hist))
    <2>1. /\ \A i \in 1..Len(batch) : batch[i] \in 1..Len(hist)
          /\ \A i \in 1..Len(pending) : pending[i] \in 1..Len(hist)
      BY <1>t, ElementOfSeq
    <2>2. acked \subseteq 1..Len(hist)
      BY DEF Shape, TypeOK
    <2>3. QED
      BY <2>1, <2>2 DEF Admitted
  <1>q. UNCHANGED <<acked, batch, pending>> => Admitted' \in SUBSET Admitted
    BY DEF Admitted
  <1>e. acked' = acked /\ batch' = << >> /\ pending' = << >> => Admitted' \in SUBSET Admitted
    BY DEF Admitted
  <1>k. ASSUME colls' = colls, Admitted' \in SUBSET Admitted, pc \notin Early, pc' \notin Early
        PROVE  MemInv'
    <2>1. \A c \in Seen : LegalFile(hist, c, colls[c], Admitted)
      BY <1>k DEF MemInv, Early
    <2>2. \A c \in Seen : LegalFile(hist', c, colls[c], Admitted')
      BY <1>k, <1>n, <1>s, <2>1, LegalFileOf
    <2>3. QED
      BY <1>k, <2>2 DEF MemInv, Early
  <1>m. NoMemory /\ pc' = "down" => MemInv'
    BY DEF NoMemory, MemInv
  <1>f. ASSUME Fail, pc # "down", acked' = acked
        PROVE  MemInv'
    <2>1. CASE mode = "opening"
      BY <1>f, <1>m, <2>1 DEF Fail
    <2>2. CASE mode # "opening"
      <3>1. pc \notin Early
        BY <1>f, <2>2 DEF Shape, ControlInv, Early
      <3>2. /\ colls' = colls /\ pc' = "failed" /\ batch' = << >> /\ pending' = << >>
        BY <1>f, <2>2 DEF Fail
      <3>3. QED
        BY <1>e, <1>f, <1>k, <3>1, <3>2 DEF Early
    <2>3. QED
      BY <2>1, <2>2
  <1>v. UNCHANGED <<hist, colls, acked, batch, pending, pc, pos, wal, file>> => MemInv'
    BY DEF MemInv, Admitted
  <1>1. CASE Open
    BY <1>1 DEF Open, MemInv, memVars, Shape, ControlInv
  <1>2. CASE OpenLog
    BY <1>2, <1>f DEF OpenLog, MemInv, memVars
  <1>3. CASE Load
    <2>1. CASE Fail
      BY <1>3, <2>1, <1>f DEF Load
    <2>2. CASE colls' = file /\ pc' = "replay" /\ pos' = pos
      <3>1. pos' = 0 /\ UNCHANGED <<hist, wal, file>>
        BY <1>3, <2>2 DEF Load, MemInv, fileVars, walVars
      <3>2. ASSUME NEW c \in Colls
            PROVE  Replayed(hist, wal.recs, 0, c, file[c], file[c])
        BY DEF Replayed
      <3>3. \A c \in Colls : Replayed(hist', wal'.recs, pos', c, file'[c], colls'[c])
        BY <2>2, <3>1, <3>2
      <3>4. QED
        BY <2>2, <3>3 DEF MemInv
    <2>3. QED
      BY <1>3, <2>1, <2>2 DEF Load
  <1>4. CASE Replay
    <2>1. PICK n : n = wal.recs[pos + 1]
      OBVIOUS
    <2>2. n \in 0..MaxOps /\ n # Corrupt /\ hist[n] \in Ops /\ pos \in Nat /\ pos < Len(wal.recs)
      BY <1>4, <2>1, ReplayReads DEF Replay
    <2>3. /\ apply(n, hist[n]) /\ UNCHANGED <<hist, wal, file, pc>> /\ pc = "replay"
          /\ pos' = pos + 1
      BY <1>4, <2>1, <2>2 DEF Replay, fileVars, walVars
    <2>4. \A c \in Colls :
            colls'[c] = IF c = hist[n].coll THEN Becomes(colls[c], n, hist[n]) ELSE colls[c]
      BY <1>t, <2>2, <2>3, AppliedIn, SMTT(30) DEF apply
    <2>5. ASSUME NEW c \in Colls
          PROVE  Replayed(hist, wal.recs, pos + 1, c, file[c], colls'[c])
      <3>1. Replayed(hist, wal.recs, pos, c, file[c], colls[c])
        BY <2>3 DEF MemInv
      <3>2. PICK r : r = wal.recs
        OBVIOUS
      <3>3. PICK e \in Contents : e = colls[c]
        BY <1>t
      <3>4. PICK d : d = colls'[c]
        OBVIOUS
      <3>5. d = IF c = hist[n].coll THEN Becomes(e, n, hist[n]) ELSE e
        BY <2>4, <3>3, <3>4
      <3>6. Replayed(hist, r, pos, c, file[c], e) /\ r \in Seq(1..Len(hist)) /\ n = r[pos + 1]
            /\ pos < Len(r)
        BY <1>t, <2>1, <2>2, <3>1, <3>2, <3>3
      <3>7. Replayed(hist, r, pos + 1, c, file[c], d)
        BY <1>t, <2>2, <3>5, <3>6, ReplayedNext
      <3>8. QED
        BY <3>2, <3>4, <3>7
    <2>6. QED
      BY <2>3, <2>5 DEF MemInv
  <1>5. CASE ReplayEnd
    <2>1. /\ pc = "replay" /\ pos = Len(wal.recs) /\ pc' \in {"trim", "snap"}
          /\ UNCHANGED <<hist, acked, colls, batch, pending>>
      BY <1>5 DEF ReplayEnd, memVars
    <2>2. Admitted' = acked
      <3>1. batch = << >> /\ pending = << >>
        BY <2>1 DEF Shape, QueueInv, ControlInv
      <3>2. QED
        BY <2>1, <3>1 DEF Admitted
    <2>3. ASSUME NEW c \in Seen PROVE LegalFile(hist, c, colls[c], acked)
      <3>1. PICK r : r = wal.recs
        OBVIOUS
      <3>2. PICK f : f = file[c]
        OBVIOUS
      <3>3. c \in Colls /\ f \in Files(c)
        BY <3>2, KeptSeen DEF DirInv, Files
      <3>4. r \in Seq(1..Len(hist)) /\ LegalLog(hist, r, acked) /\ LegalPair(hist, r, c, f, acked)
        BY <1>t, <3>1, <3>3 DEF Durable
      <3>5. Replayed(hist, r, Len(r), c, f, colls[c])
        BY <2>1, <3>1, <3>2, <3>3 DEF MemInv
      <3>6. QED
        BY <1>t, <3>3, <3>4, <3>5, ReplayedLegal
    <2>4. QED
      BY <2>1, <2>2, <2>3 DEF MemInv
  <1>6. ASSUME NEW o \in Ops, Change(o)
        PROVE  MemInv'
    <2>1. PICK n : n = Len(hist')
      OBVIOUS
    <2>2. /\ n \in 0..MaxOps /\ n = Len(hist) + 1 /\ apply(n, o) /\ hist'[n] = o
          /\ UNCHANGED <<acked, batch, pc>> /\ pc \notin Early
          /\ pending' = pending \/ pending' = Append(pending, n)
      <3>1. hist' = Append(hist, o) /\ Len(hist) < MaxOps /\ pc' = pc /\ mode = "running"
        BY <1>6 DEF Change
      <3>2. n \in 0..MaxOps /\ n = Len(hist) + 1 /\ hist'[n] = o
        BY <1>t, <2>1, <3>1
      <3>3. apply(n, o) /\ UNCHANGED <<acked, batch>>
        BY <1>6, <2>1 DEF Change
      <3>4. pending' = pending \/ pending' = Append(pending, n)
        BY <1>6, <2>1, Zenon DEF Change
      <3>5. pc \notin Early
        BY <3>1 DEF Shape, ControlInv, Early
      <3>6. QED
        BY <3>1, <3>2, <3>3, <3>4, <3>5
    <2>3. Admitted' \in SUBSET (Admitted \cup {n})
      <3>1. \A i \in 1..Len(pending') : pending'[i] \in Admitted \cup {n}
        <4>1. CASE pending' = pending
          BY <4>1 DEF Admitted
        <4>2. CASE pending' = Append(pending, n)
          <5>1. /\ Len(pending) \in Nat /\ Len(pending') = Len(pending) + 1
                /\ \A i \in 1..Len(pending) : pending'[i] = pending[i]
                /\ pending'[Len(pending) + 1] = n
            BY <1>t, <4>2, AppendIs
          <5>2. \A i \in 1..Len(pending') : i \in 1..Len(pending) \/ i = Len(pending) + 1
            BY <5>1
          <5>3. \A i \in 1..Len(pending) : pending[i] \in Admitted
            BY DEF Admitted
          <5>4. QED
            BY <5>1, <5>2, <5>3
        <4>3. QED
          BY <2>2, <4>1, <4>2
      <3>2. QED
        BY <2>2, <3>1 DEF Admitted
    <2>4. \A c \in Colls : colls'[c] = IF c = o.coll THEN Becomes(colls[c], n, o) ELSE colls[c]
      <3>1. colls' = Applied(n, o)
        BY <2>2 DEF apply
      <3>2. colls \in [Colls -> Contents] /\ n \in 0..MaxOps
        BY <1>t, <2>2
      <3>3. \A c \in Colls :
              Applied(n, o)[c] = IF c = o.coll THEN Becomes(colls[c], n, o) ELSE colls[c]
        BY <3>2, AppliedIn
      <3>4. QED
        BY <3>1, <3>3
    <2>5. ASSUME NEW c \in Seen PROVE LegalFile(hist', c, colls'[c], Admitted')
      <3>0. c \in Colls
        BY KeptSeen
      <3>1. LegalFile(hist, c, colls[c], Admitted)
        BY <2>2 DEF MemInv, Early
      <3>2. PICK g : g = hist'
        OBVIOUS
      <3>3. PICK e \in Contents : e = colls[c]
        BY <1>t, <3>0
      <3>4. PICK d : d = colls'[c]
        OBVIOUS
      <3>5. PICK K : K = Admitted'
        OBVIOUS
      <3>6. /\ d = IF c = g[n].coll THEN Becomes(e, n, g[n]) ELSE e
            /\ g[n] \in Ops /\ n = Len(g) /\ Longer(hist, g) /\ K \in SUBSET (Admitted \cup {n})
            /\ LegalFile(hist, c, e, Admitted)
        BY <1>n, <2>1, <2>2, <2>3, <2>4, <3>0, <3>1, <3>2, <3>3, <3>4, <3>5
      <3>7. LegalFile(g, c, d, K)
        <4>1. PICK M : M = Admitted
          OBVIOUS
        <4>2. /\ M \in SUBSET (1..Len(hist)) /\ K \in SUBSET (M \cup {n})
              /\ LegalFile(hist, c, e, M)
          BY <1>s, <3>6, <4>1
        <4>3. n \in 0..MaxOps /\ n = Len(hist) + 1
          BY <2>2
        <4>4. /\ d = IF c = g[n].coll THEN Becomes(e, n, g[n]) ELSE e
              /\ g[n] \in Ops /\ n = Len(g) /\ Longer(hist, g)
          BY <3>6
        <4>5. PICK h : h = hist
          OBVIOUS
        <4>6. /\ M \in SUBSET (1..Len(h)) /\ LegalFile(h, c, e, M) /\ n = Len(h) + 1
              /\ Longer(h, g)
          BY <4>2, <4>3, <4>4, <4>5
        <4>7. Changed(h, g, n, c, e, d, M, K)
          BY <4>2, <4>3, <4>4, <4>6 DEF Changed
        <4>8. QED
          BY <4>6, <4>7, LegalChanged
      <3>8. QED
        BY <3>2, <3>4, <3>5, <3>7
    <2>6. QED
      BY <2>2, <2>5 DEF MemInv, Early
  <1>7. CASE WriteLog
    <2>1. CASE Fail
      BY <1>7, <2>1, <1>f DEF WriteLog
    <2>2. CASE batch' = pending /\ pending' = << >> /\ pc' = "sync" /\ colls' = colls
      <3>1. Admitted' \in SUBSET Admitted /\ pc = "idle"
        BY <1>7, <2>2 DEF WriteLog, Admitted
      <3>2. QED
        BY <2>2, <3>1, <1>k DEF Early
    <2>3. QED
      BY <1>7, <2>1, <2>2 DEF WriteLog
  <1>8. CASE SyncLog
    <2>1. CASE Fail /\ UNCHANGED <<acked, walDisk>>
      BY <1>8, <2>1, <1>f DEF SyncLog
    <2>2. CASE /\ acked' = acked \cup {batch[i] : i \in 1..Len(batch)} /\ batch' = << >>
               /\ pc' = "idle" /\ UNCHANGED <<colls, pending>>
      <3>1. Admitted' \in SUBSET Admitted /\ pc = "sync"
        BY <1>8, <2>2 DEF SyncLog, Admitted
      <3>2. QED
        BY <2>2, <3>1, <1>k DEF Early
    <2>3. QED
      BY <1>8, <2>1, <2>2 DEF SyncLog
  <1>9. CASE SnapshotNothing
    <2>1. pc \in {"snap", "truncsync"} /\ acked' = acked
      BY <1>9 DEF SnapshotNothing
    <2>3. CASE AfterSnapshot
      <3>1. CASE mode = "last"
        BY <2>3, <3>1, <1>m DEF AfterSnapshot
      <3>2. CASE mode # "last"
        BY <2>1, <2>3, <3>2, <1>k, <1>q DEF AfterSnapshot, memVars, Early
      <3>3. QED
        BY <3>1, <3>2
    <2>4. QED
      BY <1>9, <2>3 DEF SnapshotNothing
  <1>10. CASE TruncateSync
    <2>1. pc \in {"snap", "truncsync"} /\ acked' = acked
      BY <1>10 DEF TruncateSync
    <2>2. CASE Fail
      BY <2>1, <2>2, <1>f
    <2>3. CASE AfterSnapshot
      <3>1. CASE mode = "last"
        BY <2>3, <3>1, <1>m DEF AfterSnapshot
      <3>2. CASE mode # "last"
        BY <2>1, <2>3, <3>2, <1>k, <1>q DEF AfterSnapshot, memVars, Early
      <3>3. QED
        BY <3>1, <3>2
    <2>4. QED
      BY <1>10, <2>2, <2>3 DEF TruncateSync
  <1>11. CASE Trim
    BY <1>11, <1>k, <1>q, <1>f DEF Trim, memVars, Early
  <1>12. CASE TrimSync
    BY <1>12, <1>k, <1>q, <1>f DEF TrimSync, memVars, Early
  <1>13. CASE Tick
    BY <1>13, <1>k, <1>q DEF Tick, memVars, Early
  <1>14. CASE Capture
    BY <1>14, <1>k, <1>q DEF Capture, memVars, Early
  <1>15. ASSUME NEW c \in Colls, Mkdir(c)
         PROVE  MemInv'
    BY <1>15, <1>k, <1>q, <1>f DEF Mkdir, memVars, Early, Handles
  <1>16. ASSUME NEW c \in Colls, Rename(c)
         PROVE  MemInv'
    BY <1>16, <1>k, <1>q, <1>f DEF Rename, memVars, Early, Handles
  <1>17. ASSUME NEW c \in Colls, Remove(c)
         PROVE  MemInv'
    BY <1>17, <1>k, <1>q, <1>f DEF Remove, memVars, Early, Handles
  <1>18. ASSUME NEW c \in Colls, RemoveNothing(c)
         PROVE  MemInv'
    BY <1>18, <1>k, <1>q DEF RemoveNothing, memVars, Early, Handles
  <1>19. CASE MkdirSync
    BY <1>19, <1>k, <1>q, <1>f DEF MkdirSync, memVars, Early
  <1>20. CASE DirSync
    BY <1>20, <1>k, <1>q, <1>f DEF DirSync, memVars, Early
  <1>21. CASE FilesDone
    BY <1>21, <1>k, <1>q DEF FilesDone, memVars, Early
  <1>22. CASE TruncateLog
    BY <1>22, <1>k, <1>q, <1>f DEF TruncateLog, memVars, Early
  <1>23. CASE Close
    BY <1>23, <1>v DEF Close, fileVars, walVars, memVars
  <1>24. CASE Stop
    BY <1>24, <1>v DEF Stop, fileVars, walVars, memVars
  <1>25. CASE CloseFailed
    BY <1>25, <1>m DEF CloseFailed
  <1>26. CASE Kill
    BY <1>26, <1>m DEF Kill
  <1>27. CASE PowerLoss
    BY <1>27, <1>m DEF PowerLoss
  <1>28. CASE UNCHANGED vars
    BY <1>28, <1>v DEF vars, fileVars, walVars, memVars
  <1>29. QED
    BY <1>1, <1>2, <1>3, <1>4, <1>5, <1>6, <1>7, <1>8, <1>9, <1>10, <1>11, <1>12,
       <1>13, <1>14, <1>15, <1>16, <1>17, <1>18, <1>19, <1>20, <1>21, <1>22,
       <1>23, <1>24, <1>25, <1>26, <1>27, <1>28 DEF Next, OpenStep, SnapshotStep

-----------------------------------------------------------------------------
(* What survives *)

\* Logs that hold no other records, and files that are legal, leave it so.
LEMMA DurableKept ==
  ASSUME Shape, [Next]_vars, Durable, acked' = acked,
         \A w \in walDisk' : \E v \in walDisk : v.recs = w.recs,
         \A c \in Seen : \A f \in Files(c)' : f \in Files(c) \/ LegalFile(hist, c, f, acked)
  PROVE  Durable'
  <1>1. Longer(hist, hist') /\ acked \in SUBSET (1..Len(hist))
    BY NextHist
  <1>2. ASSUME NEW w \in walDisk'
        PROVE  /\ LegalLog(hist', w.recs, acked)
               /\ \A c \in Seen : \A f \in Files(c)' : LegalPair(hist', w.recs, c, f, acked)
    <2>1. PICK v \in walDisk : v.recs = w.recs
      OBVIOUS
    <2>2. PICK r : r = w.recs
      OBVIOUS
    <2>3. r \in Seq(1..Len(hist)) /\ LegalLog(hist, r, acked)
      BY <2>1, <2>2 DEF Durable, Shape, LogInv
    <2>4. ASSUME NEW c \in Seen, NEW f \in Files(c)' PROVE LegalPair(hist, r, c, f, acked)
      <3>1. CASE f \in Files(c)
        BY <2>1, <2>2, <3>1 DEF Durable
      <3>2. CASE LegalFile(hist, c, f, acked)
        BY <3>2 DEF LegalFile, LegalPair
      <3>3. QED
        BY <3>1, <3>2
    <2>5. LegalLog(hist', r, acked)
      BY <1>1, <2>3, LegalLogGrows
    <2>6. ASSUME NEW c \in Seen, NEW f \in Files(c)' PROVE LegalPair(hist', r, c, f, acked)
      BY <1>1, <2>3, <2>4, LegalPairGrows
    <2>7. QED
      BY <2>2, <2>5, <2>6
  <1>3. QED
    BY <1>2 DEF Durable

\* No step loses what is done.
LEMMA DurableStep ==
  ASSUME Shape, OrderInv, SubInv, DirInv, SnapInv, Durable, [Next]_vars
  PROVE  Durable'
  <1>t. /\ file \in [Colls -> Contents] /\ disk \in [Colls -> SUBSET Contents]
        /\ Len(hist) \in Nat
        /\ acked \in SUBSET (1..Len(hist)) /\ wal \in walDisk
        /\ \A w \in walDisk : w.recs \in Seq(1..Len(hist))
        /\ pending \in Seq(1..Len(hist)) /\ batch \in Seq(1..Len(hist))
    BY DEF Shape, TypeOK, LogInv
  <1>k. ASSUME acked' = acked, \A w \in walDisk' : w \in walDisk,
               \A c \in Seen : \A f \in Files(c)' : f \in Files(c) \/ LegalFile(hist, c, f, acked)
        PROVE  Durable'
    <2>1. \A w \in walDisk' : \E v \in walDisk : v.recs = w.recs
      BY <1>k
    <2>2. QED
      BY <1>k, <1>t, <2>1, DurableKept
  <1>u. UNCHANGED <<acked, walDisk, disk, file>> => Durable'
    BY <1>k DEF Files
  <1>d. ASSUME NEW b, SyncDir(b), UNCHANGED <<acked, walDisk, file>> PROVE Durable'
    <2>1. \A c \in Colls : disk'[c] = {file[c]} \/ disk'[c] = disk[c]
      BY <1>d DEF SyncDir
    <2>2. \A c \in Seen : \A f \in Files(c)' : f \in Files(c)
      BY <1>d, <2>1, KeptSeen DEF DirInv, Files
    <2>3. QED
      BY <1>d, <1>k, <2>2
  <1>w. ASSUME acked' = acked, UNCHANGED <<file, disk>>, walDisk' = {wal} PROVE Durable'
    BY <1>w, <1>t, <1>k DEF Files
  <1>1. CASE OpenLog
    BY <1>1, <1>d, <1>u DEF OpenLog
  <1>2. CASE MkdirSync
    BY <1>2, <1>d, <1>u DEF MkdirSync
  <1>3. CASE DirSync
    <2>1. PICK b : b = (name \in Nested)
      OBVIOUS
    <2>2. QED
      BY <1>3, <1>d, <1>u, <2>1 DEF DirSync
  <1>4. CASE Trim
    <2>1. CASE UNCHANGED <<wal, walDisk>>
      BY <1>4, <1>u, <2>1 DEF Trim, fileVars
    <2>2. CASE wal' = [wal EXCEPT !.torn = FALSE] /\ walDisk' = walDisk \cup {wal'}
      <3>1. wal'.recs = wal.recs
        BY <2>2 DEF Shape, TypeOK, Logs
      <3>2. \A w \in walDisk' : \E v \in walDisk : v.recs = w.recs
        BY <1>t, <2>2, <3>1
      <3>3. acked' = acked /\ \A c \in Seen : \A f \in Files(c)' : f \in Files(c)
        BY <1>4 DEF Trim, fileVars, Files
      <3>4. QED
        BY <3>2, <3>3, DurableKept
    <2>3. QED
      BY <1>4, <2>1, <2>2 DEF Trim
  <1>5. CASE TrimSync
    BY <1>5, <1>u, <1>w DEF TrimSync, fileVars
  <1>6. CASE TruncateSync
    BY <1>6, <1>u, <1>w DEF TruncateSync, fileVars
  <1>7. CASE WriteLog
    <2>1. PICK k \in Nat : k = Len(pending)
      <3>1. pending \in Seq(1..Len(hist))
        BY <1>t
      <3>2. QED
        BY <3>1, LenProperties
    <2>2. PICK r : r = wal.recs
      OBVIOUS
    <2>3. /\ r \in Seq(1..Len(hist)) /\ LegalLog(hist, r, acked) /\ ~wal.torn
          /\ \A c \in Seen : \A f \in Files(c) : LegalPair(hist, r, c, f, acked)
      BY <1>7, <1>t, <2>2 DEF Durable, WriteLog, Shape, LogInv
    <2>4. ASSUME NEW j \in 0..k, NEW t \in BOOLEAN
          PROVE  /\ LegalLog(hist, Appended(j, t).recs, acked)
                 /\ \A c \in Seen : \A f \in Files(c) :
                      LegalPair(hist, Appended(j, t).recs, c, f, acked)
      <3>1. PICK s : s = Appended(j, t).recs
        OBVIOUS
      <3>2. /\ s \in Seq(1..Len(hist)) /\ Len(s) = Len(r) + j
            /\ \A i \in 1..Len(r) : s[i] = r[i]
            /\ \A i \in 1..j : s[Len(r) + i] = pending[i]
        BY <2>1, <2>2, <2>3, <3>1, AppendedIs
      <3>3. Len(r) \in Nat /\ Len(r) <= Len(s)
        BY <2>3, <3>2
      <3>4. ASSUME NEW i \in 1..Len(s), i > Len(r), NEW m \in acked
            PROVE  ~(m > s[i])
        <4>1. PICK l \in 1..j : i = Len(r) + l
          <5>1. i - Len(r) \in 1..j /\ i = Len(r) + (i - Len(r))
            BY <3>2, <3>3, <3>4, SMTT(30)
          <5>2. QED
            BY <5>1
        <4>2. l \in 1..Len(pending) /\ pending[l] \in 1..Len(hist)
          <5>1. pending \in Seq(1..Len(hist)) /\ Len(pending) \in Nat /\ j <= Len(pending)
            BY <1>t, <2>1
          <5>2. l \in 1..Len(pending)
            BY <5>1
          <5>3. QED
            BY <5>1, <5>2, ElementOfSeq
        <4>3. s[i] = pending[l] /\ m < pending[l] /\ m \in 1..Len(hist)
          BY <1>t, <3>2, <4>1, <4>2 DEF OrderInv, Below
        <4>4. QED
          BY <4>2, <4>3, SMTT(30)
      <3>5. LegalLog(hist, s, acked)
        BY <2>3, <3>2, <3>3, <3>4, LegalAppended
      <3>6. \A c \in Seen : \A f \in Files(c) : LegalPair(hist, s, c, f, acked)
        BY <2>3, <3>2, <3>3, <3>4, LegalAppended
      <3>7. QED
        BY <3>1, <3>5, <3>6
    <2>5. \A w \in walDisk' : w \in walDisk \/ \E j \in 0..k, t \in BOOLEAN : w = Appended(j, t)
      <3>1. \A w \in Parts : \E j \in 0..k, t \in BOOLEAN : w = Appended(j, t)
        <4>1. ASSUME NEW w \in Parts PROVE \E j \in 0..k, t \in BOOLEAN : w = Appended(j, t)
          <5>1. PICK j \in 0..Len(pending) - 1, t \in BOOLEAN : w = Appended(j, t)
            BY DEF Parts
          <5>2. j \in 0..k
            BY <2>1
          <5>3. QED
            BY <5>1, <5>2
        <4>2. QED
          BY <4>1
      <3>2. Len(pending) \in 0..k /\ FALSE \in BOOLEAN
        BY <2>1
      <3>3. QED
        BY <1>7, <3>1, <3>2 DEF WriteLog
    <2>6. UNCHANGED <<hist, acked, file, disk>>
      BY <1>7 DEF WriteLog, fileVars
    <2>7. ASSUME NEW w \in walDisk'
          PROVE  /\ LegalLog(hist, w.recs, acked)
                 /\ \A c \in Seen : \A f \in Files(c) : LegalPair(hist, w.recs, c, f, acked)
      <3>1. CASE w \in walDisk
        BY <3>1 DEF Durable
      <3>2. CASE \E j \in 0..k, t \in BOOLEAN : w = Appended(j, t)
        BY <2>4, <3>2
      <3>3. QED
        BY <2>5, <3>1, <3>2
    <2>8. QED
      BY <2>6, <2>7 DEF Durable, Files
  <1>8. CASE SyncLog
    <2>1. CASE UNCHANGED <<acked, walDisk>>
      BY <1>8, <2>1, <1>u DEF SyncLog, fileVars
    <2>2. CASE walDisk' = {wal} /\ acked' = acked \cup {batch[i] : i \in 1..Len(batch)}
      <3>1. pc = "sync" /\ UNCHANGED <<hist, file, disk>>
        BY <1>8 DEF SyncLog, fileVars
      <3>2. PICK r : r = wal.recs
        OBVIOUS
      <3>3. /\ r \in Seq(1..Len(hist)) /\ LegalLog(hist, r, acked)
            /\ \A c \in Seen : \A f \in Files(c) : LegalPair(hist, r, c, f, acked)
        BY <1>t, <3>2 DEF Durable
      <3>4. PICK k \in Nat : Len(r) = k + Len(batch) /\ \A i \in 1..Len(batch) : r[k + i] = batch[i]
        <4>1. PICK k \in 0..Len(r) :
                Len(r) = k + Len(batch) /\ \A i \in 1..Len(batch) : r[k + i] = batch[i]
          BY <3>1, <3>2 DEF OrderInv
        <4>2. k \in Nat
          BY <3>3
        <4>3. QED
          BY <4>1, <4>2
      <3>5. PICK K : K = acked'
        OBVIOUS
      <3>6. Ascends(batch) /\ K = acked \cup {batch[i] : i \in 1..Len(batch)}
        BY <2>2, <3>5 DEF OrderInv
      <3>7. /\ LegalLog(hist, r, K)
            /\ \A c \in Seen : \A f \in Files(c) : LegalPair(hist, r, c, f, K)
        <4>1. /\ LegalLog(hist, r, acked) => LegalLog(hist, r, K)
              /\ \A c, f : LegalPair(hist, r, c, f, acked) => LegalPair(hist, r, c, f, K)
          <5>1. PICK N \in Nat : N = Len(hist)
            BY <1>t
          <5>2. /\ r \in Seq(1..N) /\ batch \in Seq(1..N) /\ acked \in SUBSET (1..N)
                /\ Ascends(batch) /\ Len(r) = k + Len(batch)
            BY <1>t, <3>3, <3>4, <3>6, <5>1
          <5>3. Synced(N, r, batch, k, acked, K)
            BY <3>4, <3>6, <5>2 DEF Synced
          <5>4. QED
            BY <5>3, LegalSynced
        <4>2. QED
          BY <3>3, <4>1
      <3>8. QED
        BY <2>2, <3>1, <3>2, <3>5, <3>7 DEF Durable, Files
    <2>3. QED
      BY <1>8, <2>1, <2>2 DEF SyncLog
  <1>9. ASSUME NEW c \in Colls, Rename(c)
        PROVE  Durable'
    <2>1. CASE UNCHANGED <<file, disk>>
      BY <1>9, <2>1, <1>u DEF Rename, walVars
    <2>2. CASE /\ file' = [file EXCEPT ![c] = snaps[c]]
               /\ disk' = [disk EXCEPT ![c] = disk[c] \cup {snaps[c]}]
      <3>1. snaps[c] = snaps[c] /\ c \in DOMAIN snaps /\ UNCHANGED <<acked, walDisk>>
        BY <1>9 DEF Rename, Handles, walVars
      <3>2. c \in Seen => LegalFile(hist, c, snaps[c], acked)
        BY <3>1 DEF SnapInv
      <3>3. ASSUME NEW d \in Seen, NEW f \in Files(d)'
            PROVE  f \in Files(d) \/ LegalFile(hist, d, f, acked)
        <4>1. CASE d # c
          BY <1>t, <2>2, <3>3, <4>1, KeptSeen DEF Files
        <4>2. CASE d = c
          <5>1. f \in Files(c) \/ f = snaps[c]
            BY <1>t, <2>2, <3>3, <4>2 DEF Files
          <5>2. QED
            BY <3>2, <4>2, <5>1
        <4>3. QED
          BY <4>1, <4>2
      <3>4. QED
        BY <1>k, <3>1, <3>3
    <2>3. QED
      BY <1>9, <2>1, <2>2 DEF Rename
  <1>10. ASSUME NEW c \in Colls, Remove(c)
         PROVE  Durable'
    <2>1. CASE UNCHANGED <<file, disk>>
      BY <1>10, <2>1, <1>u DEF Remove, walVars
    <2>2. CASE /\ file' = [file EXCEPT ![c] = Nil]
               /\ disk' = [disk EXCEPT ![c] = disk[c] \cup {Nil}]
      <3>1. Nil = snaps[c] /\ c \in DOMAIN snaps /\ UNCHANGED <<acked, walDisk>>
        BY <1>10 DEF Remove, Handles, walVars
      <3>2. c \in Seen => LegalFile(hist, c, Nil, acked)
        BY <3>1 DEF SnapInv
      <3>3. ASSUME NEW d \in Seen, NEW f \in Files(d)'
            PROVE  f \in Files(d) \/ LegalFile(hist, d, f, acked)
        <4>1. CASE d # c
          BY <1>t, <2>2, <3>3, <4>1, KeptSeen DEF Files
        <4>2. CASE d = c
          <5>1. f \in Files(c) \/ f = Nil
            BY <1>t, <2>2, <3>3, <4>2 DEF Files
          <5>2. QED
            BY <3>2, <4>2, <5>1
        <4>3. QED
          BY <4>1, <4>2
      <3>4. QED
        BY <1>k, <3>1, <3>3
    <2>3. QED
      BY <1>10, <2>1, <2>2 DEF Remove
  <1>11. CASE TruncateLog
    <2>1. CASE UNCHANGED <<wal, walDisk>>
      BY <1>11, <2>1, <1>u DEF TruncateLog, fileVars
    <2>2. CASE walDisk' = walDisk \cup {NoLog}
      <3>1. pc = "truncate" /\ UNCHANGED <<hist, acked, file, disk>>
        BY <1>11 DEF TruncateLog, fileVars
      <3>2. ASSUME NEW c \in Seen, NEW f \in Files(c) PROVE LegalFile(hist, c, f, acked)
        <4>1. f = file[c] /\ DOMAIN snaps = {}
          BY <3>1, <3>2 DEF DirInv, SnapInv, Writing, Files
        <4>2. QED
          BY <3>1, <4>1 DEF SnapInv, Snapshotting
      <3>3. NoLog.recs = << >>
        BY DEF NoLog
      <3>4. LegalLog(hist, << >>, acked)
        BY DEF LegalLog
      <3>5. ASSUME NEW c \in Seen, NEW f \in Files(c) PROVE LegalPair(hist, << >>, c, f, acked)
        BY <3>2 DEF LegalFile, LegalPair
      <3>6. ASSUME NEW w \in walDisk'
            PROVE  /\ LegalLog(hist, w.recs, acked)
                   /\ \A c \in Seen : \A f \in Files(c) : LegalPair(hist, w.recs, c, f, acked)
        BY <2>2, <3>3, <3>4, <3>5 DEF Durable
      <3>7. QED
        BY <3>1, <3>6 DEF Durable, Files
    <2>3. QED
      BY <1>11, <2>1, <2>2 DEF TruncateLog
  <1>12. CASE PowerLoss
    <2>1. acked' = acked /\ walDisk' = {wal'} /\ \A c \in Colls : disk'[c] = {file'[c]}
      BY <1>12 DEF PowerLoss
    <2>2. wal' \in walDisk
      BY <1>12 DEF PowerLoss, WalSurvives, Shape, LogInv
    <2>3. ASSUME NEW c \in Seen, NEW f \in Files(c)' PROVE f \in Files(c)
      <3>1. c \in Kept /\ c \in Colls /\ Files(c) = disk[c]
        BY <1>12, FlatOnly, KeptSeen DEF Files
      <3>2. f = file'[c]
        BY <2>1, <2>3, <3>1 DEF Files
      <3>3. CASE file'[c] \in disk[c]
        BY <3>1, <3>2, <3>3
      <3>4. CASE sub = "cached" /\ c \in Nested /\ file'[c] = Nil
        <4>1. Gentle
          BY <3>1, <3>4 DEF Kept
        <4>2. QED
          BY <3>1, <3>2, <3>4, <4>1 DEF SubInv
      <3>5. QED
        BY <1>12, <3>1, <3>3, <3>4 DEF PowerLoss
    <2>4. QED
      BY <1>k, <2>1, <2>2, <2>3
  <1>13. CASE Open \/ Load \/ Replay \/ ReplayEnd
    <2>1. UNCHANGED <<acked, walDisk, disk, file>>
      BY <1>13 DEF Open, Load, Replay, ReplayEnd, fileVars, walVars
    <2>2. QED
      BY <2>1, <1>u
  <1>14. CASE (\E o \in Ops : Change(o)) \/ Tick \/ SnapshotNothing \/ Capture
    <2>1. UNCHANGED <<acked, walDisk, disk, file>>
      BY <1>14 DEF Change, Tick, SnapshotNothing, Capture, fileVars, walVars
    <2>2. QED
      BY <2>1, <1>u
  <1>15. CASE (\E c \in Colls : Mkdir(c)) \/ (\E c \in Colls : RemoveNothing(c))
              \/ FilesDone \/ Close
    <2>1. UNCHANGED <<acked, walDisk, disk, file>>
      BY <1>15 DEF Mkdir, RemoveNothing, FilesDone, Close, fileVars, walVars
    <2>2. QED
      BY <2>1, <1>u
  <1>16. CASE Stop \/ CloseFailed \/ Kill
    <2>1. UNCHANGED <<acked, walDisk, disk, file>>
      BY <1>16 DEF Stop, CloseFailed, Kill, fileVars, walVars
    <2>2. QED
      BY <2>1, <1>u
  <1>17. CASE UNCHANGED vars
    BY <1>17, <1>u DEF vars, fileVars, walVars
  <1>18. QED
    BY <1>1, <1>2, <1>3, <1>4, <1>5, <1>6, <1>7, <1>8, <1>9, <1>10, <1>11, <1>12,
       <1>13, <1>14, <1>15, <1>16, <1>17 DEF Next, OpenStep, SnapshotStep

-----------------------------------------------------------------------------
(* What Open recovers *)

\* The cells are the documents and collections of the properties.
LEMMA CellOfDoc ==
  ASSUME NEW n, n # 0, NEW c, NEW id \in Ids
  PROVE  (Affects(n, c, id) <=> Touches(hist, n, c, id)) /\ After(n) = Result(hist, n, id)
  BY DEF Affects, Touches, After, Result

\* The same for the existence of a collection.
LEMMA CellOfColl ==
  ASSUME NEW n, n # 0, NEW c
  PROVE  /\ Founds(n, c) <=> Touches(hist, n, c, Nil)
         /\ hist[n].op = "set" <=> Result(hist, n, Nil) = 1
  BY DEF Founds, Touches, Result

\* A legal cell is a legal document.
LEMMA DocIsLegal ==
  ASSUME Len(hist) \in Nat, NEW c, NEW id \in Ids, NEW v, Legal(hist, c, id, v, acked),
         acked \subseteq 1..Len(hist)
  PROVE  LegalDoc(c, id, v)
  <1>1. PICK n \in 0..Len(hist) :
          /\ IF n = 0 THEN v = 0 ELSE Touches(hist, n, c, id) /\ v = Result(hist, n, id)
          /\ Newest(hist, n, c, id, acked)
    BY DEF Legal
  <1>2. ASSUME NEW m \in acked, m > n PROVE ~Affects(m, c, id)
    <2>1. m # 0
      OBVIOUS
    <2>2. QED
      BY <1>1, <1>2, <2>1, CellOfDoc DEF Newest
  <1>3. IF n = 0 THEN v = 0 ELSE Affects(n, c, id) /\ v = After(n)
    BY <1>1, CellOfDoc
  <1>4. QED
    BY <1>2, <1>3 DEF LegalDoc

\* A legal cell is a legal collection.
LEMMA CollIsLegal ==
  ASSUME Len(hist) \in Nat, NEW c, NEW b \in BOOLEAN, NEW v, b <=> v = 1,
         Legal(hist, c, Nil, v, acked), acked \subseteq 1..Len(hist)
  PROVE  LegalColl(c, b)
  <1>1. PICK n \in 0..Len(hist) :
          /\ IF n = 0 THEN v = 0 ELSE Touches(hist, n, c, Nil) /\ v = Result(hist, n, Nil)
          /\ Newest(hist, n, c, Nil, acked)
    BY DEF Legal
  <1>2. ASSUME NEW m \in acked, m > n PROVE ~Founds(m, c)
    <2>1. m # 0
      OBVIOUS
    <2>2. QED
      BY <1>1, <1>2, <2>1, CellOfColl DEF Newest
  <1>3. CASE n = 0
    <2>1. ~b
      BY <1>1, <1>3
    <2>2. QED
      BY <1>2, <1>3, <2>1 DEF LegalColl
  <1>4. CASE n # 0
    <2>1. Founds(n, c) /\ (b <=> hist[n].op = "set")
      BY <1>1, <1>4, CellOfColl
    <2>2. b = (hist[n].op = "set")
      BY <2>1, Zenon
    <2>3. QED
      BY <1>2, <1>4, <2>1, <2>2 DEF LegalColl
  <1>5. QED
    BY <1>3, <1>4

\* LastRec finds the last record on the cell.
LEMMA LastChosen ==
  ASSUME NEW k \in Nat, NEW T \in SUBSET (1..k), NEW i \in T, \A j \in 1..k : j > i => j \notin T
  PROVE  (CHOOSE m \in T : \A j \in T : j <= m) = i
  <1>1. \A j \in T : j <= i
    OBVIOUS
  <1>2. PICK m : m = CHOOSE x \in T : \A j \in T : j <= x
    OBVIOUS
  <1>3. m \in T /\ \A j \in T : j <= m
    BY <1>1, <1>2
  <1>4. m <= i /\ i <= m
    BY <1>1, <1>3
  <1>5. QED
    BY <1>2, <1>3, <1>4

\* Open recovers a document from the log's last word or else from the file.
LEMMA RecoveredDocIs ==
  ASSUME Shape, NEW w \in walDisk, NEW c, NEW id \in Ids, NEW f
  PROVE  /\ Silent(hist, w.recs, Len(w.recs), c, id) => RecoveredDoc(c, id, f, w) = Val(f, id)
         /\ \A i \in 1..Len(w.recs) : Last(hist, w.recs, Len(w.recs), c, id, i) =>
              RecoveredDoc(c, id, f, w) = Result(hist, w.recs[i], id)
  <1>1. PICK r : r = w.recs
    OBVIOUS
  <1>2. r \in Seq(1..Len(hist)) /\ Len(r) \in Nat
    BY <1>1 DEF Shape, LogInv
  <1>3. \A i \in 1..Len(r) : r[i] # 0
    BY <1>2
  <1> DEFINE T == {i \in 1..Len(r) : Affects(r[i], c, id)}
             l == LastRec(w, LAMBDA m : Affects(m, c, id))
  <1>4. l = IF T = {} THEN 0 ELSE r[CHOOSE i \in T : \A j \in T : j <= i]
    BY <1>1 DEF LastRec
  <1>5. RecoveredDoc(c, id, f, w) = IF l # 0 THEN After(l) ELSE IF f = Nil THEN 0 ELSE f[id]
    BY DEF RecoveredDoc
  <1>6. \A i \in 1..Len(r) : i \in T <=> Touches(hist, r[i], c, id)
    BY <1>3, CellOfDoc
  <1>7. T \in SUBSET (1..Len(r))
    OBVIOUS
  <1> HIDE DEF T, l
  <1>8. CASE Silent(hist, r, Len(r), c, id)
    <2>1. T = {}
      BY <1>6, <1>7, <1>8 DEF Silent
    <2>2. l = 0
      BY <1>4, <2>1
    <2>3. RecoveredDoc(c, id, f, w) = Val(f, id)
      BY <1>5, <2>2 DEF Val
    <2>4. ASSUME NEW i \in 1..Len(r), Last(hist, r, Len(r), c, id, i) PROVE FALSE
      BY <1>8, <2>4 DEF Silent, Last
    <2>5. QED
      BY <1>1, <2>3, <2>4
  <1>9. CASE ~Silent(hist, r, Len(r), c, id)
    <2>1. ASSUME NEW i \in 1..Len(r), Last(hist, r, Len(r), c, id, i)
          PROVE  RecoveredDoc(c, id, f, w) = Result(hist, r[i], id)
      <3>1. i \in T /\ \A j \in 1..Len(r) : j > i => j \notin T
        BY <1>6, <2>1 DEF Last
      <3>2. (CHOOSE m \in T : \A j \in T : j <= m) = i
        BY <1>2, <1>7, <3>1, LastChosen
      <3>3. l = r[i] /\ l # 0
        BY <1>3, <1>4, <3>1, <3>2
      <3>4. QED
        BY <1>5, <3>3, CellOfDoc
    <2>2. QED
      BY <1>1, <1>9, <2>1
  <1>10. QED
    BY <1>8, <1>9

\* Open recovers a collection from the log's last word or else from the file.
LEMMA RecoveredCollIs ==
  ASSUME Shape, NEW w \in walDisk, NEW c, NEW f
  PROVE  /\ RecoveredColl(c, f, w) \in BOOLEAN
         /\ Silent(hist, w.recs, Len(w.recs), c, Nil) =>
              (RecoveredColl(c, f, w) <=> Val(f, Nil) = 1)
         /\ \A i \in 1..Len(w.recs) : Last(hist, w.recs, Len(w.recs), c, Nil, i) =>
              (RecoveredColl(c, f, w) <=> Result(hist, w.recs[i], Nil) = 1)
  <1>1. PICK r : r = w.recs
    OBVIOUS
  <1>2. r \in Seq(1..Len(hist)) /\ Len(r) \in Nat
    BY <1>1 DEF Shape, LogInv
  <1>3. \A i \in 1..Len(r) : r[i] # 0
    BY <1>2
  <1> DEFINE T == {i \in 1..Len(r) : Founds(r[i], c)}
             l == LastRec(w, LAMBDA m : Founds(m, c))
  <1>4. l = IF T = {} THEN 0 ELSE r[CHOOSE i \in T : \A j \in T : j <= i]
    BY <1>1 DEF LastRec
  <1>5. /\ RecoveredColl(c, f, w) <=> IF l # 0 THEN hist[l].op = "set" ELSE f # Nil
        /\ RecoveredColl(c, f, w) \in BOOLEAN
    BY DEF RecoveredColl
  <1>6. \A i \in 1..Len(r) : i \in T <=> Touches(hist, r[i], c, Nil)
    BY <1>3, CellOfColl
  <1>7. T \in SUBSET (1..Len(r))
    OBVIOUS
  <1> HIDE DEF T, l
  <1>8. CASE Silent(hist, r, Len(r), c, Nil)
    <2>1. T = {}
      BY <1>6, <1>7, <1>8 DEF Silent
    <2>2. l = 0
      BY <1>4, <2>1
    <2>3. RecoveredColl(c, f, w) <=> Val(f, Nil) = 1
      BY <1>5, <2>2 DEF Val
    <2>4. ASSUME NEW i \in 1..Len(r), Last(hist, r, Len(r), c, Nil, i) PROVE FALSE
      BY <1>8, <2>4 DEF Silent, Last
    <2>5. QED
      BY <1>1, <1>5, <2>3, <2>4
  <1>9. CASE ~Silent(hist, r, Len(r), c, Nil)
    <2>1. ASSUME NEW i \in 1..Len(r), Last(hist, r, Len(r), c, Nil, i)
          PROVE  RecoveredColl(c, f, w) <=> Result(hist, r[i], Nil) = 1
      <3>1. i \in T /\ \A j \in 1..Len(r) : j > i => j \notin T
        BY <1>6, <2>1 DEF Last
      <3>2. (CHOOSE m \in T : \A j \in T : j <= m) = i
        BY <1>2, <1>7, <3>1, LastChosen
      <3>3. l = r[i] /\ l # 0
        BY <1>3, <1>4, <3>1, <3>2
      <3>4. QED
        BY <1>5, <3>3, CellOfColl
    <2>2. QED
      BY <1>1, <1>5, <1>9, <2>1
  <1>10. QED
    BY <1>8, <1>9

\* Nothing survives but what the directories and the log may show.
LEMMA SurvivesIs ==
  ASSUME Shape, SubInv
  PROVE  WalSurvives = walDisk /\ \A c \in Kept : Survives(c) = disk[c]
  <1>1. WalSurvives = walDisk
    BY DEF WalSurvives, Shape, LogInv
  <1>2. \A c \in Kept : Survives(c) = disk[c]
    BY DEF Survives, SubInv, Kept
  <1>3. QED
    BY <1>1, <1>2

\* A log and a file that are legal together recover a legal cell.
LEMMA RecoveredLegal ==
  ASSUME Shape, Durable, NEW w \in walDisk, NEW c \in Seen, NEW f \in Files(c), NEW a \in Cells,
         NEW v,
         Silent(hist, w.recs, Len(w.recs), c, a) => v = Val(f, a),
         \A i \in 1..Len(w.recs) : Last(hist, w.recs, Len(w.recs), c, a, i) =>
           v = Result(hist, w.recs[i], a)
  PROVE  Legal(hist, c, a, v, acked)
  <1>1. PICK r : r = w.recs
    OBVIOUS
  <1>2. /\ r \in Seq(1..Len(hist)) /\ Len(r) \in Nat /\ Len(hist) \in Nat
        /\ LegalLog(hist, r, acked) /\ LegalPair(hist, r, c, f, acked)
    BY <1>1 DEF Shape, TypeOK, LogInv, Durable
  <1>3. CASE Silent(hist, r, Len(r), c, a)
    BY <1>1, <1>2, <1>3 DEF LegalPair
  <1>4. CASE \E i \in 1..Len(r) : Last(hist, r, Len(r), c, a, i)
    <2>1. PICK i \in 1..Len(r) : Last(hist, r, Len(r), c, a, i)
      BY <1>4
    <2>2. PICK n : n = r[i]
      OBVIOUS
    <2>3. Newest(hist, n, c, a, acked) /\ Touches(hist, n, c, a) /\ v = Result(hist, n, a)
      BY <1>1, <1>2, <2>1, <2>2, KeptSeen DEF LegalLog, Last
    <2>4. n \in 0..Len(hist) /\ n # 0
      BY <1>2, <2>2
    <2>5. QED
      BY <2>3, <2>4 DEF Legal
  <1>5. QED
    BY <1>2, <1>3, <1>4, SilentOrLast

\* What Open may find recovers what is done.
LEMMA InvRecovers ==
  ASSUME Shape, Durable, NEW c \in Seen, NEW f \in Files(c), NEW w \in walDisk
  PROVE  Recovers(c, f, w)
  <1>0. c \in Colls
    BY KeptSeen
  <1>1. Len(hist) \in Nat /\ acked \subseteq 1..Len(hist)
    BY DEF Shape, TypeOK
  <1>2. LegalColl(c, RecoveredColl(c, f, w))
    <2>1. PICK b : b = RecoveredColl(c, f, w)
      OBVIOUS
    <2>2. PICK v : v = IF b THEN 1 ELSE 0
      OBVIOUS
    <2>3. b \in BOOLEAN /\ (b <=> v = 1) /\ v \in {0, 1}
      BY <2>1, <2>2, RecoveredCollIs
    <2>4. Silent(hist, w.recs, Len(w.recs), c, Nil) => v = Val(f, Nil)
      <3>1. Val(f, Nil) \in {0, 1}
        BY DEF Val
      <3>2. QED
        BY <2>1, <2>3, <3>1, RecoveredCollIs
    <2>5. ASSUME NEW i \in 1..Len(w.recs), Last(hist, w.recs, Len(w.recs), c, Nil, i)
          PROVE  v = Result(hist, w.recs[i], Nil)
      <3>1. Result(hist, w.recs[i], Nil) \in {0, 1}
        BY DEF Result
      <3>2. QED
        BY <2>1, <2>3, <2>5, <3>1, RecoveredCollIs
    <2>6. Nil \in Cells
      BY DEF Cells
    <2>7. Legal(hist, c, Nil, v, acked)
      BY <2>4, <2>5, <2>6, RecoveredLegal
    <2>8. QED
      BY <1>0, <1>1, <2>1, <2>3, <2>7, CollIsLegal
  <1>3. ASSUME NEW id \in Ids
        PROVE  LegalDoc(c, id, RecoveredDoc(c, id, f, w))
    <2>1. PICK v : v = RecoveredDoc(c, id, f, w)
      OBVIOUS
    <2>2. id \in Cells
      BY DEF Cells
    <2>3. /\ Silent(hist, w.recs, Len(w.recs), c, id) => v = Val(f, id)
          /\ \A i \in 1..Len(w.recs) : Last(hist, w.recs, Len(w.recs), c, id, i) =>
               v = Result(hist, w.recs[i], id)
      BY <2>1, RecoveredDocIs
    <2>4. Legal(hist, c, id, v, acked)
      BY <2>2, <2>3, RecoveredLegal
    <2>5. QED
      BY <1>0, <1>1, <2>1, <2>4, DocIsLegal
  <1>4. QED
    BY <1>2, <1>3 DEF Recovers

\* What may survive recovers what is done.
LEMMA InvSurvives ==
  ASSUME Shape, SubInv, Durable, NEW c \in Kept, NEW f \in Survives(c), NEW w \in WalSurvives
  PROVE  Recovers(c, f, w)
  <1>1. c \in Seen /\ f \in Files(c) /\ w \in walDisk
    BY SurvivesIs, KeptSeen DEF Files
  <1>2. QED
    BY <1>1, InvRecovers

\* What is in memory is what is done, or newer.
LEMMA InvReads ==
  ASSUME Shape, MemInv, mode \in {"running", "closing", "last"}, NEW c \in Seen
  PROVE  Current(c)
  <1>1. Len(hist) \in Nat /\ acked \subseteq 1..Len(hist)
    BY DEF Shape, TypeOK
  <1>2. LegalFile(hist, c, colls[c], Admitted)
    BY DEF MemInv, Shape, ControlInv
  <1>3. acked \subseteq Admitted
    BY DEF Admitted
  <1>4. ASSUME NEW a \in Cells PROVE Legal(hist, c, a, Val(colls[c], a), acked)
    <2>1. PICK v : v = Val(colls[c], a)
      OBVIOUS
    <2>2. Legal(hist, c, a, v, Admitted)
      BY <1>2, <2>1 DEF LegalFile
    <2>3. QED
      BY <1>3, <2>1, <2>2, LegalOf
  <1>5. LegalColl(c, colls[c] # Nil)
    <2>1. PICK v : v = Val(colls[c], Nil)
      OBVIOUS
    <2>2. PICK b : b = (colls[c] # Nil)
      OBVIOUS
    <2>3. b \in BOOLEAN
      BY <2>2, Zenon
    <2>4. (b <=> v = 1) /\ Nil \in Cells
      <3>1. b <=> colls[c] # Nil
        BY <2>2, Zenon
      <3>2. QED
        BY <2>1, <3>1 DEF Val, Cells
    <2>5. Legal(hist, c, Nil, v, acked)
      BY <1>4, <2>1, <2>4
    <2>6. LegalColl(c, b)
      BY <1>1, <2>3, <2>4, <2>5, CollIsLegal
    <2>7. QED
      BY <2>2, <2>6
  <1>6. ASSUME NEW id \in Ids
        PROVE  LegalDoc(c, id, IF colls[c] = Nil THEN 0 ELSE colls[c][id])
    <2>1. PICK v : v = Val(colls[c], id)
      OBVIOUS
    <2>2. id \in Cells /\ id # Nil
      BY DEF Cells
    <2>3. v = IF colls[c] = Nil THEN 0 ELSE colls[c][id]
      BY <2>1, <2>2 DEF Val
    <2>4. Legal(hist, c, id, v, acked)
      BY <1>4, <2>1, <2>2
    <2>5. LegalDoc(c, id, v)
      BY <1>1, <2>4, DocIsLegal
    <2>6. QED
      BY <2>3, <2>5
  <1>7. QED
    BY <1>5, <1>6 DEF Current

-----------------------------------------------------------------------------
(* Theorems *)

\* An empty directory satisfies the invariant.
LEMMA InvInit == Init => Inv
  <1> SUFFICES ASSUME Init PROVE Inv
    OBVIOUS
  <1>1. Shape
    BY ShapeInit
  <1>2. OrderInv
    BY EmptyOrder DEF Init, OrderInv
  <1>3. SubInv /\ DirInv
    BY KeptSeen DEF Init, SubInv, DirInv
  <1>4. DOMAIN snaps = {}
    BY NoDomain DEF Init
  <1>5. SnapInv
    BY <1>4 DEF Init, SnapInv, Snapshotting
  <1>6. CleanInv /\ MemInv
    BY DEF Init, CleanInv, MemInv
  <1>7. Durable
    <2>1. walDisk = {NoLog} /\ NoLog.recs = << >> /\ hist = << >> /\ acked = {}
      BY EmptyLog DEF Init
    <2>2. LegalLog(hist, << >>, acked)
      BY DEF LegalLog
    <2>3. ASSUME NEW c \in Seen, NEW f \in Files(c), NEW a \in Cells
          PROVE  Legal(hist, c, a, Val(f, a), acked)
      <3>0. f = Nil
        BY KeptSeen DEF Init, Files
      <3>1. Val(f, a) = 0 /\ 0 \in 0..Len(hist)
        BY <2>1, <3>0 DEF Val
      <3>2. Newest(hist, 0, c, a, acked)
        BY <2>1 DEF Newest
      <3>3. QED
        BY <3>1, <3>2 DEF Legal
    <2>4. \A c \in Seen : \A f \in Files(c) : LegalPair(hist, << >>, c, f, acked)
      BY <2>3 DEF LegalPair
    <2>5. QED
      BY <2>1, <2>2, <2>4 DEF Durable
  <1>8. QED
    BY <1>1, <1>2, <1>3, <1>5, <1>6, <1>7 DEF Inv

\* Every step preserves the invariant.
LEMMA InvStep ==
  ASSUME Inv, [Next]_vars
  PROVE  Inv'
  <1>1. Shape /\ OrderInv /\ SubInv /\ DirInv /\ SnapInv /\ CleanInv /\ MemInv /\ Durable
    BY DEF Inv
  <1>2. Shape' /\ OrderInv'
    BY <1>1, ShapeStep, OrderStep
  <1>3. SubInv' /\ DirInv'
    BY <1>1, SubStep, DirStep
  <1>4. SnapInv' /\ CleanInv'
    BY <1>1, SnapStep, CleanStep
  <1>5. MemInv' /\ Durable'
    BY <1>1, MemStep, DurableStep
  <1>6. QED
    BY <1>2, <1>3, <1>4, <1>5 DEF Inv

\* The inductive invariant holds throughout, wherever the collections are.
THEOREM InvHolds == Spec => []Inv
  <1>1. Inv /\ [Next]_vars => Inv'
    BY InvStep
  <1>2. QED
    BY InvInit, <1>1, PTL DEF Spec

\* What was acknowledged of the collections in the database directory survives,
\* and readers see it, whatever happens to those in a subdirectory.
RootSurvives ==
  \A c \in Colls \ Nested : \A f \in Survives(c), w \in WalSurvives : Recovers(c, f, w)

RootCurrent ==
  mode \in {"running", "closing", "last"} => \A c \in Colls \ Nested : Current(c)

\* A collection in the database directory is safe through any number of kills,
\* power losses and failing calls, whatever other collections there are: no
\* hypothesis on the constants.
THEOREM RootSurvivesHolds == Spec => [](RootSurvives /\ RootCurrent)
  <1>1. Inv => RootSurvives /\ RootCurrent
    <2> SUFFICES ASSUME Inv PROVE RootSurvives /\ RootCurrent
      OBVIOUS
    <2>1. RootSurvives
      BY InvSurvives, KeptSeen DEF RootSurvives, Inv
    <2>2. RootCurrent
      BY InvReads, KeptSeen DEF RootCurrent, Inv
    <2>3. QED
      BY <2>1, <2>2
  <1>2. QED
    BY InvHolds, <1>1, PTL

\* What the next Open finds if the process is killed now.
KilledRecovers == \A c \in Colls : Recovers(c, file[c], wal)

\* As long as power is not lost, any number of kills and failing calls leave
\* what was acknowledged in the files that the kernel keeps, those in a
\* subdirectory included.
THEOREM KilledRecoversHolds ==
  ASSUME MaxLosses = 0
  PROVE  Spec => []KilledRecovers
  <1>1. Inv => KilledRecovers
    <2> SUFFICES ASSUME Inv, NEW c \in Colls PROVE Recovers(c, file[c], wal)
      BY DEF KilledRecovers
    <2>1. wal \in walDisk
      BY DEF Inv, Shape, LogInv
    <2>2. c \in Seen /\ file[c] \in Files(c)
      BY DEF Seen, Files, Inv, DirInv
    <2>3. QED
      BY <2>1, <2>2, InvRecovers DEF Inv
  <1>2. QED
    BY InvHolds, <1>1, PTL

\* A successful return means the change is durable: whatever a kill or a power
\* loss leaves of the files and the log at any moment, Open recovers for every
\* document and collection the last acknowledged operation or a later one.
THEOREM AckedSurvivesHolds ==
  ASSUME Covered
  PROVE  Spec => []AckedSurvives
  <1>1. Kept = Colls
    BY DEF Covered, Kept
  <1>2. Inv => AckedSurvives
    BY <1>1, InvSurvives DEF Inv, AckedSurvives
  <1>3. QED
    BY InvHolds, <1>2, PTL

\* What Get and its like read from DB.colls of an open database is the last
\* acknowledged state or a newer one; without power losses wherever the
\* collections are.
THEOREM ReadsCurrentHolds ==
  ASSUME Covered \/ MaxLosses = 0
  PROVE  Spec => []ReadsCurrent
  <1>1. Seen = Colls
    BY DEF Covered, Kept, Seen
  <1>2. Inv => ReadsCurrent
    BY <1>1, InvReads DEF Inv, ReadsCurrent
  <1>3. QED
    BY InvHolds, <1>2, PTL

\* What the last round of run leaves when it ends without an error.
Closes == mode = "last" /\ mode' = "down" /\ pc # "failed" /\ used' = used

Left(S) ==
  /\ wal'.recs = << >> /\ pending = << >>
  /\ \A c \in Colls : file'[c] = colls[c]
  /\ \A c \in S : Survives(c)' = {colls[c]}

\* A clean last round leaves all in the files, durably where they are kept.
LEMMA CloseLeft ==
  ASSUME Inv, [Next]_vars, Closes
  PROVE  Left(Kept)
  <1> USE DEF Closes
  <1>1. Shape /\ SubInv /\ DirInv /\ SnapInv /\ CleanInv
    BY DEF Inv
  <1>2. SnapshotNothing \/ TruncateSync
    <2>1. used \in [kill : 0..MaxKills, loss : 0..MaxLosses, fail : 0..MaxFails]
      BY <1>1 DEF Shape, TypeOK
    <2>2. ~Fail /\ ~Kill /\ ~PowerLoss
      BY <2>1 DEF Fail, Kill, PowerLoss
    <2>3. pc \notin {"openlog", "load", "replay", "trim", "trimsync"}
      BY <1>1 DEF Shape, ControlInv
    <2>4. mode' # mode
      OBVIOUS
    <2>5. ~OpenStep
      BY <2>3 DEF OpenStep, OpenLog, Load, Replay, ReplayEnd, Trim, TrimSync
    <2>6. QED
      BY <2>2, <2>4, <2>5 DEF Next, Open, Change, WriteLog, SyncLog, Tick, SnapshotStep,
         Capture, Mkdir, Rename, Remove, RemoveNothing, MkdirSync, DirSync, FilesDone,
         TruncateLog, Close, Stop, CloseFailed, vars
  <1>3. /\ pc \in {"snap", "truncsync"} /\ mode = "last" /\ dirty = {} /\ pending = << >>
        /\ wal'.recs = << >> /\ UNCHANGED <<file, disk, sub>>
    <2>1. CASE SnapshotNothing
      <3>1. Len(wal.recs) = 0
        BY <1>1, <2>1 DEF SnapshotNothing, Shape, SizeInv, Counted
      <3>2. wal.recs \in Seq(0..MaxOps)
        BY <1>1 DEF Shape, TypeOK, Logs
      <3>3. wal.recs = << >>
        BY <3>1, <3>2, EmptySeq
      <3>4. QED
        BY <1>1, <2>1, <3>3 DEF SnapshotNothing, Shape, QueueInv, Snapshotting, fileVars,
           walVars
    <2>2. CASE TruncateSync
      BY <1>1, <2>2, EmptyLog DEF TruncateSync, Shape, QueueInv, LogInv, Snapshotting,
         fileVars
    <2>3. QED
      BY <1>2, <2>1, <2>2
  <1>4. ASSUME NEW c \in Colls PROVE file[c] = colls[c] /\ (c \in Kept => disk[c] = {file[c]})
    <2>1. DOMAIN snaps = {}
      BY <1>1, <1>3 DEF SnapInv, Writing
    <2>2. QED
      BY <1>1, <1>3, <2>1 DEF CleanInv, DirInv
  <1>5. ASSUME NEW c \in Kept PROVE Survives(c)' = {colls[c]}
    <2>0. c \in Colls
      BY KeptSeen
    <2>1. Survives(c) = disk[c]
      BY <1>1, SurvivesIs
    <2>2. Survives(c)' = Survives(c)
      BY <1>3 DEF Survives
    <2>3. QED
      BY <1>4, <2>0, <2>1, <2>2
  <1>6. QED
    BY <1>3, <1>4, <1>5 DEF Left

\* A Close whose last round writes without an error leaves an empty log and
\* queue, and the files hold durably what memory held.
THEOREM CloseLeavesFilesHolds ==
  ASSUME Covered
  PROVE  Spec => CloseLeavesFiles
  <1>1. Kept = Colls
    BY DEF Covered, Kept
  <1>2. Inv /\ [Next]_vars => [Closes => Left(Colls)]_vars
    BY <1>1, CloseLeft
  <1>3. [Closes => Left(Colls)]_vars =>
          [(mode = "last" /\ mode' = "down" /\ pc # "failed" /\ used' = used) =>
             /\ wal'.recs = << >> /\ pending = << >>
             /\ \A c \in Colls : file'[c] = colls[c] /\ Survives(c)' = {colls[c]}]_vars
    BY DEF Closes, Left
  <1>4. QED
    BY InvHolds, <1>2, <1>3, PTL DEF Spec, CloseLeavesFiles

\* Whatever the constants: the log is empty, the files of all collections hold
\* what memory held, and those in the database directory do so durably.
RootClosed == [][Closes => Left(Colls \ Nested)]_vars

\* A Close whose last round writes without an error does so whatever was killed
\* or failed before and wherever the collections are.
THEOREM RootClosedHolds == Spec => RootClosed
  <1>1. Inv /\ [Next]_vars => [Closes => Left(Colls \ Nested)]_vars
    BY CloseLeft, KeptSeen DEF Left
  <1>2. QED
    BY InvHolds, <1>1, PTL DEF Spec, RootClosed
=============================================================================

------------------------------- MODULE Storage -------------------------------
(***************************************************************************)
(* MeDB's files through crashes and restarts: Open (openLog, load,         *)
(* replayLog, writeSnapshot), the log and the snapshot files written by    *)
(* DB.run, and Close.                                                      *)
(*                                                                         *)
(* Every file has the content a running kernel shows (file, wal) and the   *)
(* set of contents a power loss may leave (disk, walDisk); an fsync        *)
(* shrinks that set to what is shown.  Killing the process keeps the       *)
(* former, a power loss picks from the latter.                             *)
(*                                                                         *)
(* Operations are numbered in the order in which mu admits them.  A log    *)
(* record is the number of its operation, a document the number of the Set *)
(* or Update that stored it.  How callers share a log write is the subject *)
(* of module GroupCommit; here a batch is whatever is pending.             *)
(*                                                                         *)
(* Assumed of the platform: a torn append leaves whole records followed by *)
(* part of one; rename and unlink are atomic; a failed fsync leaves        *)
(* whatever was possible before it.  The database directory itself exists  *)
(* durably and no other process has it open (the lock).                    *)
(***************************************************************************)
EXTENDS Integers, Sequences

CONSTANTS
  Colls,      \* collection names
  Nested,     \* those whose file is in a subdirectory, like "prod/users"
  Ids,        \* document ids
  Nil,        \* no collection, no file
  MaxOps,     \* bound: operations in a behaviour
  MaxKills,   \* bound: times the process is killed
  MaxLosses,  \* bound: power losses
  MaxFails    \* bound: system calls that fail

ASSUME StorageAssumption ==
  /\ Nested \subseteq Colls
  /\ MaxOps \in Nat /\ MaxKills \in Nat /\ MaxLosses \in Nat /\ MaxFails \in Nat
  /\ Nil \notin [Ids -> 0..MaxOps]
  /\ Nil \notin Colls \cup Ids

Docs == [Ids -> 0..MaxOps]          \* a collection; 0: no such document
Contents == Docs \cup {Nil}
Corrupt == 0                        \* a log line that does not parse
Logs == [recs : Seq(0..MaxOps), torn : BOOLEAN]
NoLog == [recs |-> << >>, torn |-> FALSE]
Empty == [i \in Ids |-> 0]

Ops == [op : {"set", "del"}, coll : Colls, id : Ids]
       \cup [op : {"drop"}, coll : Colls]

VARIABLES
  hist,      \* every operation so far
  acked,     \* the ones whose caller was told they succeeded
  mode,      \* "down", "opening", "running", "closing" once Close was called,
             \* "last" in run's last round
  pc,        \* control state of Open, then of DB.run
  colls,     \* DB.colls
  dirty,     \* DB.dirty
  pending,   \* DB.pending
  batch,     \* writeLog's batch while it is being written
  snaps,     \* writeSnapshot's files still to write (Docs) or remove (Nil)
  name,      \* the collection whose file is being handled, Nil for none
  pos,       \* replayLog's position
  size,      \* DB.size, in records
  file,      \* file[c]: the snapshot file as the running system shows it
  disk,      \* disk[c]: what a power loss may leave of its directory entry
  sub,       \* the subdirectory: "none", "cached" or "durable"
  wal,       \* wal.log as the running system shows it
  walDisk,   \* what a power loss may leave of it
  walEntry,  \* the directory entry of wal.log is durable
  used       \* kills, losses and failures so far

memVars  == <<colls, dirty, pending, batch, snaps, name, pos>>
fileVars == <<file, disk, sub>>
walVars  == <<wal, walDisk, walEntry>>
vars == <<hist, acked, mode, pc, memVars, size, fileVars, walVars, used>>

TypeOK ==
  /\ hist \in Seq(Ops) /\ Len(hist) <= MaxOps
  /\ acked \subseteq 1..Len(hist)
  /\ mode \in {"down", "opening", "running", "closing", "last"}
  /\ pc \in {"down", "openlog", "load", "replay", "trim", "trimsync", "idle",
             "sync", "snap", "files", "mksync", "dirsync", "truncate",
             "truncsync", "failed"}
  /\ colls \in [Colls -> Contents]
  /\ dirty \subseteq Colls
  /\ pending \in Seq(1..Len(hist)) /\ batch \in Seq(1..Len(hist))
  /\ \E S \in SUBSET Colls : snaps \in [S -> Contents]
  /\ name \in Colls \cup {Nil}
  /\ pos \in 0..Len(wal.recs) /\ size \in Nat
  /\ file \in [Colls -> Contents]
  /\ disk \in [Colls -> SUBSET Contents]
  /\ sub \in {"none", "cached", "durable"}
  /\ wal \in Logs /\ walDisk \subseteq Logs
  /\ walEntry \in BOOLEAN
  /\ used \in [kill : 0..MaxKills, loss : 0..MaxLosses, fail : 0..MaxFails]

NoMemory ==
  /\ colls' = [c \in Colls |-> Nil] /\ dirty' = {}
  /\ pending' = << >> /\ batch' = << >>
  /\ snaps' = << >> /\ name' = Nil /\ pos' = 0 /\ size' = 0

\* An empty directory.
Init ==
  /\ hist = << >> /\ acked = {} /\ mode = "down" /\ pc = "down"
  /\ colls = [c \in Colls |-> Nil] /\ dirty = {}
  /\ pending = << >> /\ batch = << >>
  /\ snaps = << >> /\ name = Nil /\ pos = 0 /\ size = 0
  /\ file = [c \in Colls |-> Nil] /\ disk = [c \in Colls |-> {Nil}]
  /\ sub = "none"
  /\ wal = NoLog /\ walDisk = {NoLog} /\ walEntry = FALSE
  /\ used = [kill |-> 0, loss |-> 0, fail |-> 0]

-----------------------------------------------------------------------------
(* DB.apply: what operation n, which is o, makes of the maps. *)

Applied(n, o) ==
  CASE o.op = "set" ->
         [colls EXCEPT ![o.coll] =
            [(IF @ = Nil THEN Empty ELSE @) EXCEPT ![o.id] = n]]
    [] o.op = "del" ->
         [colls EXCEPT ![o.coll] =
            IF @ = Nil THEN Nil ELSE [@ EXCEPT ![o.id] = 0]]
    [] o.op = "drop" -> [colls EXCEPT ![o.coll] = Nil]

\* A delete or a drop that finds nothing leaves DB.dirty alone.
apply(n, o) ==
  /\ colls' = Applied(n, o)
  /\ dirty' = IF o.op = "set" \/ Applied(n, o) # colls
                THEN dirty \cup {o.coll} ELSE dirty

\* fsync of a directory: its entries are durable as shown.  The root also
\* holds wal.log and the subdirectory.
SyncDir(nested) ==
  /\ disk' = [c \in Colls |->
                IF (c \in Nested) = nested THEN {file[c]} ELSE disk[c]]
  /\ walEntry' = (walEntry \/ ~nested)
  /\ sub' = IF ~nested /\ sub = "cached" THEN "durable" ELSE sub

\* A system call fails.  Open gives up and releases the lock; run keeps the
\* error until Close and fails what is and what will be pending.
Fail ==
  /\ used.fail < MaxFails
  /\ used' = [used EXCEPT !.fail = @ + 1]
  /\ IF mode = "opening"
       THEN mode' = "down" /\ pc' = "down" /\ NoMemory
       ELSE /\ pc' = "failed" /\ pending' = << >> /\ batch' = << >>
            /\ snaps' = << >> /\ name' = Nil
            /\ UNCHANGED <<mode, colls, dirty, pos, size>>

-----------------------------------------------------------------------------
(* Open *)

Open ==
  /\ mode = "down"
  /\ mode' = "opening" /\ pc' = "openlog"
  /\ UNCHANGED <<hist, acked, memVars, size, fileVars, walVars, used>>

\* openLog without the sync of the directory.
OpenLogNoSync ==
  /\ pc = "openlog"
  /\ pc' = "load"
  /\ UNCHANGED <<hist, acked, mode, memVars, size, fileVars, walVars, used>>

\* openLog creates wal.log if need be and syncs the directory.
OpenLog ==
  /\ pc = "openlog"
  /\ \/ /\ SyncDir(FALSE)
        /\ pc' = "load"
        /\ UNCHANGED <<mode, memVars, size, used>>
     \/ Fail /\ UNCHANGED <<disk, walEntry, sub>>
  /\ UNCHANGED <<hist, acked, file, wal, walDisk>>

\* load reads every snapshot file.
Load ==
  /\ pc = "load"
  /\ \/ /\ colls' = file
        /\ pc' = "replay"
        /\ UNCHANGED <<mode, dirty, pending, batch, snaps, name, pos, size, used>>
     \/ Fail
  /\ UNCHANGED <<hist, acked, fileVars, walVars>>

\* A round that skips a record.
ReplaySkips ==
  /\ pc = "replay" /\ pos < Len(wal.recs)
  /\ apply(wal.recs[pos + 1], hist[wal.recs[pos + 1]])
  /\ pos' = pos + 2
  /\ UNCHANGED <<hist, acked, mode, pc, pending, batch, snaps, name, size,
                 fileVars, walVars, used>>

\* One round of replayLog's loop.  At a line that does not parse Open returns
\* an error.
Replay ==
  /\ pc = "replay" /\ pos < Len(wal.recs)
  /\ LET n == wal.recs[pos + 1] IN
       IF n = Corrupt
         THEN mode' = "down" /\ pc' = "down" /\ NoMemory
         ELSE /\ apply(n, hist[n])
              /\ pos' = pos + 1
              /\ UNCHANGED <<mode, pc, pending, batch, snaps, name, size>>
  /\ UNCHANGED <<hist, acked, fileVars, walVars, used>>

\* Leaving the torn tail in the log.
ReplayEndKeepsTail ==
  /\ pc = "replay" /\ pos = Len(wal.recs)
  /\ pc' = "snap" /\ size' = pos
  /\ UNCHANGED <<hist, acked, mode, memVars, fileVars, walVars, used>>

\* Not storing in DB.size how much was replayed.
ReplayEndForgetsSize ==
  /\ pc = "replay" /\ pos = Len(wal.recs)
  /\ pc' = IF wal.torn THEN "trim" ELSE "snap"
  /\ UNCHANGED <<hist, acked, mode, memVars, size, fileVars, walVars, used>>

\* The end of the loop; without a torn tail replayLog stores DB.size.
ReplayEnd ==
  /\ pc = "replay" /\ pos = Len(wal.recs)
  /\ \/ wal.torn /\ pc' = "trim" /\ UNCHANGED size
     \/ ~wal.torn /\ pc' = "snap" /\ size' = pos
  /\ UNCHANGED <<hist, acked, mode, memVars, fileVars, walVars, used>>

\* Truncate the torn tail away.
Trim ==
  /\ pc = "trim"
  /\ \/ /\ wal' = [wal EXCEPT !.torn = FALSE]
        /\ walDisk' = walDisk \cup {wal'}
        /\ pc' = "trimsync"
        /\ UNCHANGED <<mode, memVars, size, used>>
     \/ Fail /\ UNCHANGED <<wal, walDisk>>
  /\ UNCHANGED <<hist, acked, fileVars, walEntry>>

\* fsync, then replayLog stores DB.size.
TrimSync ==
  /\ pc = "trimsync"
  /\ \/ /\ walDisk' = {wal}
        /\ size' = pos
        /\ pc' = "snap"
        /\ UNCHANGED <<mode, memVars, used>>
     \/ Fail /\ UNCHANGED walDisk
  /\ UNCHANGED <<hist, acked, fileVars, wal, walEntry>>

-----------------------------------------------------------------------------
(* Operations of the callers, and the log. *)

\* DB.write: apply and enqueue under mu.
Change(o) ==
  /\ mode = "running" /\ Len(hist) < MaxOps
  /\ hist' = Append(hist, o)
  /\ apply(Len(hist'), o)
  /\ pending' = IF pc = "failed" THEN pending ELSE Append(pending, Len(hist'))
  /\ UNCHANGED <<acked, mode, pc, batch, snaps, name, pos, size, fileVars,
                 walVars, used>>

\* What wal.log shows after the first k records of the batch, and part of the
\* next one if t, were appended to it.  A record appended to a torn tail does
\* not parse.
Appended(k, t) ==
  LET b == SubSeq(pending, 1, k) IN
  [recs |-> wal.recs \o (IF wal.torn /\ k > 0 THEN <<Corrupt>> \o Tail(b) ELSE b),
   torn |-> t \/ (wal.torn /\ k = 0)]

\* What a Write of the batch may have appended when it did not end.
Parts == {Appended(k, t) : k \in 0..Len(pending)-1, t \in BOOLEAN}

\* One Write of the whole batch, or a part of it and an error.  Until the
\* fsync a power loss may leave any part.
WriteLog ==
  /\ pc = "idle" /\ pending # << >>
  /\ \/ /\ wal' = Appended(Len(pending), FALSE)
        /\ walDisk' = walDisk \cup Parts \cup {wal'}
        /\ batch' = pending /\ pending' = << >>
        /\ pc' = "sync"
        /\ UNCHANGED <<mode, colls, dirty, snaps, name, pos, size, used>>
     \/ /\ Fail
        /\ wal' \in Parts
        /\ walDisk' = walDisk \cup Parts
  /\ UNCHANGED <<hist, acked, fileVars, walEntry>>

\* fsync, count the batch in DB.size, then close commit.done: the callers'
\* operations succeed.
SyncLog ==
  /\ pc = "sync"
  /\ \/ /\ walDisk' = {wal}
        /\ size' = size + Len(batch)
        /\ acked' = acked \cup {batch[i] : i \in 1..Len(batch)}
        /\ batch' = << >>
        /\ pc' = "idle"
        /\ UNCHANGED <<mode, colls, dirty, pending, snaps, name, pos, used>>
     \/ Fail /\ UNCHANGED <<acked, walDisk>>
  /\ UNCHANGED <<hist, fileVars, wal, walEntry>>

-----------------------------------------------------------------------------
(* writeSnapshot: by Open, by run at a tick or the flush threshold, or by the
   last round of run. *)

\* Where writeSnapshot returns to, DB.size apart.
AfterSnapshot ==
  /\ pc' = IF mode = "last" THEN "down" ELSE "idle"
  /\ mode' = CASE mode = "opening" -> "running"
               [] mode = "last" -> "down"
               [] OTHER -> mode
  /\ IF mode = "last" THEN NoMemory ELSE UNCHANGED memVars

\* run calls writeSnapshot; in its last round the queue has been drained.
Tick ==
  /\ pc = "idle"
  /\ mode = "last" => pending = << >>
  /\ pc' = "snap"
  /\ UNCHANGED <<hist, acked, mode, memVars, size, fileVars, walVars, used>>

\* Nothing dirty and, by DB.size, an empty log.
SnapshotNothing ==
  /\ pc = "snap" /\ dirty = {} /\ size = 0
  /\ AfterSnapshot
  /\ UNCHANGED size
  /\ UNCHANGED <<hist, acked, fileVars, walVars, used>>

\* Forgetting the collections that were dropped.
CaptureKeepsDropped ==
  /\ pc = "snap" /\ (dirty # {} \/ size # 0)
  /\ snaps' = [c \in {d \in dirty : colls[d] # Nil} |-> colls[c]]
  /\ dirty' = {}
  /\ pc' = "files"
  /\ UNCHANGED <<hist, acked, mode, colls, pending, batch, name, pos, size,
                 fileVars, walVars, used>>

\* Under mu: swap the dirty set out and marshal its collections.
Capture ==
  /\ pc = "snap" /\ (dirty # {} \/ size # 0)
  /\ snaps' = [c \in dirty |-> colls[c]]
  /\ dirty' = {}
  /\ pc' = "files"
  /\ UNCHANGED <<hist, acked, mode, colls, pending, batch, name, pos, size,
                 fileVars, walVars, used>>

\* The first loop takes the files to write in any order, the second the ones
\* to remove.
Handles(c) ==
  /\ pc = "files" /\ c \in DOMAIN snaps
  /\ name \in {c, Nil}
  /\ snaps[c] = Nil => \A d \in DOMAIN snaps : snaps[d] = Nil

\* MkdirAll of the file's directory: create it, then sync the root.
Mkdir(c) ==
  /\ Handles(c) /\ snaps[c] # Nil /\ c \in Nested /\ sub = "none"
  /\ \/ /\ sub' = "cached"
        /\ name' = c
        /\ pc' = "mksync"
        /\ UNCHANGED <<mode, colls, dirty, pending, batch, snaps, pos, size, used>>
     \/ Fail /\ UNCHANGED sub
  /\ UNCHANGED <<hist, acked, file, disk, walVars>>

MkdirSync ==
  /\ pc = "mksync"
  /\ \/ /\ SyncDir(FALSE)
        /\ pc' = "files"
        /\ UNCHANGED <<mode, memVars, size, used>>
     \/ Fail /\ UNCHANGED <<disk, walEntry, sub>>
  /\ UNCHANGED <<hist, acked, file, wal, walDisk>>

\* WriteFileAtomic up to the rename: the data is durable before the name is.
Rename(c) ==
  /\ Handles(c) /\ snaps[c] # Nil /\ (c \in Nested => sub # "none")
  /\ \/ /\ file' = [file EXCEPT ![c] = snaps[c]]
        /\ disk' = [disk EXCEPT ![c] = @ \cup {snaps[c]}]
        /\ name' = c
        /\ pc' = "dirsync"
        /\ UNCHANGED <<mode, colls, dirty, pending, batch, snaps, pos, size, used>>
     \/ Fail /\ UNCHANGED <<file, disk>>
  /\ UNCHANGED <<hist, acked, sub, walVars>>

\* removeColl: os.Remove.
Remove(c) ==
  /\ Handles(c) /\ snaps[c] = Nil /\ file[c] # Nil
  /\ \/ /\ file' = [file EXCEPT ![c] = Nil]
        /\ disk' = [disk EXCEPT ![c] = @ \cup {Nil}]
        /\ name' = c
        /\ pc' = "dirsync"
        /\ UNCHANGED <<mode, colls, dirty, pending, batch, snaps, pos, size, used>>
     \/ Fail /\ UNCHANGED <<file, disk>>
  /\ UNCHANGED <<hist, acked, sub, walVars>>

\* removeColl of a collection without a file.
RemoveNothing(c) ==
  /\ Handles(c) /\ snaps[c] = Nil /\ file[c] = Nil
  /\ snaps' = [d \in DOMAIN snaps \ {c} |-> snaps[d]]
  /\ UNCHANGED <<hist, acked, mode, pc, colls, dirty, pending, batch, name, pos,
                 size, fileVars, walVars, used>>

\* Syncing the database directory instead of the file's own.
DirSyncRoot ==
  /\ pc = "dirsync"
  /\ SyncDir(FALSE)
  /\ snaps' = [d \in DOMAIN snaps \ {name} |-> snaps[d]]
  /\ name' = Nil
  /\ pc' = "files"
  /\ UNCHANGED <<hist, acked, mode, colls, dirty, pending, batch, pos, size,
                 used, file, wal, walDisk>>

\* SyncDir after the rename or the removal.
DirSync ==
  /\ pc = "dirsync"
  /\ \/ /\ SyncDir(name \in Nested)
        /\ snaps' = [d \in DOMAIN snaps \ {name} |-> snaps[d]]
        /\ name' = Nil
        /\ pc' = "files"
        /\ UNCHANGED <<mode, colls, dirty, pending, batch, pos, size, used>>
     \/ Fail /\ UNCHANGED <<disk, walEntry, sub>>
  /\ UNCHANGED <<hist, acked, file, wal, walDisk>>

FilesDone ==
  /\ pc = "files" /\ DOMAIN snaps = {}
  /\ pc' = "truncate"
  /\ UNCHANGED <<hist, acked, mode, memVars, size, fileVars, walVars, used>>

\* Truncate(0).
TruncateLog ==
  /\ pc = "truncate"
  /\ \/ /\ wal' = NoLog
        /\ walDisk' = walDisk \cup {NoLog}
        /\ pos' = 0
        /\ pc' = "truncsync"
        /\ UNCHANGED <<mode, colls, dirty, pending, batch, snaps, name, size,
                       used>>
     \/ Fail /\ UNCHANGED <<wal, walDisk>>
  /\ UNCHANGED <<hist, acked, fileVars, walEntry>>

\* fsync, then DB.size is 0.
TruncateSync ==
  /\ pc = "truncsync"
  /\ \/ /\ walDisk' = {wal}
        /\ AfterSnapshot
        /\ size' = 0
        /\ UNCHANGED used
     \/ Fail /\ UNCHANGED walDisk
  /\ UNCHANGED <<hist, acked, fileVars, wal, walEntry>>

-----------------------------------------------------------------------------
(* Close, kill and power loss. *)

Close ==
  /\ mode = "running"
  /\ mode' = "closing"
  /\ UNCHANGED <<hist, acked, pc, memVars, size, fileVars, walVars, used>>

\* run receives from DB.stop: its last round begins.
Stop ==
  /\ mode = "closing" /\ pc = "idle"
  /\ mode' = "last"
  /\ UNCHANGED <<hist, acked, pc, memVars, size, fileVars, walVars, used>>

\* The last round of run with an error of an earlier one: nothing is written.
CloseFailed ==
  /\ mode \in {"closing", "last"} /\ pc = "failed"
  /\ mode' = "down" /\ pc' = "down" /\ NoMemory
  /\ UNCHANGED <<hist, acked, fileVars, walVars, used>>

\* The process dies; the kernel keeps what it was given.
Kill ==
  /\ mode # "down" /\ used.kill < MaxKills
  /\ used' = [used EXCEPT !.kill = @ + 1]
  /\ mode' = "down" /\ pc' = "down" /\ NoMemory
  /\ UNCHANGED <<hist, acked, fileVars, walVars>>

\* What a power loss may leave of a snapshot file and of the log.
Survives(c) ==
  disk[c] \cup (IF c \in Nested /\ sub # "durable" THEN {Nil} ELSE {})

WalSurvives == IF walEntry THEN walDisk ELSE walDisk \cup {NoLog}

PowerLoss ==
  /\ used.loss < MaxLosses
  /\ used' = [used EXCEPT !.loss = @ + 1]
  /\ \E lost \in {TRUE, FALSE} :
       /\ lost => sub = "cached"
       /\ sub' = CASE lost -> "none" [] sub = "cached" /\ ~lost -> "durable"
                   [] OTHER -> sub
       /\ file' \in [Colls -> Contents]
       /\ \A c \in Colls : IF lost /\ c \in Nested THEN file'[c] = Nil
                                                   ELSE file'[c] \in disk[c]
  /\ disk' = [c \in Colls |-> {file'[c]}]
  /\ wal' \in WalSurvives
  /\ walDisk' = {wal'}
  /\ mode' = "down" /\ pc' = "down" /\ NoMemory
  /\ UNCHANGED <<hist, acked, walEntry>>

-----------------------------------------------------------------------------
OpenStep ==
  OpenLog \/ Load \/ Replay \/ ReplayEnd \/ Trim \/ TrimSync

SnapshotStep ==
  \/ SnapshotNothing \/ Capture
  \/ \E c \in Colls : Mkdir(c) \/ Rename(c) \/ Remove(c) \/ RemoveNothing(c)
  \/ MkdirSync \/ DirSync \/ FilesDone \/ TruncateLog \/ TruncateSync

Next ==
  \/ Open \/ OpenStep
  \/ \E o \in Ops : Change(o)
  \/ WriteLog \/ SyncLog
  \/ Tick \/ SnapshotStep
  \/ Close \/ Stop \/ CloseFailed
  \/ Kill \/ PowerLoss

Spec == Init /\ [][Next]_vars

-----------------------------------------------------------------------------
(* Properties *)

\* Operation n concerns document id of collection c, and leaves it at After(n).
Affects(n, c, id) ==
  /\ n # Corrupt /\ hist[n].coll = c
  /\ hist[n].op = "drop" \/ hist[n].id = id

After(n) == IF hist[n].op = "set" THEN n ELSE 0

\* Operation n decides whether collection c exists.
Founds(n, c) == n # Corrupt /\ hist[n].coll = c /\ hist[n].op # "del"

\* The last record of log w that satisfies the test, 0 if there is none.
LastRec(w, Test(_)) ==
  LET hits == {i \in 1..Len(w.recs) : Test(w.recs[i])} IN
  IF hits = {} THEN 0
  ELSE w.recs[CHOOSE i \in hits : \A j \in hits : j <= i]

\* What Open makes of file content f and log w: the log's last word on a
\* document or a collection, else the file's.
RecoveredDoc(c, id, f, w) ==
  LET n == LastRec(w, LAMBDA m : Affects(m, c, id)) IN
  IF n # 0 THEN After(n) ELSE IF f = Nil THEN 0 ELSE f[id]

RecoveredColl(c, f, w) ==
  LET n == LastRec(w, LAMBDA m : Founds(m, c)) IN
  IF n # 0 THEN hist[n].op = "set" ELSE f # Nil

\* A value is legal when it is what some operation left there, or nothing if
\* none did, and no later operation on it was acknowledged.
LegalDoc(c, id, v) ==
  \E n \in 0..Len(hist) :
    /\ IF n = 0 THEN v = 0 ELSE Affects(n, c, id) /\ v = After(n)
    /\ \A m \in acked : m > n => ~Affects(m, c, id)

LegalColl(c, exists) ==
  \E n \in 0..Len(hist) :
    /\ IF n = 0 THEN ~exists
       ELSE Founds(n, c) /\ exists = (hist[n].op = "set")
    /\ \A m \in acked : m > n => ~Founds(m, c)

\* File f and log w together recover, for every document of collection c and
\* for c itself, the last acknowledged operation on it or a later one.
Recovers(c, f, w) ==
  /\ LegalColl(c, RecoveredColl(c, f, w))
  /\ \A id \in Ids : LegalDoc(c, id, RecoveredDoc(c, id, f, w))

\* So does memory.
Current(c) ==
  /\ LegalColl(c, colls[c] # Nil)
  /\ \A id \in Ids : LegalDoc(c, id, IF colls[c] = Nil THEN 0 ELSE colls[c][id])

\* "A successful return means the change is durable" (Set, Delete, Update,
\* Drop): whatever a kill or a power loss at this moment leaves, Open recovers
\* for every document and collection the effect of the last acknowledged
\* operation on it or of a later one.
AckedSurvives ==
  \A c \in Colls : \A f \in Survives(c), w \in WalSurvives : Recovers(c, f, w)

\* What readers of an open database see is legal as well: replay and later
\* operations leave in memory the last acknowledged state or a newer one.
ReadsCurrent ==
  mode \in {"running", "closing", "last"} => \A c \in Colls : Current(c)

\* No crash makes the database unreadable: every log line that may survive
\* parses, because an earlier torn tail is gone before anything is appended.
Parses ==
  \A w \in WalSurvives \cup {wal} : \A i \in 1..Len(w.recs) : w.recs[i] # Corrupt

\* A clean Close leaves all data in the snapshot files: when run's last round
\* ends without an error, log and queue are empty and the files hold, durably,
\* what memory held.
CloseLeavesFiles ==
  [][(mode = "last" /\ mode' = "down" /\ pc # "failed" /\ used' = used) =>
       /\ wal'.recs = << >> /\ pending = << >>
       /\ \A c \in Colls : file'[c] = colls[c] /\ Survives(c)' = {colls[c]}]_vars
=============================================================================

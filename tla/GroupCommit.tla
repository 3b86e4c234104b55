----------------------------- MODULE GroupCommit -----------------------------
(***************************************************************************)
(* The write path of an open MeDB database: DB.write and                   *)
(* Collection.update on the caller's goroutine, DB.enqueue and the commit  *)
(* object they wait on, the background goroutine DB.run with writeLog and  *)
(* writeSnapshot, and DB.Close.                                            *)
(*                                                                         *)
(* A record is the number of its application to memory: record n is the    *)
(* n-th one DB.apply has applied, so the log has the right order exactly   *)
(* when its numbers ascend.  A commit object is named after the record     *)
(* that allocated it.  Snapshot files are abstracted to the highest record *)
(* they cover; module Storage models them file by file, with crashes.      *)
(***************************************************************************)
EXTENDS Integers, Sequences

CONSTANTS
  Writers,    \* goroutines that call Set, Update, Delete or Drop
  MaxRecs,    \* bound: records written in a behaviour
  FlushRecs   \* options.flushBytes, in records

ASSUME ConstantsAssumption ==
  /\ MaxRecs \in Nat
  /\ FlushRecs \in Nat \ {0}
  /\ Writers \cap {"free"} = {}

Recs == 1..MaxRecs
Free == "free"
NoCommit == 0

VARIABLES
  mu,       \* DB.mu: Free, or the writer that holds it
  closed,   \* DB.closed
  applied,  \* number of records applied to DB.colls
  dirty,    \* DB.dirty is not empty
  queue,    \* the two record arrays DB.pending and DB.spare alternate between
  cur,      \* which of them is DB.pending
  commit,   \* DB.commit: the open commit object, or NoCommit
  ticket,   \* ticket[n]: the commit object that record n's writer waits on
  result,   \* result[c]: commit.done is open, or closed with err nil ("ok") or not
  notify,   \* DB.notify holds its one token
  stop,     \* DB.stop is closed
  wpc,      \* control state of each writer
  rec,      \* the record each writer is writing
  rpc,      \* control state of DB.run
  last,     \* DB.run has received from DB.stop: this is its last round
  taken,    \* the commit object writeLog has taken
  err,      \* DB.run's local err is not nil
  size,     \* DB.size, in records
  log,      \* records in wal.log
  synced,   \* how many of them fsync has made durable
  capture,  \* highest record in the maps writeSnapshot marshalled
  snap,     \* highest record covered by durable snapshot files
  cpc,      \* control state of the goroutine that calls Close
  closeErr  \* Close returned an error

muVars    == <<mu, closed, applied, dirty>>
queueVars == <<queue, cur, commit, ticket, notify>>
wVars     == <<wpc, rec>>
runVars   == <<rpc, last, taken, err, capture>>
diskVars  == <<size, log, synced, snap>>
closeVars == <<stop, cpc, closeErr>>
vars == <<muVars, queueVars, result, wVars, runVars, diskVars, closeVars>>

pending == queue[cur]
batch   == queue[1 - cur]

FlagsOK ==
  /\ closed \in BOOLEAN
  /\ dirty \in BOOLEAN
  /\ notify \in BOOLEAN
  /\ stop \in BOOLEAN
  /\ last \in BOOLEAN
  /\ err \in BOOLEAN
  /\ closeErr \in BOOLEAN

DataOK ==
  /\ mu \in Writers \cup {Free}
  /\ applied \in 0..MaxRecs
  /\ queue \in [{0, 1} -> Seq(Recs)]
  /\ cur \in {0, 1}
  /\ commit \in 0..MaxRecs
  /\ ticket \in [Recs -> 0..MaxRecs]
  /\ result \in [Recs -> {"open", "ok", "fail"}]
  /\ wpc \in [Writers -> {"idle", "enqueue", "signal", "unlock", "wait"}]
  /\ rec \in [Writers -> 0..MaxRecs]
  /\ rpc \in {"select", "take", "write", "sync", "ack",
              "snap", "files", "truncate", "truncsync", "done"}
  /\ taken \in 0..MaxRecs
  /\ size \in Nat
  /\ log \in Seq(Recs)
  /\ synced \in 0..Len(log)
  /\ capture \in 0..MaxRecs
  /\ snap \in 0..MaxRecs
  /\ cpc \in {"open", "stop", "wait", "closed"}

\* Where a writer is between mu.Lock and mu.Unlock.
Holding == {"enqueue", "signal", "unlock"}

LockOK == \A w \in Writers : (wpc[w] \in Holding) <=> (mu = w)

\* Every variable keeps its shape, and DB.mu is held by exactly the writer
\* between Lock and Unlock: no return of write leaves it locked.
TypeOK == FlagsOK /\ DataOK /\ LockOK

\* What Open hands over: wal.log empty, nothing dirty, DB.run started.
Init ==
  /\ mu = Free /\ closed = FALSE /\ applied = 0 /\ dirty = FALSE
  /\ queue = [q \in {0, 1} |-> << >>] /\ cur = 0
  /\ commit = NoCommit /\ ticket = [n \in Recs |-> NoCommit]
  /\ result = [c \in Recs |-> "open"]
  /\ notify = FALSE /\ stop = FALSE
  /\ wpc = [w \in Writers |-> "idle"] /\ rec = [w \in Writers |-> 0]
  /\ rpc = "select" /\ last = FALSE /\ taken = NoCommit /\ err = FALSE
  /\ size = 0 /\ log = << >> /\ synced = 0 /\ capture = 0 /\ snap = 0
  /\ cpc = "open" /\ closeErr = FALSE

-----------------------------------------------------------------------------
(* The caller's goroutine. *)

\* write returning ErrClosed without the Unlock.
RejectKeepsLock(w) ==
  /\ wpc[w] = "idle" /\ mu = Free /\ closed
  /\ mu' = w
  /\ rec' = [rec EXCEPT ![w] = 0]
  /\ UNCHANGED <<closed, applied, dirty, queueVars, result, wpc, runVars,
                 diskVars, closeVars>>

\* DB.write after Close: lock mu, see closed, unlock, return ErrClosed.
Reject(w) ==
  /\ wpc[w] = "idle" /\ mu = Free /\ closed
  /\ rec' = [rec EXCEPT ![w] = 0]
  /\ UNCHANGED <<muVars, queueVars, result, wpc, runVars, diskVars, closeVars>>

\* write without mu held around apply and enqueue together.
ApplyUnlocked(w) ==
  /\ wpc[w] = "idle" /\ mu = Free /\ ~closed /\ applied < MaxRecs
  /\ mu' = Free
  /\ applied' = applied + 1
  /\ \E d \in BOOLEAN : dirty' = (dirty \/ d)
  /\ rec' = [rec EXCEPT ![w] = applied + 1]
  /\ wpc' = [wpc EXCEPT ![w] = "enqueue"]
  /\ UNCHANGED <<closed, queueVars, result, runVars, diskVars, closeVars>>

\* Lock mu, check closed, apply the record.  A delete or a drop of something
\* that is not there is logged as well but leaves DB.dirty alone.
Apply(w) ==
  /\ wpc[w] = "idle" /\ mu = Free /\ ~closed /\ applied < MaxRecs
  /\ mu' = w
  /\ applied' = applied + 1
  /\ \E d \in BOOLEAN : dirty' = (dirty \/ d)
  /\ rec' = [rec EXCEPT ![w] = applied + 1]
  /\ wpc' = [wpc EXCEPT ![w] = "enqueue"]
  /\ UNCHANGED <<closed, queueVars, result, runVars, diskVars, closeVars>>

\* enqueue's critical section on logMu: join the open commit object, or
\* allocate one, and append the record.
Enqueue(w) ==
  LET c == IF commit = NoCommit THEN rec[w] ELSE commit IN
  /\ wpc[w] = "enqueue"
  /\ commit' = c
  /\ ticket' = [ticket EXCEPT ![rec[w]] = c]
  /\ queue' = [queue EXCEPT ![cur] = Append(@, rec[w])]
  /\ wpc' = [wpc EXCEPT ![w] = "signal"]
  /\ UNCHANGED <<muVars, cur, notify, result, rec, runVars, diskVars, closeVars>>

\* A notify channel without a buffer: the token is dropped unless run waits.
SignalUnbuffered(w) ==
  /\ wpc[w] = "signal"
  /\ notify' = (notify \/ rpc = "select")
  /\ wpc' = [wpc EXCEPT ![w] = "unlock"]
  /\ UNCHANGED <<muVars, queue, cur, commit, ticket, result, rec, runVars,
                 diskVars, closeVars>>

\* The non-blocking send on notify, a channel of capacity one.
Signal(w) ==
  /\ wpc[w] = "signal"
  /\ notify' = TRUE
  /\ wpc' = [wpc EXCEPT ![w] = "unlock"]
  /\ UNCHANGED <<muVars, queue, cur, commit, ticket, result, rec, runVars,
                 diskVars, closeVars>>

Unlock(w) ==
  /\ wpc[w] = "unlock"
  /\ mu' = Free
  /\ wpc' = [wpc EXCEPT ![w] = "wait"]
  /\ UNCHANGED <<closed, applied, dirty, queueVars, result, rec, runVars,
                 diskVars, closeVars>>

\* commit.wait returns commit.err once done is closed.
Return(w) ==
  /\ wpc[w] = "wait"
  /\ result[ticket[rec[w]]] # "open"
  /\ wpc' = [wpc EXCEPT ![w] = "idle"]
  /\ UNCHANGED <<muVars, queueVars, result, rec, runVars, diskVars, closeVars>>

-----------------------------------------------------------------------------
(* DB.run: the select statement. *)

RecvNotify ==
  /\ rpc = "select" /\ notify
  /\ notify' = FALSE
  /\ rpc' = "take"
  /\ UNCHANGED <<muVars, queue, cur, commit, ticket, result, wVars, last,
                 taken, err, capture, diskVars, closeVars>>

RecvTick ==
  /\ rpc = "select"
  /\ rpc' = "snap"
  /\ UNCHANGED <<muVars, queueVars, result, wVars, last, taken, err, capture,
                 diskVars, closeVars>>

\* The stop case falling back into the loop.
RecvStopNoReturn ==
  /\ rpc = "select" /\ stop
  /\ rpc' = "take"
  /\ UNCHANGED <<muVars, queueVars, result, wVars, last, taken, err, capture,
                 diskVars, closeVars>>

RecvStop ==
  /\ rpc = "select" /\ stop
  /\ last' = TRUE
  /\ rpc' = "take"
  /\ UNCHANGED <<muVars, queueVars, result, wVars, taken, err, capture,
                 diskVars, closeVars>>

\* run after writeLog returns, with DB.size at s: a snapshot on the last
\* round or at the flush threshold.
AfterLog(s) == IF last \/ s >= FlushRecs THEN "snap" ELSE "select"

\* run after writeSnapshot returns.
AfterSnapshot == IF last THEN "done" ELSE "select"

-----------------------------------------------------------------------------
(* writeLog *)

\* Taking the batch and leaving the commit object open to later writers.
TakeKeepsCommit ==
  /\ rpc = "take"
  /\ taken' = commit
  /\ cur' = 1 - cur
  /\ queue' = [queue EXCEPT ![1 - cur] = << >>]
  /\ rpc' = IF commit = NoCommit THEN AfterLog(size)
            ELSE IF err THEN "ack" ELSE "write"
  /\ UNCHANGED <<muVars, commit, ticket, notify, result, wVars, last, err,
                 capture, diskVars, closeVars>>

\* The critical section on logMu: take the queued records and the commit
\* object, and switch the arrays, emptying the spare one.  No commit object,
\* or an error of an earlier round: nothing is written.
Take ==
  /\ rpc = "take"
  /\ taken' = commit
  /\ commit' = NoCommit
  /\ cur' = 1 - cur
  /\ queue' = [queue EXCEPT ![1 - cur] = << >>]
  /\ rpc' = IF commit = NoCommit THEN AfterLog(size)
            ELSE IF err THEN "ack" ELSE "write"
  /\ UNCHANGED <<muVars, ticket, notify, result, wVars, last, err, capture,
                 diskVars, closeVars>>

\* One Write of the whole batch.  A failed Write may leave a prefix of it.
Write ==
  /\ rpc = "write"
  /\ \/ /\ log' = log \o batch
        /\ rpc' = "sync"
        /\ UNCHANGED err
     \/ /\ \E k \in 0..Len(batch) : log' = log \o SubSeq(batch, 1, k)
        /\ rpc' = "ack"
        /\ err' = TRUE
  /\ UNCHANGED <<muVars, queueVars, result, wVars, last, taken, capture,
                 size, synced, snap, closeVars>>

\* Acknowledging what Write has handed to the operating system.
SyncSkipped ==
  /\ rpc = "sync"
  /\ size' = size + Len(batch)
  /\ rpc' = "ack"
  /\ UNCHANGED <<muVars, queueVars, result, wVars, last, taken, err, capture,
                 log, synced, snap, closeVars>>

\* fsync of the whole log; only then does the batch count in DB.size.
Sync ==
  /\ rpc = "sync"
  /\ \/ /\ synced' = Len(log)
        /\ size' = size + Len(batch)
        /\ UNCHANGED err
     \/ /\ err' = TRUE
        /\ UNCHANGED <<synced, size>>
  /\ rpc' = "ack"
  /\ UNCHANGED <<muVars, queueVars, result, wVars, last, taken, capture, log,
                 snap, closeVars>>

\* run keeping no error from one round to the next.
AckForgetting ==
  /\ rpc = "ack"
  /\ result' = [result EXCEPT ![taken] = IF err THEN "fail" ELSE "ok"]
  /\ queue' = [queue EXCEPT ![1 - cur] = << >>]
  /\ rpc' = AfterLog(size)
  /\ err' = FALSE
  /\ UNCHANGED <<muVars, cur, commit, ticket, notify, wVars, last, taken,
                 capture, diskVars, closeVars>>

\* Set commit.err, close commit.done, clear the batch.
Ack ==
  /\ rpc = "ack"
  /\ result' = [result EXCEPT ![taken] = IF err THEN "fail" ELSE "ok"]
  /\ queue' = [queue EXCEPT ![1 - cur] = << >>]
  /\ rpc' = AfterLog(size)
  /\ UNCHANGED <<muVars, cur, commit, ticket, notify, wVars, last, taken, err,
                 capture, diskVars, closeVars>>

-----------------------------------------------------------------------------
(* writeSnapshot *)

\* Capturing at the flush threshold only: a clean Close leaves the log.
CaptureAtThreshold ==
  /\ rpc = "snap"
  /\ \/ /\ err \/ size < FlushRecs
        /\ rpc' = AfterSnapshot
        /\ UNCHANGED <<dirty, capture>>
     \/ /\ ~err /\ mu = Free /\ size >= FlushRecs
        /\ capture' = applied
        /\ dirty' = FALSE
        /\ rpc' = "files"
  /\ UNCHANGED <<mu, closed, applied, queueVars, result, wVars, last, taken,
                 err, diskVars, closeVars>>

\* Return at once on an earlier error; under mu, return if there is nothing to
\* do, else swap the dirty set out and marshal the dirty collections.
Capture ==
  /\ rpc = "snap"
  /\ \/ /\ err \/ (mu = Free /\ ~dirty /\ size = 0)
        /\ rpc' = AfterSnapshot
        /\ UNCHANGED <<dirty, capture>>
     \/ /\ ~err /\ mu = Free /\ (dirty \/ size # 0)
        /\ capture' = applied
        /\ dirty' = FALSE
        /\ rpc' = "files"
  /\ UNCHANGED <<mu, closed, applied, queueVars, result, wVars, last, taken,
                 err, diskVars, closeVars>>

\* A step of writeSnapshot fails: run keeps the error, the log stays as it is.
SnapshotFails ==
  /\ rpc \in {"files", "truncate", "truncsync"}
  /\ err' = TRUE
  /\ rpc' = AfterSnapshot
  /\ UNCHANGED <<muVars, queueVars, result, wVars, last, taken, capture,
                 diskVars, closeVars>>

\* Every captured collection file is written or removed, and durable.
WriteFiles ==
  /\ rpc = "files"
  /\ snap' = capture
  /\ rpc' = "truncate"
  /\ UNCHANGED <<muVars, queueVars, result, wVars, last, taken, err, capture,
                 size, log, synced, closeVars>>

\* The log counts as gone from here on, although until TruncateSync a power
\* loss may still bring it back.
Truncate ==
  /\ rpc = "truncate"
  /\ log' = << >>
  /\ synced' = 0
  /\ rpc' = "truncsync"
  /\ UNCHANGED <<muVars, queueVars, result, wVars, last, taken, err, capture,
                 size, snap, closeVars>>

TruncateSync ==
  /\ rpc = "truncsync"
  /\ size' = 0
  /\ rpc' = AfterSnapshot
  /\ UNCHANGED <<muVars, queueVars, result, wVars, last, taken, err, capture,
                 log, synced, snap, closeVars>>

-----------------------------------------------------------------------------
(* Close *)

\* Close setting closed without taking mu.
CloseLockRacy ==
  /\ cpc = "open"
  /\ closed' = TRUE
  /\ cpc' = "stop"
  /\ UNCHANGED <<mu, applied, dirty, queueVars, result, wVars, runVars,
                 diskVars, stop, closeErr>>

CloseLock ==
  /\ cpc = "open" /\ mu = Free
  /\ closed' = TRUE
  /\ cpc' = "stop"
  /\ UNCHANGED <<mu, applied, dirty, queueVars, result, wVars, runVars,
                 diskVars, stop, closeErr>>

CloseStop ==
  /\ cpc = "stop"
  /\ stop' = TRUE
  /\ cpc' = "wait"
  /\ UNCHANGED <<muVars, queueVars, result, wVars, runVars, diskVars, closeErr>>

\* done.Wait returns; report DB.failed, or an error closing the two files.
CloseFinish ==
  /\ cpc = "wait" /\ rpc = "done"
  /\ \E fileErr \in BOOLEAN : closeErr' = (err \/ fileErr)
  /\ cpc' = "closed"
  /\ UNCHANGED <<muVars, queueVars, result, wVars, runVars, diskVars, stop>>

-----------------------------------------------------------------------------
WriterStep(w) == Enqueue(w) \/ Signal(w) \/ Unlock(w) \/ Return(w)

LogStep == Take \/ Write \/ Sync \/ Ack

SnapshotStep == Capture \/ SnapshotFails \/ WriteFiles \/ Truncate \/ TruncateSync

Next ==
  \/ \E w \in Writers : Apply(w) \/ Reject(w) \/ WriterStep(w)
  \/ RecvNotify \/ RecvTick \/ RecvStop
  \/ LogStep
  \/ SnapshotStep
  \/ CloseLock \/ CloseStop \/ CloseFinish

Spec == Init /\ [][Next]_vars

\* The Go scheduler runs every goroutine that can run.  A select with several
\* ready cases picks one at random, and sync.RWMutex starves no waiter, so a
\* case or a lock that is available again and again is taken: strong fairness.
Fairness ==
  /\ \A w \in Writers : WF_vars(WriterStep(w))
  /\ SF_vars(RecvNotify) /\ SF_vars(RecvStop)
  /\ WF_vars(LogStep) /\ SF_vars(SnapshotStep)
  /\ WF_vars(CloseStop) /\ WF_vars(CloseFinish)

FairSpec == Spec /\ Fairness

-----------------------------------------------------------------------------
(* Properties *)

\* Record n survives a power loss: a durable snapshot covers it or the synced
\* part of the log holds it.
Durable(n) == n <= snap \/ \E i \in 1..synced : log[i] = n

\* A successful change is durable when the call returns: every record whose
\* commit object was closed without an error is durable, whatever snapshots
\* and truncations have happened since.
AckedDurable ==
  \A n \in Recs :
    (ticket[n] # NoCommit /\ result[ticket[n]] = "ok") => Durable(n)

\* The log replays in the order of application and without a gap behind the
\* snapshots: a durable record has every earlier record durable as well.
DurablePrefix ==
  /\ \A n \in Recs : Durable(n) => \A m \in 1..n : Durable(m)
  /\ \A i, j \in 1..Len(log) : i < j => log[i] < log[j]

\* No wakeup is lost: whenever records are queued, run has not ended, and it is
\* about to take them, its token is in the channel, or the writer that appended
\* has yet to send.
NoLostWakeup ==
  pending # << >> =>
    /\ rpc # "done"
    /\ \/ notify
       \/ rpc = "take"
       \/ \E w \in Writers : wpc[w] = "signal"

\* Nobody is forgotten: while a writer waits on an open commit object, run has
\* not ended, and the record is queued under that object or in the batch that
\* run is handling under it.
NoStrandedWriter ==
  \A w \in Writers :
    (wpc[w] = "wait" /\ result[ticket[rec[w]]] = "open") =>
      /\ rpc # "done"
      /\ \/ /\ commit = ticket[rec[w]]
            /\ \E j \in 1..Len(pending) : pending[j] = rec[w]
         \/ /\ taken = ticket[rec[w]] /\ rpc \in {"write", "sync", "ack"}
            /\ \E j \in 1..Len(batch) : batch[j] = rec[w]

\* Close that returns no error leaves everything in the snapshots and an empty
\* log, and no commit was ever reported failed.
CleanClose ==
  (cpc = "closed" /\ ~closeErr) =>
    /\ snap = applied /\ log = << >>
    /\ \A c \in Recs : result[c] # "fail"

\* Fail-stop: once a commit has failed, no later commit succeeds.
FailStop ==
  [][(\E c \in Recs : result[c] = "fail") =>
       \A c \in Recs : result[c] = "open" => result'[c] # "ok"]_vars

\* What a caller can observe, in terms of DurableWrites.  The log is ascending
\* (DurablePrefix), so its last synced record is the highest durable one.
DurableTop == IF synced > 0 /\ log[synced] > snap THEN log[synced] ELSE snap
Outcome == [w \in Writers |-> CASE wpc[w] # "idle" -> "wait"
                                [] rec[w] = 0 -> "none"
                                [] OTHER -> result[ticket[rec[w]]]]
Phase == CASE cpc = "open" -> "open"
           [] cpc \in {"stop", "wait"} -> "closing"
           [] OTHER -> IF closeErr THEN "error" ELSE "clean"
Promise == INSTANCE DurableWrites WITH
  durable <- DurableTop, failed <- err, change <- rec, outcome <- Outcome, phase <- Phase

\* The write path implements its promise: every step is a step of
\* DurableWrites or invisible to it.
KeepsPromise == Promise!Spec

\* Every Set, Update, Delete and Drop that got past the lock returns.
WriteReturns == \A w \in Writers : (wpc[w] # "idle") ~> (wpc[w] = "idle")

\* Close returns once it has marked the database closed.
CloseReturns == (cpc = "stop") ~> (cpc = "closed")
=============================================================================

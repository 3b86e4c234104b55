-------------------------- MODULE GroupCommitProofs --------------------------
(***************************************************************************)
(* Proofs about GroupCommit, for any number of writers and records.        *)
(*                                                                         *)
(* The argument follows a record through the write path.  Because mu is    *)
(* held from Apply to Unlock (MutexInv), records reach DB.pending in the   *)
(* order of application.  At any moment the records 1..applied therefore   *)
(* fall into consecutive segments: the settled ones, whose commit object   *)
(* is closed; the batch that writeLog is handling; DB.pending; and at most *)
(* one record that is applied and not yet enqueued (QueueInv, TicketInv).  *)
(* While run has no error the log and the snapshots together reach exactly *)
(* as far as writeLog has written (LogInv), so a commit object that is     *)
(* closed without an error stands for durable records (AckInv).            *)
(***************************************************************************)
EXTENDS GroupCommit, SequenceTheorems, TLAPS

\* DB.mu is held by the writer between Lock and Unlock; the record it has not
\* enqueued yet is the last one applied; nobody writes to a closed database.
MutexInv ==
  /\ LockOK
  /\ \A w \in Writers : wpc[w] = "enqueue" => rec[w] = applied
  /\ \A w \in Writers : wpc[w] # "idle" => rec[w] \in 1..applied
  /\ closed => mu = Free

\* Close goes through its stages in order: closed, stop, run's last round, and
\* it reports run's error.
CloseInv ==
  /\ closed <=> cpc # "open"
  /\ stop => closed
  /\ last => closed
  /\ rpc = "done" => last
  /\ cpc = "closed" => rpc = "done" /\ (err => closeErr)

\* run writes to no file after an error, and a failed commit is remembered.
ErrInv ==
  /\ rpc \in {"write", "sync", "files", "truncate", "truncsync"} => ~err
  /\ \A c \in Recs : result[c] = "fail" => err

\* Records that have been enqueued, and those whose commit object is closed.
Enqueued ==
  IF \E w \in Writers : wpc[w] = "enqueue" THEN applied - 1 ELSE applied
Busy == rpc \in {"write", "sync", "ack"}
Settled == Enqueued - Len(pending) - Len(batch)

\* The batch and DB.pending are the consecutive records that follow the
\* settled ones; there is a batch exactly while writeLog handles one.
QueueInv ==
  /\ Settled >= 0
  /\ \A i \in 1..Len(batch) : batch[i] = Settled + i
  /\ \A i \in 1..Len(pending) : pending[i] = Settled + Len(batch) + i
  /\ (batch # << >>) <=> Busy

\* The last record writeLog has written, if no write has failed.
Logged == IF rpc = "write" THEN Settled ELSE Settled + Len(batch)

\* s is a run of consecutive records that leaves no gap behind record low.
IsRun(s, low) ==
  /\ \A i \in 1..Len(s) : s[i] = s[1] + i - 1
  /\ s # << >> => s[1] <= low + 1

\* Run s on top of the records up to low reaches exactly record top.
Reaches(s, top, low) == IF s = << >> THEN top <= low ELSE s[Len(s)] = top

\* b holds the records that come right after top.
Follows(b, top) == \A i \in 1..Len(b) : b[i] = top + i

\* The log has no gap, neither inside nor behind the snapshots.  Without an
\* error it reaches as far as writeLog has written, all of it is synced except
\* between Write and Sync, and it is only truncated once the snapshots cover it.
LogInv ==
  /\ IsRun(log, snap)
  /\ snap <= applied
  /\ ~err => /\ Reaches(log, Logged, snap)
             /\ rpc # "sync" => synced = Len(log)
             /\ rpc = "files" => (snap <= capture /\ capture <= applied)
             /\ rpc = "files" => Logged <= capture
             /\ rpc = "truncate" => Logged <= snap
             /\ rpc = "truncsync" => log = << >>

\* Commit objects: the open one belongs to DB.pending and the taken one to the
\* batch, each named after its first record; settled records have a closed one.
TicketInv ==
  /\ pending = << >> => commit = NoCommit
  /\ pending # << >> => commit = Settled + Len(batch) + 1
  /\ Busy => taken = Settled + 1
  /\ \A i \in 1..Len(batch) : ticket[batch[i]] = taken
  /\ \A i \in 1..Len(pending) : ticket[pending[i]] = commit
  /\ \A n \in Recs : n <= Settled => ticket[n] \in 1..n /\ result[ticket[n]] # "open"
  /\ \A n \in Recs : n > Settled => result[n] = "open"
  /\ \A n \in Recs : n > Enqueued => ticket[n] = NoCommit

\* What was acknowledged is durable.
AckInv ==
  \A n \in Recs : n <= Settled /\ result[ticket[n]] = "ok" => n <= DurableTop

\* The inductive invariant behind durability.
IInv == /\ TypeOK /\ MutexInv /\ ErrInv
        /\ QueueInv /\ TicketInv /\ LogInv /\ AckInv

\* A writer past Enqueue has its record enqueued.
WaitInv ==
  \A w \in Writers :
    wpc[w] \in {"signal", "unlock", "wait"} => rec[w] \in 1..Enqueued

\* DB.size counts the records of the log, as long as no error has happened.
SizeInv ==
  /\ (~err /\ rpc \notin {"sync", "truncsync"}) => size = Len(log)
  /\ (~err /\ rpc = "sync") => size + Len(batch) = Len(log)

\* run's last snapshot covers everything that was ever applied.
SealInv ==
  (last /\ ~err) =>
    /\ rpc = "files" => capture = applied
    /\ rpc \in {"truncate", "truncsync", "done"} => snap = applied
    /\ rpc = "done" => log = << >>

\* In run's last round nothing is queued behind the batch that Take takes.
DrainInv == last => rpc # "select" /\ (rpc # "take" => pending = << >>)

USE ConstantsAssumption DEF Recs, Free, NoCommit

\* A prefix of a sequence.
LEMMA Prefix ==
  ASSUME NEW S, NEW s \in Seq(S), NEW k \in 0..Len(s)
  PROVE  /\ SubSeq(s, 1, k) \in Seq(S)
         /\ Len(SubSeq(s, 1, k)) = k
         /\ \A i \in 1..k : SubSeq(s, 1, k)[i] = s[i]
  <1>1. Len(s) \in Nat
    BY LenProperties
  <1>2. \A i \in 1..k : s[i] \in S
    BY <1>1, ElementOfSeq
  <1>3. SubSeq(s, 1, k) \in Seq(S)
    BY <1>1, <1>2, SubSeqProperties
  <1>4. Len(SubSeq(s, 1, k)) = k
    BY <1>1, <1>2, SubSeqProperties
  <1>5. \A i \in 1..k : SubSeq(s, 1, k)[i] = s[i]
    BY <1>1, <1>2, SubSeqProperties
  <1> QED
    BY <1>3, <1>4, <1>5

\* What Open hands over has the right types.
LEMMA TypeInit == Init => TypeOK
  <1>1. Init => FlagsOK
    BY Zenon DEF Init, FlagsOK
  <1>2. Init => DataOK
    BY DEF Init, DataOK
  <1>3. Init => LockOK
    BY ConstantsAssumption DEF Init, LockOK, Holding, Free
  <1> QED
    BY <1>1, <1>2, <1>3 DEF TypeOK

\* Every step keeps the flags Boolean.
LEMMA FlagsStep == FlagsOK /\ [Next]_vars => FlagsOK'
  <1> SUFFICES ASSUME FlagsOK, [Next]_vars
               PROVE  FlagsOK'
    OBVIOUS
  <1> USE DEF FlagsOK, muVars, queueVars, wVars, runVars, diskVars, closeVars
  <1>1. ASSUME NEW w \in Writers, Apply(w) \/ Reject(w) \/ WriterStep(w)
        PROVE  FlagsOK'
    BY <1>1, Zenon DEF Apply, Reject, WriterStep, Enqueue, Signal, Unlock, Return
  <1>2. ASSUME RecvNotify \/ RecvTick \/ RecvStop
        PROVE  FlagsOK'
    BY <1>2, Zenon DEF RecvNotify, RecvTick, RecvStop
  <1>3. ASSUME LogStep
        PROVE  FlagsOK'
    BY <1>3, Zenon DEF LogStep, Take, Write, Sync, Ack
  <1>4. ASSUME SnapshotStep
        PROVE  FlagsOK'
    BY <1>4, Zenon DEF SnapshotStep, Capture, SnapshotFails, WriteFiles,
                       Truncate, TruncateSync
  <1>5. ASSUME CloseLock \/ CloseStop \/ CloseFinish
        PROVE  FlagsOK'
    BY <1>5, Zenon DEF CloseLock, CloseStop, CloseFinish
  <1>6. CASE UNCHANGED vars
    BY <1>6, Zenon DEF vars
  <1> QED
    BY <1>1, <1>2, <1>3, <1>4, <1>5, <1>6, Zenon DEF Next

\* Every step keeps the other variables in their types.  A record number is
\* in range because MutexInv bounds it by applied.
LEMMA DataStep == DataOK /\ MutexInv /\ [Next]_vars => DataOK'
  <1> SUFFICES ASSUME DataOK, MutexInv, [Next]_vars
               PROVE  DataOK'
    OBVIOUS
  <1> USE DEF DataOK, pending, batch, muVars, queueVars, wVars, runVars,
              diskVars, closeVars
  <1>1. ASSUME NEW w \in Writers, Apply(w) \/ Reject(w)
        PROVE  DataOK'
    <2>1. CASE Apply(w)
      BY <2>1 DEF Apply
    <2>2. CASE Reject(w)
      BY <2>2 DEF Reject
    <2> QED
      BY <1>1, <2>1, <2>2
  <1>2. ASSUME NEW w \in Writers, Enqueue(w)
        PROVE  DataOK'
    BY <1>2, SMTT(30) DEF Enqueue, MutexInv
  <1>3. ASSUME NEW w \in Writers, Signal(w) \/ Unlock(w) \/ Return(w)
        PROVE  DataOK'
    BY <1>3, ZenonT(40) DEF Signal, Unlock, Return
  <1>4. ASSUME RecvNotify \/ RecvTick \/ RecvStop
        PROVE  DataOK'
    BY <1>4 DEF RecvNotify, RecvTick, RecvStop
  <1>5. ASSUME Take
        PROVE  DataOK'
    BY <1>5 DEF Take, AfterLog
  <1>6. ASSUME Write
        PROVE  DataOK'
    <2>1. batch \in Seq(1..MaxRecs)
      OBVIOUS
    <2>2. /\ log' \in Seq(1..MaxRecs)
          /\ Len(log) <= Len(log')
      <3>1. CASE log' = log \o batch
        BY <2>1, <3>1, ConcatProperties
      <3>2. ASSUME NEW k \in 0..Len(batch), log' = log \o SubSeq(batch, 1, k)
            PROVE  /\ log' \in Seq(1..MaxRecs)
                   /\ Len(log) <= Len(log')
        <4>1. SubSeq(batch, 1, k) \in Seq(1..MaxRecs)
          BY <2>1, Prefix, ZenonT(40)
        <4> QED
          BY <3>2, <4>1, ConcatProperties, SMTT(30)
      <3> QED
        BY <1>6, <3>1, <3>2 DEF Write
    <2>3. synced' \in 0..Len(log')
      BY <1>6, <2>2 DEF Write
    <2> QED
      BY <1>6, <2>2, <2>3 DEF Write
  <1>7. ASSUME Sync
        PROVE  DataOK'
    BY <1>7, SMTT(30) DEF Sync
  <1>8. ASSUME Ack
        PROVE  DataOK'
    <2>1. result' \in [Recs -> {"open", "ok", "fail"}]
      BY <1>8 DEF Ack
    <2>2. rpc' \in {"snap", "select"}
      BY <1>8 DEF Ack, AfterLog
    <2>3. queue' \in [{0, 1} -> Seq(Recs)]
      <3>1. << >> \in Seq(Recs)
        BY EmptySeq
      <3> QED
        BY <1>8, <3>1 DEF Ack
    <2> QED
      BY <1>8, <2>1, <2>2, <2>3 DEF Ack
  <1>9. ASSUME SnapshotStep
        PROVE  DataOK'
    <2>1. CASE Capture
      BY <2>1 DEF Capture, AfterSnapshot
    <2>2. CASE SnapshotFails
      BY <2>2 DEF SnapshotFails, AfterSnapshot
    <2>3. CASE WriteFiles
      BY <2>3 DEF WriteFiles
    <2>4. CASE Truncate
      BY <2>4 DEF Truncate
    <2>5. CASE TruncateSync
      BY <2>5 DEF TruncateSync, AfterSnapshot
    <2> QED
      BY <1>9, <2>1, <2>2, <2>3, <2>4, <2>5 DEF SnapshotStep
  <1>10. ASSUME CloseLock \/ CloseStop \/ CloseFinish
         PROVE  DataOK'
    BY <1>10 DEF CloseLock, CloseStop, CloseFinish
  <1>11. CASE UNCHANGED vars
    BY <1>11 DEF vars
  <1> QED
    BY <1>1, <1>2, <1>3, <1>4, <1>5, <1>6, <1>7, <1>8, <1>9, <1>10, <1>11,
       Zenon DEF Next, WriterStep, LogStep

\* Nobody holds DB.mu at first.
LEMMA MutexInit == Init => MutexInv
  BY DEF Init, MutexInv, LockOK, Holding

\* Only the writers and Close touch DB.mu and DB.closed, and they keep MutexInv.
LEMMA MutexStep == TypeOK /\ MutexInv /\ [Next]_vars => MutexInv'
  <1> SUFFICES ASSUME TypeOK, MutexInv, [Next]_vars
               PROVE  MutexInv'
    OBVIOUS
  <1> USE DEF TypeOK, DataOK, MutexInv, LockOK, Holding
  <1>1. ASSUME NEW w \in Writers, Apply(w)
        PROVE  MutexInv'
    BY <1>1 DEF Apply
  <1>2. ASSUME NEW w \in Writers, Reject(w)
        PROVE  MutexInv'
    BY <1>2 DEF Reject, muVars
  <1>3. ASSUME NEW w \in Writers, Enqueue(w)
        PROVE  MutexInv'
    BY <1>3 DEF Enqueue, muVars
  <1>4. ASSUME NEW w \in Writers, Signal(w)
        PROVE  MutexInv'
    BY <1>4 DEF Signal, muVars
  <1>5. ASSUME NEW w \in Writers, Unlock(w)
        PROVE  MutexInv'
    BY <1>5 DEF Unlock
  <1>6. ASSUME NEW w \in Writers, Return(w)
        PROVE  MutexInv'
    BY <1>6 DEF Return, muVars
  <1>7. ASSUME CloseLock
        PROVE  MutexInv'
    BY <1>7 DEF CloseLock, wVars
  <1>8. ASSUME UNCHANGED <<mu, closed, applied, wpc, rec>>
        PROVE  MutexInv'
    BY <1>8
  <1>9. ASSUME \/ RecvNotify \/ RecvTick \/ RecvStop
               \/ LogStep \/ SnapshotStep \/ CloseStop \/ CloseFinish
               \/ UNCHANGED vars
        PROVE  UNCHANGED <<mu, closed, applied, wpc, rec>>
    BY <1>9, Zenon DEF RecvNotify, RecvTick, RecvStop, LogStep, Take, Write, Sync,
                Ack, SnapshotStep, Capture, SnapshotFails, WriteFiles,
                Truncate, TruncateSync, CloseStop, CloseFinish, vars, muVars,
                wVars
  <1> QED
    BY <1>1, <1>2, <1>3, <1>4, <1>5, <1>6, <1>7, <1>8, <1>9, Zenon
       DEF Next, WriterStep

\* Every variable keeps its type, and DB.mu is held by the writer that is
\* between Lock and Unlock.
THEOREM TypeCorrect == Spec => [](TypeOK /\ MutexInv)
  <1>1. Init => TypeOK /\ MutexInv
    BY TypeInit, MutexInit
  <1>2. TypeOK /\ MutexInv /\ [Next]_vars => (TypeOK /\ MutexInv)'
    BY FlagsStep, DataStep, MutexStep DEF TypeOK, MutexInv
  <1> QED
    BY <1>1, <1>2, PTL DEF Spec

\* The database starts open.
LEMMA CloseInit == Init => CloseInv
  BY DEF Init, CloseInv

\* Close and run go through the stages of closing in order.
LEMMA CloseStepInv == TypeOK /\ MutexInv /\ CloseInv /\ [Next]_vars => CloseInv'
  <1> SUFFICES ASSUME TypeOK, CloseInv, [Next]_vars
               PROVE  CloseInv'
    OBVIOUS
  <1> USE DEF TypeOK, DataOK, FlagsOK, CloseInv
  <1>1. ASSUME NEW w \in Writers, Apply(w) \/ Reject(w) \/ WriterStep(w)
        PROVE  UNCHANGED <<closed, stop, last, rpc, cpc, err, closeErr>>
    BY <1>1, Zenon DEF Apply, Reject, WriterStep, Enqueue, Signal, Unlock,
                       Return, muVars, runVars, closeVars
  <1>2. ASSUME UNCHANGED <<closed, stop, last, rpc, cpc, err, closeErr>>
        PROVE  CloseInv'
    BY <1>2
  <1>3. ASSUME RecvNotify \/ RecvTick \/ RecvStop
        PROVE  CloseInv'
    BY <1>3 DEF RecvNotify, RecvTick, RecvStop, muVars, closeVars
  <1>4. ASSUME LogStep
        PROVE  CloseInv'
    <2>1. UNCHANGED <<closed, stop, last, cpc, closeErr>> /\ rpc # "done"
      BY <1>4, Zenon DEF LogStep, Take, Write, Sync, Ack, muVars, closeVars
    <2>2. rpc' # "done"
      BY <1>4 DEF LogStep, Take, Write, Sync, Ack, AfterLog
    <2> QED
      BY <2>1, <2>2
  <1>5. ASSUME SnapshotStep
        PROVE  CloseInv'
    BY <1>5, SMTT(30) DEF SnapshotStep, Capture, SnapshotFails, WriteFiles, Truncate,
                TruncateSync, AfterSnapshot, muVars, closeVars
  <1>6. ASSUME CloseLock \/ CloseStop \/ CloseFinish
        PROVE  CloseInv'
    <2>1. CASE CloseLock
      BY <2>1 DEF CloseLock, runVars
    <2>2. CASE CloseStop
      BY <2>2 DEF CloseStop, muVars, runVars
    <2>3. CASE CloseFinish
      <3>1. /\ rpc = "done" /\ cpc = "wait" /\ cpc' = "closed"
            /\ UNCHANGED <<rpc, closed, stop, last, err>>
        BY <2>3, Zenon DEF CloseFinish, muVars, runVars
      <3>2. err => closeErr'
        BY <2>3 DEF CloseFinish
      <3> QED
        BY <3>1, <3>2
    <2> QED
      BY <1>6, <2>1, <2>2, <2>3
  <1> QED
    BY <1>1, <1>2, <1>3, <1>4, <1>5, <1>6, Zenon
       DEF Next, vars, muVars, runVars, closeVars

\* There is no error at first.
LEMMA ErrInit == Init => ErrInv
  BY DEF Init, ErrInv

\* run's error is never reset, and a commit fails only with it.
LEMMA ErrStep == TypeOK /\ ErrInv /\ [Next]_vars => ErrInv'
  <1> SUFFICES ASSUME TypeOK, ErrInv, [Next]_vars
               PROVE  ErrInv'
    OBVIOUS
  <1> USE DEF TypeOK, DataOK, FlagsOK, ErrInv
  <1>1. ASSUME UNCHANGED <<rpc, err, result>>
        PROVE  ErrInv'
    BY <1>1
  <1>2. ASSUME \/ CloseLock \/ CloseStop \/ CloseFinish \/ UNCHANGED vars
               \/ \E w \in Writers : Apply(w) \/ Reject(w) \/ WriterStep(w)
        PROVE  UNCHANGED <<rpc, err, result>>
    BY <1>2, Zenon DEF Apply, Reject, WriterStep, Enqueue, Signal, Unlock,
                       Return, CloseLock, CloseStop, CloseFinish, vars, runVars
  <1>3. ASSUME RecvNotify \/ RecvTick \/ RecvStop
        PROVE  ErrInv'
    BY <1>3 DEF RecvNotify, RecvTick, RecvStop
  <1>4. ASSUME Take \/ Write \/ Sync
        PROVE  ErrInv'
    <2>1. CASE Take
      BY <2>1 DEF Take, AfterLog
    <2>2. CASE Write
      BY <2>2 DEF Write
    <2>3. CASE Sync
      BY <2>3 DEF Sync
    <2> QED
      BY <1>4, <2>1, <2>2, <2>3
  <1>5. ASSUME Ack
        PROVE  ErrInv'
    <2>1. rpc' \in {"snap", "select"} /\ err' = err
      BY <1>5 DEF Ack, AfterLog
    <2>2. \A c \in Recs : result'[c] = "fail" => err
      BY <1>5 DEF Ack
    <2> QED
      BY <2>1, <2>2
  <1>6. ASSUME SnapshotStep
        PROVE  ErrInv'
    BY <1>6, SMTT(30) DEF SnapshotStep, Capture, SnapshotFails, WriteFiles, Truncate,
                TruncateSync, AfterSnapshot
  <1> QED
    BY <1>1, <1>2, <1>3, <1>4, <1>5, <1>6, Zenon DEF Next, LogStep

\* Fail-stop: once a commit has failed, run's error stays and no later commit
\* is closed without it.
THEOREM FailStopHolds == Spec => FailStop
  <1>1. ErrInv /\ TypeOK /\ [Next]_vars =>
          [(\E c \in Recs : result[c] = "fail") =>
             \A c \in Recs : result[c] = "open" => result'[c] # "ok"]_vars
    <2> SUFFICES ASSUME ErrInv, TypeOK, Next,
                        NEW d \in Recs, result[d] = "fail",
                        NEW c \in Recs, result[c] = "open"
                 PROVE  result'[c] # "ok"
      BY Zenon DEF vars
    <2>1. err
      BY DEF ErrInv
    <2>2. CASE Ack
      BY <2>1, <2>2 DEF Ack, TypeOK, DataOK
    <2>3. ASSUME ~Ack
          PROVE  result' = result
      BY <2>3, Zenon
         DEF Next, Apply, Reject, WriterStep, Enqueue, Signal, Unlock, Return,
             RecvNotify, RecvTick, RecvStop, LogStep, Take, Write, Sync,
             SnapshotStep, Capture, SnapshotFails, WriteFiles, Truncate,
             TruncateSync, CloseLock, CloseStop, CloseFinish
    <2> QED
      BY <2>2, <2>3
  <1>2. Init => ErrInv
    BY ErrInit
  <1>3. TypeOK /\ ErrInv /\ [Next]_vars => ErrInv'
    BY ErrStep
  <1> QED
    BY <1>1, <1>2, <1>3, TypeCorrect, PTL DEF Spec, FailStop

-----------------------------------------------------------------------------
(* The queue. *)

\* enqueue appends to DB.pending and leaves the batch alone.
LEMMA EnqueueMoves ==
  ASSUME TypeOK, NEW w \in Writers, Enqueue(w)
  PROVE  pending' = Append(pending, rec[w]) /\ batch' = batch
  BY DEF Enqueue, TypeOK, DataOK, pending, batch

\* writeLog makes DB.pending the batch and leaves DB.pending empty.
LEMMA TakeMoves ==
  ASSUME TypeOK, Take
  PROVE  pending' = << >> /\ batch' = pending
  BY DEF Take, TypeOK, DataOK, pending, batch

\* Clearing the batch leaves DB.pending alone.
LEMMA AckMoves ==
  ASSUME TypeOK, Ack
  PROVE  pending' = pending /\ batch' = << >>
  BY DEF Ack, TypeOK, DataOK, pending, batch

\* The remaining steps touch neither array.
LEMMA OthersKeepQueue ==
  ASSUME \/ \E w \in Writers : Apply(w) \/ Reject(w) \/ Signal(w) \/ Unlock(w)
                               \/ Return(w)
         \/ RecvNotify \/ RecvTick \/ RecvStop \/ Write \/ Sync \/ SnapshotStep
         \/ CloseLock \/ CloseStop \/ CloseFinish \/ UNCHANGED vars
  PROVE  pending' = pending /\ batch' = batch
  <1>1. UNCHANGED <<queue, cur>>
    BY Zenon DEF Apply, Reject, Signal, Unlock, Return, RecvNotify, RecvTick,
       RecvStop, Write, Sync, SnapshotStep, Capture, SnapshotFails, WriteFiles,
       Truncate, TruncateSync, CloseLock, CloseStop, CloseFinish, vars,
       queueVars
  <1> QED
    BY <1>1, Zenon DEF pending, batch

\* The two arrays are sequences of records; they are empty at length zero.
LEMMA QueueTypes ==
  ASSUME TypeOK
  PROVE  /\ pending \in Seq(Recs) /\ Len(pending) \in Nat
         /\ batch \in Seq(Recs) /\ Len(batch) \in Nat
         /\ (pending = << >>) <=> (Len(pending) = 0)
         /\ (batch = << >>) <=> (Len(batch) = 0)
  <1>1. pending \in Seq(Recs) /\ batch \in Seq(Recs)
    BY DEF TypeOK, DataOK, pending, batch
  <1> QED
    BY <1>1, EmptySeq, LenProperties

\* Queued records, and what will make run take them.
Wakeup ==
  pending # << >> => \/ notify
                     \/ rpc = "take"
                     \/ \E w \in Writers : wpc[w] = "signal"

\* A token sent is there until run receives it, and run takes what is queued.
LEMMA WakeupStep == TypeOK /\ Wakeup /\ [Next]_vars => Wakeup'
  <1> SUFFICES ASSUME TypeOK, Wakeup, [Next]_vars
               PROVE  Wakeup'
    OBVIOUS
  <1> USE DEF Wakeup
  <1>1. ASSUME NEW w \in Writers, Enqueue(w)
        PROVE  Wakeup'
    BY <1>1 DEF Enqueue, TypeOK, DataOK
  <1>2. ASSUME NEW w \in Writers, Signal(w)
        PROVE  Wakeup'
    BY <1>2, Zenon DEF Signal
  <1>3. ASSUME NEW w \in Writers, Apply(w) \/ Reject(w) \/ Unlock(w) \/ Return(w)
        PROVE  Wakeup'
    <2>1. pending' = pending /\ notify' = notify /\ rpc' = rpc
      BY <1>3, OthersKeepQueue, Zenon
         DEF Apply, Reject, Unlock, Return, queueVars, runVars
    <2>2. \A v \in Writers : wpc[v] = "signal" => wpc'[v] = "signal"
      BY <1>3 DEF Apply, Reject, Unlock, Return, TypeOK, DataOK
    <2> QED
      BY <2>1, <2>2, Zenon
  <1>4. ASSUME RecvNotify \/ RecvStop
        PROVE  Wakeup'
    BY <1>4, Zenon DEF RecvNotify, RecvStop
  <1>5. ASSUME Take
        PROVE  Wakeup'
    BY <1>5, TakeMoves, Zenon
  <1>6. ASSUME \/ RecvTick \/ Write \/ Sync \/ Ack \/ SnapshotStep
               \/ CloseLock \/ CloseStop \/ CloseFinish \/ UNCHANGED vars
        PROVE  Wakeup'
    <2>1. pending' = pending
      BY <1>6, OthersKeepQueue, AckMoves, Zenon
    <2>2. notify' = notify /\ wpc' = wpc
      BY <1>6, Zenon DEF RecvTick, Write, Sync, Ack, SnapshotStep, Capture,
         SnapshotFails, WriteFiles, Truncate, TruncateSync, CloseLock,
         CloseStop, CloseFinish, vars, queueVars, wVars
    <2>3. rpc = "take" => rpc' = "take"
      BY <1>6, Zenon DEF RecvTick, Write, Sync, Ack, SnapshotStep, Capture,
         SnapshotFails, WriteFiles, Truncate, TruncateSync, CloseLock,
         CloseStop, CloseFinish, vars, runVars
    <2> QED
      BY <2>1, <2>2, <2>3, Zenon
  <1> QED
    BY <1>1, <1>2, <1>3, <1>4, <1>5, <1>6, Zenon DEF Next, WriterStep, LogStep

-----------------------------------------------------------------------------
(* Records are enqueued, taken and settled in the order of application. *)

\* At most one record is applied and not enqueued.
LEMMA EnqueuedType ==
  ASSUME TypeOK, MutexInv
  PROVE  Enqueued \in Nat /\ Enqueued <= applied /\ applied <= Enqueued + 1
  <1>1. applied \in Nat
    BY DEF TypeOK, DataOK
  <1>2. CASE \E w \in Writers : wpc[w] = "enqueue"
    <2>1. applied >= 1
      BY <1>1, <1>2 DEF MutexInv
    <2>2. Enqueued = applied - 1
      BY <1>2, Zenon DEF Enqueued
    <2> QED
      BY <1>1, <2>1, <2>2
  <1>3. CASE ~ \E w \in Writers : wpc[w] = "enqueue"
    <2>1. Enqueued = applied
      BY <1>3, Zenon DEF Enqueued
    <2> QED
      BY <1>1, <2>1
  <1> QED
    BY <1>2, <1>3

\* The record that is enqueued is the next one in the order of application:
\* its writer has held DB.mu since Apply.
LEMMA EnqueueCounts ==
  ASSUME TypeOK, MutexInv, NEW w \in Writers, Enqueue(w)
  PROVE  /\ rec[w] = Enqueued + 1 /\ rec[w] \in Recs
         /\ Enqueued' = Enqueued + 1
  <1>1. wpc[w] = "enqueue" /\ rec[w] = applied /\ applied \in Recs
    BY DEF Enqueue, TypeOK, DataOK, MutexInv
  <1>2. \A v \in Writers : wpc'[v] # "enqueue"
    <2> SUFFICES ASSUME NEW v \in Writers, wpc'[v] = "enqueue"
                 PROVE  FALSE
      OBVIOUS
    <2>1. v # w /\ wpc[v] = "enqueue"
      BY DEF Enqueue, TypeOK, DataOK
    <2>2. mu = v /\ mu = w
      BY <1>1, <2>1 DEF MutexInv, LockOK, Holding
    <2> QED
      BY <2>1, <2>2
  <1>3. Enqueued = applied - 1
    BY <1>1 DEF Enqueued
  <1>4. Enqueued' = applied'
    BY <1>2 DEF Enqueued
  <1>5. applied' = applied
    BY DEF Enqueue, muVars
  <1> QED
    BY <1>1, <1>3, <1>4, <1>5, SMT

\* Apply and the steps that leave the writers alone enqueue nothing.
LEMMA OthersKeepEnqueued ==
  ASSUME TypeOK, MutexInv, [Next]_vars, \A w \in Writers : ~Enqueue(w)
  PROVE  Enqueued' = Enqueued
  <1>1. ASSUME NEW w \in Writers, Apply(w)
        PROVE  Enqueued' = Enqueued
    <2>1. Enqueued = applied
      BY <1>1 DEF Apply, Enqueued, MutexInv, LockOK, Holding, TypeOK, DataOK
    <2>2. wpc'[w] = "enqueue" /\ applied' = applied + 1
      BY <1>1 DEF Apply, TypeOK, DataOK
    <2> QED
      BY <2>1, <2>2 DEF Enqueued, TypeOK, DataOK
  <1>2. ASSUME applied' = applied,
               \A v \in Writers : (wpc'[v] = "enqueue") <=> (wpc[v] = "enqueue")
        PROVE  Enqueued' = Enqueued
    BY <1>2, Zenon DEF Enqueued
  <1>3. ASSUME NEW w \in Writers, Reject(w) \/ Signal(w) \/ Unlock(w) \/ Return(w)
        PROVE  Enqueued' = Enqueued
    <2>1. applied' = applied
      BY <1>3, Zenon DEF Reject, Signal, Unlock, Return, muVars
    <2>2. \A v \in Writers : (wpc'[v] = "enqueue") <=> (wpc[v] = "enqueue")
      BY <1>3 DEF Reject, Signal, Unlock, Return, TypeOK, DataOK
    <2> QED
      BY <1>2, <2>1, <2>2
  <1>4. ASSUME \/ RecvNotify \/ RecvTick \/ RecvStop \/ LogStep \/ SnapshotStep
               \/ CloseLock \/ CloseStop \/ CloseFinish \/ UNCHANGED vars
        PROVE  Enqueued' = Enqueued
    <2>1. applied' = applied /\ wpc' = wpc
      BY <1>4, Zenon DEF RecvNotify, RecvTick, RecvStop, LogStep, Take, Write,
         Sync, Ack, SnapshotStep, Capture, SnapshotFails, WriteFiles, Truncate,
         TruncateSync, CloseLock, CloseStop, CloseFinish, vars, muVars, wVars
    <2> QED
      BY <1>2, <2>1, Zenon
  <1> QED
    BY <1>1, <1>3, <1>4, Zenon DEF Next, WriterStep

\* The number of settled records is an integer.
LEMMA SettledType ==
  ASSUME TypeOK, MutexInv
  PROVE  Settled \in Int
  BY EnqueuedType, QueueTypes DEF Settled

\* enqueue settles nothing.
LEMMA EnqueueSettles ==
  ASSUME TypeOK, MutexInv, NEW w \in Writers, Enqueue(w)
  PROVE  Settled' = Settled /\ Len(pending') = Len(pending) + 1
  <1>1. Len(pending') = Len(pending) + 1
    BY QueueTypes, EnqueueMoves, EnqueueCounts, AppendProperties
  <1> QED
    BY <1>1, EnqueueMoves, EnqueueCounts, EnqueuedType, QueueTypes DEF Settled

\* Taking a batch settles nothing; there was no batch before.
LEMMA TakeSettles ==
  ASSUME TypeOK, MutexInv, QueueInv, [Next]_vars, Take
  PROVE  Settled' = Settled /\ batch = << >>
  <1>1. rpc = "take"
    BY DEF Take
  <1>2. batch = << >>
    BY <1>1 DEF QueueInv, Busy
  <1>3. \A w \in Writers : ~Enqueue(w)
    BY <1>1 DEF Enqueue, Take, runVars, AfterLog
  <1>4. Enqueued' = Enqueued
    BY <1>3, OthersKeepEnqueued
  <1>5. Len(pending') = 0 /\ Len(batch') = Len(pending) /\ Len(batch) = 0
    BY <1>2, TakeMoves, EmptySeq
  <1> QED
    BY <1>2, <1>4, <1>5, EnqueuedType, QueueTypes DEF Settled

\* Closing the commit object settles the batch.
LEMMA AckSettles ==
  ASSUME TypeOK, MutexInv, [Next]_vars, Ack
  PROVE  Settled' = Settled + Len(batch)
  <1>1. \A w \in Writers : ~Enqueue(w)
    BY DEF Enqueue, Ack, runVars, AfterLog
  <1>2. Enqueued' = Enqueued
    BY <1>1, OthersKeepEnqueued
  <1>3. pending' = pending /\ Len(batch') = 0
    BY AckMoves, EmptySeq
  <1> QED
    BY <1>2, <1>3, EnqueuedType, QueueTypes DEF Settled

\* No other step settles anything.
LEMMA OthersKeepSettled ==
  ASSUME TypeOK, MutexInv, [Next]_vars,
         \A w \in Writers : ~Enqueue(w), ~Take, ~Ack
  PROVE  Settled' = Settled /\ pending' = pending /\ batch' = batch
  <1>1. pending' = pending /\ batch' = batch
    BY OthersKeepQueue, Zenon DEF Next, WriterStep, LogStep
  <1> QED
    BY <1>1, OthersKeepEnqueued, Zenon DEF Settled

\* The queue starts empty.
LEMMA QueueInit == Init => QueueInv
  <1> SUFFICES ASSUME Init
               PROVE  QueueInv
    OBVIOUS
  <1>1. pending = << >> /\ batch = << >> /\ ~Busy
    BY DEF Init, pending, batch, Busy
  <1>2. Len(pending) = 0 /\ Len(batch) = 0
    BY <1>1, EmptySeq
  <1>3. Enqueued = 0
    BY DEF Init, Enqueued
  <1>4. Settled = 0
    BY <1>2, <1>3 DEF Settled
  <1> QED
    BY <1>1, <1>2, <1>4 DEF QueueInv

\* Every step keeps the segments consecutive.
LEMMA QueueStep ==
  ASSUME TypeOK, MutexInv, QueueInv, TicketInv, [Next]_vars
  PROVE  QueueInv'
  <1>1. ASSUME NEW w \in Writers, Enqueue(w)
        PROVE  QueueInv'
    <2>1. rpc' = rpc
      BY <1>1 DEF Enqueue, runVars
    <2>2. /\ Settled' = Settled /\ Settled \in Int
          /\ batch' = batch /\ Len(batch) \in Nat
          /\ Len(pending') = Len(pending) + 1 /\ Len(pending) \in Nat
      BY <1>1, EnqueueSettles, EnqueueMoves, SettledType, QueueTypes
    <2>3. \A i \in 1..Len(pending) : pending'[i] = pending[i]
      BY <1>1, EnqueueMoves, EnqueueCounts, QueueTypes, AppendProperties, SMTT(30)
    <2>4. pending'[Len(pending) + 1] = Settled + Len(batch) + Len(pending) + 1
      <3>1. pending'[Len(pending) + 1] = rec[w]
        BY <1>1, EnqueueMoves, EnqueueCounts, QueueTypes, AppendProperties
      <3>2. rec[w] = Enqueued + 1 /\ Enqueued \in Nat
        BY <1>1, EnqueueCounts, EnqueuedType
      <3> QED
        BY <2>2, <3>1, <3>2 DEF Settled
    <2>5. \A i \in 1..Len(pending') : pending'[i] = Settled + Len(batch) + i
      <3> SUFFICES ASSUME NEW i \in 1..Len(pending')
                   PROVE  pending'[i] = Settled + Len(batch) + i
        OBVIOUS
      <3>1. CASE i \in 1..Len(pending)
        BY <2>2, <2>3, <3>1 DEF QueueInv
      <3>2. CASE i = Len(pending) + 1
        BY <2>2, <2>4, <3>2
      <3> QED
        BY <2>2, <3>1, <3>2
    <2> QED
      BY <2>1, <2>2, <2>5 DEF QueueInv, Busy
  <1>2. ASSUME Take
        PROVE  QueueInv'
    <2>1. /\ Settled' = Settled /\ Settled \in Int
          /\ Len(batch) = 0 /\ batch' = pending
          /\ Len(pending') = 0 /\ Len(pending) \in Nat
      BY <1>2, TakeSettles, TakeMoves, SettledType, QueueTypes, EmptySeq
    <2>2. \A i \in 1..Len(batch') : batch'[i] = Settled + i
      BY <2>1 DEF QueueInv
    <2>3. (batch' # << >>) <=> Busy'
      <3>1. CASE commit = NoCommit
        <4>1. pending = << >>
          BY <2>1, <3>1 DEF TicketInv, QueueInv
        <4>2. rpc' \in {"snap", "select"}
          BY <1>2, <3>1 DEF Take, AfterLog
        <4> QED
          BY <2>1, <4>1, <4>2 DEF Busy
      <3>2. CASE commit # NoCommit
        <4>1. pending # << >>
          BY <3>2 DEF TicketInv
        <4>2. rpc' \in {"ack", "write"}
          BY <1>2, <3>2 DEF Take
        <4> QED
          BY <2>1, <4>1, <4>2 DEF Busy
      <3> QED
        BY <3>1, <3>2
    <2> QED
      BY <2>1, <2>2, <2>3 DEF QueueInv
  <1>3. ASSUME Ack
        PROVE  QueueInv'
    <2>1. /\ Settled' = Settled + Len(batch) /\ Settled \in Int
          /\ Len(batch) \in Nat /\ batch' = << >> /\ Len(batch') = 0
          /\ pending' = pending
      BY <1>3, AckSettles, AckMoves, SettledType, QueueTypes, EmptySeq
    <2>2. ~Busy'
      BY <1>3 DEF Ack, AfterLog, Busy
    <2> QED
      BY <2>1, <2>2 DEF QueueInv
  <1>4. ASSUME \A w \in Writers : ~Enqueue(w), ~Take, ~Ack
        PROVE  QueueInv'
    <2>1. Settled' = Settled /\ pending' = pending /\ batch' = batch
      BY <1>4, OthersKeepSettled
    <2>2. Busy' <=> Busy
      BY <1>4, Zenon DEF Busy, Next, Apply, Reject, WriterStep, Signal, Unlock, Return,
         RecvNotify, RecvTick, RecvStop, LogStep, Write, Sync, SnapshotStep,
         Capture, SnapshotFails, WriteFiles, Truncate, TruncateSync,
         AfterSnapshot, CloseLock, CloseStop, CloseFinish, vars, runVars
    <2> QED
      BY <2>1, <2>2 DEF QueueInv
  <1> QED
    BY <1>1, <1>2, <1>3, <1>4

-----------------------------------------------------------------------------
(* Commit objects. *)

\* There is no commit object at first.
LEMMA TicketInit == Init => TicketInv
  <1> SUFFICES ASSUME Init
               PROVE  TicketInv
    OBVIOUS
  <1>1. pending = << >> /\ batch = << >> /\ ~Busy
    BY DEF Init, pending, batch, Busy
  <1>2. Len(pending) = 0 /\ Len(batch) = 0
    BY <1>1, EmptySeq
  <1>3. Enqueued = 0
    BY DEF Init, Enqueued
  <1>4. Settled = 0
    BY <1>2, <1>3 DEF Settled
  <1> QED
    BY <1>1, <1>2, <1>3, <1>4 DEF TicketInv, Init

\* enqueue puts its record under the open commit object, or under a new one.
LEMMA TicketEnqueue ==
  ASSUME TypeOK, MutexInv, QueueInv, TicketInv, [Next]_vars,
         NEW w \in Writers, Enqueue(w)
  PROVE  TicketInv'
  <1>1. /\ Settled' = Settled /\ Settled \in Nat
        /\ batch' = batch /\ Len(batch) \in Nat
        /\ Len(pending') = Len(pending) + 1 /\ Len(pending) \in Nat
        /\ Enqueued = Settled + Len(batch) + Len(pending)
        /\ Enqueued' = Enqueued + 1
        /\ rec[w] = Enqueued + 1 /\ rec[w] \in Recs
    <2>1. Settled \in Nat
      BY SettledType DEF QueueInv
    <2>2. Enqueued = Settled + Len(batch) + Len(pending)
      BY EnqueuedType, QueueTypes DEF Settled
    <2> QED
      BY <2>1, <2>2, EnqueueSettles, EnqueueMoves, EnqueueCounts, QueueTypes
  <1>2. /\ \A i \in 1..Len(pending) : pending'[i] = pending[i]
        /\ pending'[Len(pending) + 1] = rec[w]
    <2>1. \A i \in 1..Len(pending) : pending'[i] = pending[i]
      BY EnqueueMoves, EnqueueCounts, QueueTypes, AppendProperties, SMTT(30)
    <2>2. pending'[Len(pending) + 1] = rec[w]
      BY EnqueueMoves, EnqueueCounts, QueueTypes, AppendProperties
    <2> QED
      BY <2>1, <2>2
  <1>3. commit' = Settled + Len(batch) + 1
    <2>1. CASE commit = NoCommit
      <3>1. Len(pending) = 0
        BY <1>1, <2>1, QueueTypes DEF TicketInv
      <3>2. commit' = rec[w]
        BY <2>1 DEF Enqueue
      <3> QED
        BY <1>1, <3>1, <3>2
    <2>2. CASE commit # NoCommit
      BY <1>1, <2>2 DEF TicketInv, Enqueue
    <2> QED
      BY <2>1, <2>2
  <1>4. Len(pending) > 0 => commit' = commit
    BY <1>1, <1>3, QueueTypes DEF TicketInv
  <1>5. /\ ticket' = [ticket EXCEPT ![rec[w]] = commit']
        /\ result' = result /\ taken' = taken /\ rpc' = rpc
    BY DEF Enqueue, runVars
  <1>6. ticket \in [Recs -> 0..MaxRecs]
    BY DEF TypeOK, DataOK
  <1>7. \A n \in Recs : n # rec[w] => ticket'[n] = ticket[n]
    BY <1>5, <1>6
  <1>8. ticket'[rec[w]] = commit'
    BY <1>1, <1>5, <1>6
  <1>9. pending' # << >>
    BY <1>1, EmptySeq
  <1>10. \A i \in 1..Len(batch') : ticket'[batch'[i]] = taken'
    <2> SUFFICES ASSUME NEW i \in 1..Len(batch)
                 PROVE  ticket'[batch[i]] = taken
      BY <1>1, <1>5
    <2>1. batch[i] = Settled + i /\ ticket[batch[i]] = taken
      BY DEF QueueInv, TicketInv
    <2>2. batch[i] # rec[w] /\ batch[i] \in Recs
      BY <1>1, <2>1
    <2> QED
      BY <1>7, <2>1, <2>2
  <1>11. \A i \in 1..Len(pending') : ticket'[pending'[i]] = commit'
    <2> SUFFICES ASSUME NEW i \in 1..Len(pending')
                 PROVE  ticket'[pending'[i]] = commit'
      OBVIOUS
    <2>1. CASE i \in 1..Len(pending)
      <3>1. /\ pending'[i] = pending[i] /\ ticket[pending[i]] = commit
            /\ pending[i] = Settled + Len(batch) + i
        BY <1>2, <2>1 DEF QueueInv, TicketInv
      <3>2. pending[i] # rec[w] /\ pending[i] \in Recs
        BY <1>1, <2>1, <3>1
      <3> QED
        BY <1>1, <1>4, <1>7, <2>1, <3>1, <3>2
    <2>2. CASE i = Len(pending) + 1
      BY <1>2, <1>8, <2>2
    <2> QED
      BY <1>1, <2>1, <2>2
  <1>12. \A n \in Recs : n <= Settled' =>
           ticket'[n] \in 1..n /\ result'[ticket'[n]] # "open"
    <2> SUFFICES ASSUME NEW n \in Recs, n <= Settled
                 PROVE  ticket'[n] \in 1..n /\ result'[ticket'[n]] # "open"
      BY <1>1
    <2>1. n # rec[w]
      BY <1>1
    <2> QED
      BY <1>5, <1>7, <2>1 DEF TicketInv
  <1>13. \A n \in Recs : n > Settled' => result'[n] = "open"
    BY <1>1, <1>5 DEF TicketInv
  <1>14. \A n \in Recs : n > Enqueued' => ticket'[n] = NoCommit
    BY <1>1, <1>7 DEF TicketInv
  <1>15. Busy' => taken' = Settled' + 1
    BY <1>1, <1>5 DEF TicketInv, Busy
  <1>16. commit' = Settled' + Len(batch') + 1
    BY <1>1, <1>3
  <1> QED
    BY <1>9, <1>10, <1>11, <1>12, <1>13, <1>14, <1>15, <1>16 DEF TicketInv

\* writeLog takes the open commit object together with its records.
LEMMA TicketTake ==
  ASSUME TypeOK, MutexInv, QueueInv, TicketInv, [Next]_vars, Take
  PROVE  TicketInv'
  <1>1. /\ Settled' = Settled /\ Settled \in Int
        /\ Len(batch) = 0 /\ batch' = pending
        /\ pending' = << >> /\ Len(pending') = 0 /\ Len(pending) \in Nat
    BY TakeSettles, TakeMoves, SettledType, QueueTypes, EmptySeq
  <1>2. Enqueued' = Enqueued
    <2>1. \A w \in Writers : ~Enqueue(w)
      BY DEF Enqueue, Take, runVars, AfterLog
    <2> QED
      BY <2>1, OthersKeepEnqueued
  <1>3. /\ commit' = NoCommit /\ taken' = commit
        /\ ticket' = ticket /\ result' = result
    BY DEF Take
  <1>4. Busy' => taken' = Settled' + 1
    <2> SUFFICES ASSUME Busy'
                 PROVE  taken' = Settled' + 1
      OBVIOUS
    <2>1. commit # NoCommit
      BY DEF Take, AfterLog, Busy
    <2>2. commit = Settled + Len(batch) + 1
      BY <2>1 DEF TicketInv
    <2> QED
      BY <1>1, <1>3, <2>2
  <1>5. \A i \in 1..Len(batch') : ticket'[batch'[i]] = taken'
    BY <1>1, <1>3 DEF TicketInv
  <1> QED
    BY <1>1, <1>2, <1>3, <1>4, <1>5 DEF TicketInv

\* Closing the taken commit object settles exactly the records under it.
LEMMA TicketAck ==
  ASSUME TypeOK, MutexInv, QueueInv, TicketInv, [Next]_vars, Ack
  PROVE  TicketInv'
  <1>1. /\ Settled' = Settled + Len(batch) /\ Settled \in Nat
        /\ Len(batch) \in Nat \ {0} /\ Len(batch') = 0
        /\ pending' = pending /\ Len(pending) \in Nat
        /\ Enqueued = Settled + Len(batch) + Len(pending) /\ Enqueued <= MaxRecs
    <2>1. batch # << >>
      BY DEF Ack, QueueInv, Busy
    <2>2. Enqueued \in Nat /\ Enqueued <= MaxRecs
      BY EnqueuedType, SMTT(30) DEF TypeOK, DataOK
    <2>3. Settled \in Nat
      BY SettledType DEF QueueInv
    <2> QED
      BY <2>1, <2>2, <2>3, AckSettles, AckMoves, QueueTypes, EmptySeq DEF Settled
  <1>2. Enqueued' = Enqueued
    <2>1. \A w \in Writers : ~Enqueue(w)
      BY DEF Enqueue, Ack, runVars, AfterLog
    <2> QED
      BY <2>1, OthersKeepEnqueued
  <1>3. /\ commit' = commit /\ ticket' = ticket
        /\ result' = [result EXCEPT ![taken] = IF err THEN "fail" ELSE "ok"]
        /\ rpc = "ack" /\ ~Busy'
    BY DEF Ack, AfterLog, Busy
  <1>4. taken = Settled + 1 /\ taken \in Recs
    BY <1>1, <1>3 DEF TicketInv, Busy
  <1>5. \A c \in Recs : c # taken => result'[c] = result[c]
    BY <1>3 DEF TypeOK, DataOK
  <1>6. result'[taken] # "open"
    BY <1>3, <1>4 DEF TypeOK, DataOK
  <1>7. \A n \in Recs : n <= Settled' =>
          ticket'[n] \in 1..n /\ result'[ticket'[n]] # "open"
    <2> SUFFICES ASSUME NEW n \in Recs, n <= Settled + Len(batch)
                 PROVE  ticket[n] \in 1..n /\ result'[ticket[n]] # "open"
      BY <1>1, <1>3
    <2>1. CASE n <= Settled
      <3>1. ticket[n] \in 1..n /\ result[ticket[n]] # "open"
        BY <2>1 DEF TicketInv
      <3>2. ticket[n] # taken /\ ticket[n] \in Recs
        BY <1>1, <1>4, <2>1, <3>1
      <3> QED
        BY <1>5, <3>1, <3>2
    <2>2. CASE n > Settled
      <3>1. PICK i \in 1..Len(batch) : n = Settled + i
        <4>1. n - Settled \in 1..Len(batch) /\ n = Settled + (n - Settled)
          BY <1>1, <2>2
        <4> QED
          BY <4>1
      <3>2. batch[i] = n
        BY <3>1 DEF QueueInv
      <3>3. ticket[n] = taken
        <4>1. ticket[batch[i]] = taken
          BY Zenon DEF TicketInv
        <4> QED
          BY <3>2, <4>1, Zenon
      <3>4. taken \in 1..n
        BY <1>1, <1>4, <2>2
      <3> QED
        BY <1>6, <3>3, <3>4
    <2> QED
      BY <1>1, <2>1, <2>2
  <1>8. \A n \in Recs : n > Settled' => result'[n] = "open"
    <2> SUFFICES ASSUME NEW n \in Recs, n > Settled + Len(batch)
                 PROVE  result'[n] = "open"
      BY <1>1
    <2>1. n # taken /\ n > Settled
      BY <1>1, <1>4
    <2> QED
      BY <1>5, <2>1 DEF TicketInv
  <1>9. pending' # << >> => commit' = Settled' + Len(batch') + 1
    BY <1>1, <1>3 DEF TicketInv
  <1>10. \A i \in 1..Len(batch') : ticket'[batch'[i]] = taken'
    BY <1>1
  <1> QED
    BY <1>1, <1>2, <1>3, <1>7, <1>8, <1>9, <1>10 DEF TicketInv

\* Every step keeps the relation between records and commit objects.
LEMMA TicketStep ==
  ASSUME TypeOK, MutexInv, QueueInv, TicketInv, [Next]_vars
  PROVE  TicketInv'
  <1>1. ASSUME \A w \in Writers : ~Enqueue(w), ~Take, ~Ack
        PROVE  TicketInv'
    <2>1. Settled' = Settled /\ pending' = pending /\ batch' = batch
      BY <1>1, OthersKeepSettled
    <2>2. Enqueued' = Enqueued
      BY <1>1, OthersKeepEnqueued
    <2>3. /\ UNCHANGED <<commit, ticket, result, taken>>
          /\ Busy' => Busy
      BY <1>1, Zenon DEF Busy, Next, Apply, Reject, WriterStep, Signal, Unlock,
         Return, RecvNotify, RecvTick, RecvStop, LogStep, Write, Sync,
         SnapshotStep, Capture, SnapshotFails, WriteFiles, Truncate,
         TruncateSync, AfterSnapshot, CloseLock, CloseStop, CloseFinish, vars,
         queueVars, runVars
    <2> QED
      BY <2>1, <2>2, <2>3, Zenon DEF TicketInv
  <1> QED
    BY <1>1, TicketEnqueue, TicketTake, TicketAck

-----------------------------------------------------------------------------
(* The log and the snapshots. *)

\* The parts of a concatenation.
LEMMA ConcatParts ==
  ASSUME NEW S, NEW s \in Seq(S), NEW b \in Seq(S), NEW r, r = s \o b
  PROVE  /\ r \in Seq(S) /\ Len(r) = Len(s) + Len(b)
         /\ Len(s) \in Nat /\ Len(b) \in Nat
         /\ (r = << >>) <=> (Len(r) = 0)
         /\ (s = << >>) <=> (Len(s) = 0)
         /\ \A i \in 1..Len(s) : r[i] = s[i]
         /\ \A i \in 1..Len(b) : r[Len(s) + i] = b[i]
  <1>1. /\ r \in Seq(S) /\ Len(r) = Len(s) + Len(b)
        /\ Len(s) \in Nat /\ Len(b) \in Nat
        /\ (r = << >>) <=> (Len(r) = 0)
        /\ (s = << >>) <=> (Len(s) = 0)
    BY ConcatProperties, LenProperties, EmptySeq
  <1>2. \A i \in 1..Len(s) : r[i] = s[i]
    BY <1>1, ConcatProperties
  <1>3. \A i \in 1..Len(b) : r[Len(s) + i] = b[i]
    <2> SUFFICES ASSUME NEW i \in 1..Len(b)
                 PROVE  r[Len(s) + i] = b[i]
      OBVIOUS
    <2>1. /\ Len(s) + i \in 1..(Len(s) + Len(b)) /\ ~(Len(s) + i <= Len(s))
          /\ Len(s) + i - Len(s) = i
      BY <1>1
    <2> QED
      BY <2>1, ConcatProperties
  <1> QED
    BY <1>1, <1>2, <1>3

\* Appending the records that follow to a run of records gives a run.
LEMMA RunAppend ==
  ASSUME NEW s \in Seq(Recs), NEW b \in Seq(Recs),
         NEW top \in Nat, NEW low \in Nat,
         IsRun(s, low), Reaches(s, top, low), Follows(b, top)
  PROVE  /\ IsRun(s \o b, low)
         /\ Len(b) > 0 => Reaches(s \o b, top + Len(b), low)
  <1> USE DEF IsRun, Reaches, Follows
  <1>0. PICK r : r = s \o b
    OBVIOUS
  <1>1. /\ r \in Seq(Recs) /\ Len(r) = Len(s) + Len(b)
        /\ Len(s) \in Nat /\ Len(b) \in Nat
        /\ (r = << >>) <=> (Len(r) = 0)
        /\ (s = << >>) <=> (Len(s) = 0)
        /\ \A i \in 1..Len(s) : r[i] = s[i]
        /\ \A i \in 1..Len(b) : r[Len(s) + i] = b[i]
    BY <1>0, ConcatParts, SMTT(30)
  <1> SUFFICES /\ \A i \in 1..Len(r) : r[i] = r[1] + i - 1
               /\ r # << >> => r[1] <= low + 1
               /\ Len(b) > 0 => r # << >> /\ r[Len(r)] = top + Len(b)
    BY <1>0, Zenon
  <1>2. \A i \in 1..Len(b) : r[Len(s) + i] = top + i
    BY <1>1
  <1>3. CASE Len(s) = 0
    <2>1. \A i \in 1..Len(r) : r[i] = top + i
      BY <1>1, <1>2, <1>3
    <2>2. top <= low
      BY <1>1, <1>3
    <2>3. Len(r) > 0 => r[1] = top + 1
      BY <1>1, <2>1
    <2>4. \A i \in 1..Len(r) : r[i] = r[1] + i - 1
      <3> SUFFICES ASSUME NEW i \in 1..Len(r)
                   PROVE  r[i] = r[1] + i - 1
        OBVIOUS
      <3>1. r[i] = top + i /\ r[1] = top + 1
        BY <1>1, <2>1, <2>3
      <3> QED
        BY <3>1
    <2>5. Len(b) > 0 => r[Len(r)] = top + Len(b)
      BY <1>1, <1>3, <2>1
    <2> QED
      BY <1>1, <1>3, <2>2, <2>3, <2>4, <2>5
  <1>4. CASE Len(s) > 0
    <2>1. r[1] = s[1] /\ s[1] \in Nat /\ s[1] <= low + 1
      BY <1>1, <1>4, ElementOfSeq, SMTT(30)
    <2>2. s[Len(s)] = top /\ s[Len(s)] = s[1] + Len(s) - 1
      BY <1>1, <1>4
    <2>3. \A i \in 1..Len(r) : r[i] = r[1] + i - 1
      <3> SUFFICES ASSUME NEW i \in 1..Len(r)
                   PROVE  r[i] = r[1] + i - 1
        OBVIOUS
      <3>1. CASE i \in 1..Len(s)
        BY <1>1, <2>1, <3>1
      <3>2. CASE i > Len(s)
        <4>1. PICK j \in 1..Len(b) : i = Len(s) + j
          <5>1. i - Len(s) \in 1..Len(b) /\ i = Len(s) + (i - Len(s))
            BY <1>1, <3>2
          <5> QED
            BY <5>1
        <4>2. r[i] = top + j
          BY <1>2, <4>1
        <4>3. top = s[1] + Len(s) - 1
          BY <2>2
        <4>4. \A x, y, z \in Int : x + y - 1 + z = x + (y + z) - 1
          OBVIOUS
        <4>5. s[1] \in Int /\ Len(s) \in Int /\ j \in Int
          BY <1>1, <2>1, SMTT(30)
        <4>6. s[1] + Len(s) - 1 + j = s[1] + (Len(s) + j) - 1
          BY <4>4, <4>5, Zenon
        <4> QED
          BY <2>1, <4>1, <4>2, <4>3, <4>6, Zenon
      <3> QED
        BY <1>1, <3>1, <3>2
    <2>4. Len(b) > 0 => r[Len(r)] = top + Len(b)
      BY <1>1, <1>2
    <2> QED
      BY <1>1, <1>4, <2>1, <2>3, <2>4
  <1> QED
    BY <1>1, <1>3, <1>4

\* Log and snapshots start empty.
LEMMA LogInit == Init => LogInv
  <1> SUFFICES ASSUME Init
               PROVE  LogInv
    OBVIOUS
  <1>1. pending = << >> /\ batch = << >> /\ log = << >>
    BY DEF Init, pending, batch
  <1>2. Len(pending) = 0 /\ Len(batch) = 0 /\ Len(log) = 0
    BY <1>1, EmptySeq
  <1>3. Enqueued = 0
    BY DEF Init, Enqueued
  <1>4. Logged = 0
    BY <1>2, <1>3 DEF Settled, Logged, Init
  <1> QED
    BY <1>1, <1>2, <1>4 DEF LogInv, IsRun, Reaches, Init

\* Settled and Logged are natural numbers.
LEMMA LoggedType ==
  ASSUME TypeOK, MutexInv, QueueInv
  PROVE  /\ Settled \in Nat /\ Len(batch) \in Nat
         /\ Logged \in Nat /\ Logged <= Enqueued
  <1>1. Settled \in Nat /\ Len(batch) \in Nat /\ Len(pending) \in Nat
    BY SettledType, QueueTypes DEF QueueInv
  <1>2. Enqueued = Settled + Len(batch) + Len(pending)
    BY <1>1, EnqueuedType DEF Settled
  <1> QED
    BY <1>1, <1>2 DEF Logged

\* The steps of callers, of Close and of run's select leave the log alone.
LEMMA LogOthers ==
  ASSUME TypeOK, MutexInv, QueueInv, LogInv, [Next]_vars,
         \/ \E w \in Writers : Apply(w) \/ Reject(w) \/ WriterStep(w)
         \/ RecvNotify \/ RecvTick \/ RecvStop
         \/ CloseLock \/ CloseStop \/ CloseFinish \/ UNCHANGED vars
  PROVE  LogInv'
  <1>1. UNCHANGED <<log, synced, snap, capture, err>>
    BY Zenon DEF Apply, Reject, WriterStep, Enqueue, Signal, Unlock, Return,
       RecvNotify, RecvTick, RecvStop, CloseLock, CloseStop, CloseFinish, vars,
       diskVars, runVars
  <1>2. rpc' = rpc \/ (rpc = "select" /\ rpc' \in {"take", "snap"})
    BY Zenon DEF Apply, Reject, WriterStep, Enqueue, Signal, Unlock, Return,
       RecvNotify, RecvTick, RecvStop, CloseLock, CloseStop, CloseFinish, vars,
       runVars
  <1>3. Settled' = Settled /\ batch' = batch
    <2>1. CASE \E w \in Writers : Enqueue(w)
      BY <2>1, EnqueueSettles, EnqueueMoves
    <2>2. CASE \A w \in Writers : ~Enqueue(w)
      <3>1. ~Take /\ ~Ack
        BY <1>2, Zenon DEF Take, Ack, AfterLog
      <3> QED
        BY <2>2, <3>1, OthersKeepSettled
    <2> QED
      BY <2>1, <2>2
  <1>4. Logged' = Logged
    BY <1>2, <1>3 DEF Logged
  <1>5. applied' \in Nat /\ applied <= applied'
    BY DEF Apply, Reject, WriterStep, Enqueue, Signal, Unlock, Return,
       RecvNotify, RecvTick, RecvStop, CloseLock, CloseStop, CloseFinish, vars,
       muVars, TypeOK, DataOK
  <1>6. snap \in Nat /\ capture \in Nat /\ applied \in Nat
    BY DEF TypeOK, DataOK
  <1> QED
    BY <1>1, <1>2, <1>4, <1>5, <1>6 DEF LogInv

\* Taking a batch moves nothing in the log: the batch is still to be written.
LEMMA LogTake ==
  ASSUME TypeOK, MutexInv, QueueInv, TicketInv, LogInv, [Next]_vars, Take
  PROVE  LogInv'
  <1>1. UNCHANGED <<log, synced, snap, capture, err, applied>> /\ rpc = "take"
    BY DEF Take, diskVars, muVars
  <1>2. Settled' = Settled /\ Len(batch) = 0 /\ batch' = pending
    BY TakeSettles, TakeMoves, EmptySeq
  <1>3. Settled \in Nat
    BY LoggedType
  <1>4. ~err => Logged' = Logged
    <2>1. CASE commit = NoCommit
      <3>1. Len(pending) = 0
        BY <1>2, <1>3, <2>1, EmptySeq DEF TicketInv
      <3>2. rpc' # "write"
        BY <2>1 DEF Take, AfterLog
      <3> QED
        BY <1>1, <1>2, <1>3, <3>1, <3>2 DEF Logged
    <2>2. CASE commit # NoCommit
      <3>1. ~err => rpc' = "write"
        BY <2>2 DEF Take
      <3> QED
        BY <1>1, <1>2, <1>3, <3>1 DEF Logged
    <2> QED
      BY <2>1, <2>2
  <1>5. rpc' \notin {"sync", "files", "truncate", "truncsync"}
    BY DEF Take, AfterLog
  <1> QED
    BY <1>1, <1>4, <1>5 DEF LogInv

\* Write appends the records that follow, all of them or, failing, a part.
LEMMA LogWrite ==
  ASSUME TypeOK, MutexInv, ErrInv, QueueInv, LogInv, [Next]_vars, Write
  PROVE  LogInv'
  <1>1. /\ UNCHANGED <<synced, snap, capture, applied>>
        /\ rpc = "write" /\ ~err
    BY DEF Write, ErrInv, muVars
  <1>2. /\ Settled' = Settled /\ batch' = batch
    <2>1. (\A w \in Writers : ~Enqueue(w)) /\ ~Take /\ ~Ack
      BY DEF Write, Enqueue, Take, Ack, runVars, AfterLog
    <2> QED
      BY <2>1, OthersKeepSettled
  <1>3. /\ Settled \in Nat /\ Len(batch) \in Nat /\ Len(batch) > 0
        /\ batch \in Seq(Recs) /\ log \in Seq(Recs) /\ snap \in Nat
        /\ Logged = Settled
    BY <1>1, LoggedType, QueueTypes DEF QueueInv, Busy, TypeOK, DataOK, Logged
  <1>4. /\ IsRun(log, snap) /\ Reaches(log, Settled, snap)
        /\ Follows(batch, Settled)
    BY <1>1, <1>3 DEF LogInv, QueueInv, Follows
  <1>5. CASE log' = log \o batch /\ rpc' = "sync" /\ err' = err
    <2>1. IsRun(log', snap) /\ Reaches(log', Settled + Len(batch), snap)
      BY <1>3, <1>4, <1>5, RunAppend
    <2>2. Logged' = Settled + Len(batch)
      BY <1>2, <1>5 DEF Logged
    <2> QED
      BY <1>1, <1>5, <2>1, <2>2 DEF LogInv
  <1>6. ASSUME NEW k \in 0..Len(batch), log' = log \o SubSeq(batch, 1, k), err'
        PROVE  LogInv'
    <2>1. PICK b : b = SubSeq(batch, 1, k)
      OBVIOUS
    <2>2. b \in Seq(Recs) /\ Len(b) = k /\ \A i \in 1..k : b[i] = batch[i]
      BY <1>3, <2>1, Prefix, Zenon
    <2>3. Follows(b, Settled)
      <3> SUFFICES ASSUME NEW i \in 1..Len(b)
                   PROVE  b[i] = Settled + i
        BY DEF Follows
      <3>1. i \in 1..Len(batch) /\ i \in 1..k
        BY <1>3, <2>2
      <3>2. b[i] = batch[i] /\ batch[i] = Settled + i
        BY <1>4, <2>2, <3>1, Zenon DEF Follows
      <3> QED
        BY <3>2
    <2>4. IsRun(log', snap)
      BY <1>3, <1>4, <1>6, <2>1, <2>2, <2>3, RunAppend
    <2> QED
      BY <1>1, <1>6, <2>4 DEF LogInv
  <1> QED
    BY <1>5, <1>6 DEF Write

\* Sync makes the log durable; closing the commit object leaves it alone.
LEMMA LogSyncAck ==
  ASSUME TypeOK, MutexInv, ErrInv, QueueInv, LogInv, [Next]_vars, Sync \/ Ack
  PROVE  LogInv'
  <1>1. UNCHANGED <<log, snap, capture, applied>>
    BY DEF Sync, Ack, muVars, diskVars
  <1>2. Settled \in Nat /\ Len(batch) \in Nat
    BY LoggedType
  <1>3. Logged' = Logged
    <2>1. CASE Sync
      <3>1. (\A w \in Writers : ~Enqueue(w)) /\ ~Take /\ ~Ack
        BY <2>1 DEF Sync, Enqueue, Take, Ack, runVars, AfterLog
      <3>2. rpc = "sync" /\ rpc' = "ack"
        BY <2>1 DEF Sync
      <3> QED
        BY <3>1, <3>2, OthersKeepSettled DEF Logged
    <2>2. CASE Ack
      <3>1. rpc = "ack" /\ rpc' \in {"snap", "select"}
        BY <2>2 DEF Ack, AfterLog
      <3>2. Settled' = Settled + Len(batch) /\ Len(batch') = 0
        BY <2>2, AckSettles, AckMoves, EmptySeq
      <3> QED
        BY <1>2, <3>1, <3>2 DEF Logged
    <2> QED
      BY <2>1, <2>2
  <1>4. rpc' \in {"ack", "snap", "select"}
    BY DEF Sync, Ack, AfterLog
  <1>5. ~err' => ~err /\ synced' = Len(log)
    BY DEF Sync, Ack, LogInv, diskVars
  <1> QED
    BY <1>1, <1>3, <1>4, <1>5 DEF LogInv

\* writeSnapshot truncates the log only after files that cover it are durable.
LEMMA LogSnapshot ==
  ASSUME TypeOK, MutexInv, ErrInv, QueueInv, LogInv, [Next]_vars, SnapshotStep
  PROVE  LogInv'
  <1>1. Settled' = Settled /\ batch' = batch /\ applied' = applied
    <2>1. (\A w \in Writers : ~Enqueue(w)) /\ ~Take /\ ~Ack
      <3>1. rpc \notin {"take", "ack"} /\ wpc' = wpc
        BY Zenon DEF SnapshotStep, Capture, SnapshotFails, WriteFiles,
                     Truncate, TruncateSync, wVars
      <3>2. \A w \in Writers : ~Enqueue(w)
        BY <3>1 DEF Enqueue, TypeOK, DataOK
      <3> QED
        BY <3>1, <3>2, Zenon DEF Take, Ack
    <2>2. applied' = applied
      BY Zenon DEF SnapshotStep, Capture, SnapshotFails, WriteFiles, Truncate,
             TruncateSync, muVars
    <2> QED
      BY <2>1, <2>2, OthersKeepSettled
  <1>2. rpc # "write" /\ rpc' # "write"
    BY Zenon DEF SnapshotStep, Capture, SnapshotFails, WriteFiles, Truncate,
             TruncateSync, AfterSnapshot
  <1>3. Logged' = Logged
    BY <1>1, <1>2 DEF Logged
  <1>4. /\ Logged \in Nat /\ Logged <= applied
        /\ snap \in Nat /\ capture \in Nat /\ applied \in Nat
    BY LoggedType, EnqueuedType, SMTT(30) DEF TypeOK, DataOK
  <1>5. CASE Capture
    BY <1>1, <1>3, <1>4, <1>5 DEF Capture, AfterSnapshot, LogInv, diskVars
  <1>6. CASE SnapshotFails
    BY <1>1, <1>6 DEF SnapshotFails, LogInv, diskVars
  <1>7. CASE WriteFiles
    <2>1. rpc = "files" /\ ~err
      BY <1>7 DEF WriteFiles, ErrInv
    <2>2. snap <= capture /\ capture <= applied /\ Logged <= capture
      BY <2>1 DEF LogInv
    <2>3. /\ snap' = capture /\ UNCHANGED <<log, synced, err, capture>>
          /\ rpc' = "truncate"
      BY <1>7 DEF WriteFiles
    <2>4. log # << >> => log[1] \in Nat
      BY LenProperties, EmptySeq, ElementOfSeq DEF TypeOK, DataOK
    <2>5. IsRun(log', snap')
      BY <1>4, <2>2, <2>3, <2>4 DEF LogInv, IsRun
    <2>6. Reaches(log', Logged', snap')
      BY <1>3, <1>4, <2>1, <2>2, <2>3 DEF LogInv, Reaches
    <2> QED
      BY <1>1, <1>3, <1>4, <2>1, <2>2, <2>3, <2>5, <2>6 DEF LogInv
  <1>8. CASE Truncate
    <2>1. rpc = "truncate" /\ ~err
      BY <1>8 DEF Truncate, ErrInv
    <2>2. Logged <= snap
      BY <2>1 DEF LogInv
    <2>3. /\ log' = << >> /\ Len(log') = 0 /\ synced' = 0
          /\ UNCHANGED <<snap, err>> /\ rpc' = "truncsync"
      BY <1>8, EmptySeq DEF Truncate
    <2>4. IsRun(log', snap') /\ Reaches(log', Logged', snap')
      BY <1>3, <2>2, <2>3 DEF IsRun, Reaches
    <2> QED
      BY <1>1, <1>3, <2>2, <2>3, <2>4 DEF LogInv
  <1>9. CASE TruncateSync
    BY <1>1, <1>3, <1>9 DEF TruncateSync, AfterSnapshot, LogInv
  <1> QED
    BY <1>5, <1>6, <1>7, <1>8, <1>9 DEF SnapshotStep

\* Every step keeps LogInv.
LEMMA LogStepInv ==
  ASSUME TypeOK, MutexInv, ErrInv, QueueInv, TicketInv, LogInv, [Next]_vars
  PROVE  LogInv'
  BY LogOthers, LogTake, LogWrite, LogSyncAck, LogSnapshot, Zenon
     DEF Next, LogStep

-----------------------------------------------------------------------------
(* Durability. *)

\* Exactly the records up to DurableTop are durable.
LEMMA DurableIffBelowTop ==
  ASSUME TypeOK, IsRun(log, snap)
  PROVE  /\ DurableTop \in Nat /\ snap <= DurableTop
         /\ \A n \in Recs : Durable(n) <=> n <= DurableTop
  <1>1. /\ snap \in Nat /\ synced \in Nat /\ Len(log) \in Nat
        /\ synced <= Len(log)
        /\ \A i \in 1..Len(log) : log[i] \in Nat
    <2>1. log \in Seq(Recs) /\ snap \in Nat /\ synced \in 0..Len(log)
      BY DEF TypeOK, DataOK
    <2>2. Len(log) \in Nat
      BY <2>1, LenProperties
    <2>3. \A i \in 1..Len(log) : log[i] \in Recs
      BY <2>1, ElementOfSeq
    <2> QED
      BY <2>1, <2>2, <2>3
  <1>2. \A i \in 1..Len(log) : log[i] = log[1] + i - 1
    BY DEF IsRun
  <1>3. synced > 0 => log[1] <= snap + 1
    BY <1>1, EmptySeq DEF IsRun
  <1>4. DurableTop \in Nat /\ snap <= DurableTop
    BY <1>1 DEF DurableTop
  <1>5. ASSUME NEW n \in Recs, Durable(n)
        PROVE  n <= DurableTop
    <2>1. CASE n <= snap
      BY <1>1, <1>4, <2>1
    <2>2. ASSUME NEW i \in 1..synced, log[i] = n
          PROVE  n <= DurableTop
      <3>1. /\ i \in 1..Len(log) /\ synced \in 1..Len(log)
            /\ 1 \in 1..Len(log)
        BY <1>1
      <3>2. log[i] = log[1] + i - 1 /\ log[synced] = log[1] + synced - 1
        BY <1>2, <3>1
      <3>3. log[1] \in Nat /\ log[i] <= log[synced]
        BY <1>1, <3>1, <3>2
      <3> QED
        BY <1>1, <2>2, <3>1, <3>3 DEF DurableTop
    <2> QED
      BY <1>5, <2>1, <2>2 DEF Durable
  <1>6. ASSUME NEW n \in Recs, n <= DurableTop
        PROVE  Durable(n)
    <2>1. CASE n <= snap
      BY <2>1 DEF Durable
    <2>2. CASE n > snap
      <3>1. synced > 0 /\ n <= log[synced]
        BY <1>1, <1>6, <2>2 DEF DurableTop
      <3>2. synced \in 1..Len(log) /\ 1 \in 1..Len(log)
        BY <1>1, <3>1
      <3>3. log[synced] = log[1] + synced - 1 /\ log[1] \in Nat
        BY <1>1, <1>2, <3>2
      <3>4. PICK i \in 1..synced : n = log[1] + i - 1
        <4>1. /\ n - log[1] + 1 \in 1..synced
              /\ n = log[1] + (n - log[1] + 1) - 1
          BY <1>1, <1>3, <2>2, <3>1, <3>3, SMTT(30)
        <4> QED
          BY <4>1
      <3>5. log[i] = log[1] + i - 1
        BY <1>1, <1>2, <3>4
      <3> QED
        BY <3>4, <3>5 DEF Durable
    <2> QED
      BY <1>1, <2>1, <2>2
  <1> QED
    BY <1>4, <1>5, <1>6

\* Nothing durable is lost by a step, and only an fsync makes more durable.
LEMMA DurableTopGrows ==
  ASSUME TypeOK, ErrInv, MutexInv, QueueInv, LogInv, [Next]_vars
  PROVE  /\ DurableTop <= DurableTop'
         /\ ~Sync /\ ~WriteFiles => DurableTop' = DurableTop
  <1>0. /\ DurableTop \in Nat /\ snap \in Nat /\ synced \in Nat
        /\ Len(log) \in Nat /\ synced <= Len(log) /\ log \in Seq(Recs)
        /\ \A i \in 1..Len(log) : log[i] \in Nat
    <2>1. log \in Seq(Recs) /\ snap \in Nat /\ synced \in 0..Len(log)
      BY DEF TypeOK, DataOK
    <2>2. Len(log) \in Nat /\ \A i \in 1..Len(log) : log[i] \in Recs
      BY <2>1, LenProperties, ElementOfSeq
    <2>3. DurableTop \in Nat
      BY DurableIffBelowTop DEF LogInv
    <2> QED
      BY <2>1, <2>2, <2>3
  <1>1. CASE UNCHANGED <<log, synced, snap>>
    BY <1>0, <1>1 DEF DurableTop
  <1>2. CASE Write
    <2>1. UNCHANGED <<synced, snap>>
      BY <1>2 DEF Write
    <2>2. \A i \in 1..Len(log) : log'[i] = log[i]
      <3>1. batch \in Seq(Recs)
        BY QueueTypes
      <3>2. CASE log' = log \o batch
        BY <1>0, <3>1, <3>2, ConcatParts
      <3>3. ASSUME NEW k \in 0..Len(batch), log' = log \o SubSeq(batch, 1, k)
            PROVE  \A i \in 1..Len(log) : log'[i] = log[i]
        <4>1. SubSeq(batch, 1, k) \in Seq(Recs)
          BY <3>1, Prefix
        <4> QED
          BY <1>0, <3>3, <4>1, ConcatParts
      <3> QED
        BY <1>2, <3>2, <3>3 DEF Write
    <2>3. synced > 0 => log'[synced] = log[synced]
      BY <1>0, <2>2
    <2>4. DurableTop' = DurableTop
      BY <2>1, <2>3 DEF DurableTop
    <2> QED
      BY <1>0, <2>4
  <1>3. CASE Sync
    <2>1. UNCHANGED <<log, snap>> /\ (synced' = synced \/ synced' = Len(log))
      BY <1>3 DEF Sync
    <2>2. \A i \in 1..Len(log) : log[i] = log[1] + i - 1
      BY DEF LogInv, IsRun
    <2>3. synced > 0 => log[synced] <= log[Len(log)]
      <3> SUFFICES ASSUME synced > 0
                   PROVE  log[synced] <= log[Len(log)]
        OBVIOUS
      <3>1. synced \in 1..Len(log) /\ Len(log) \in 1..Len(log) /\ 1 \in 1..Len(log)
        BY <1>0
      <3>2. /\ log[synced] = log[1] + synced - 1
            /\ log[Len(log)] = log[1] + Len(log) - 1 /\ log[1] \in Nat
        BY <1>0, <2>2, <3>1
      <3> QED
        BY <1>0, <3>2
    <2>4. Len(log) > 0 => log[Len(log)] \in Nat
      BY <1>0
    <2>5. synced > 0 => log[synced] \in Nat
      BY <1>0
    <2> QED
      BY <1>0, <1>3, <2>1, <2>3, <2>4, <2>5 DEF DurableTop
  <1>4. CASE WriteFiles
    <2>1. /\ rpc = "files" /\ ~err
          /\ snap' = capture /\ UNCHANGED <<log, synced>>
      BY <1>4 DEF WriteFiles, ErrInv
    <2>2. snap <= capture /\ capture \in Nat
      BY <2>1 DEF LogInv, TypeOK, DataOK
    <2>3. synced > 0 => log[synced] \in Nat
      BY <1>0
    <2> QED
      BY <1>0, <1>4, <2>1, <2>2, <2>3 DEF DurableTop
  <1>5. CASE Truncate
    <2>1. rpc = "truncate" /\ ~err /\ synced' = 0 /\ snap' = snap
      BY <1>5 DEF Truncate, ErrInv
    <2>2. Logged <= snap /\ Reaches(log, Logged, snap) /\ synced = Len(log)
      BY <2>1 DEF LogInv
    <2>3. synced > 0 => log[synced] <= snap
      BY <1>0, <2>2, EmptySeq DEF Reaches
    <2>4. DurableTop = snap /\ DurableTop' = snap
      BY <1>0, <2>1, <2>3 DEF DurableTop
    <2> QED
      BY <1>0, <2>4
  <1>6. \/ UNCHANGED <<log, synced, snap>>
        \/ Write \/ Sync \/ WriteFiles \/ Truncate
    BY Zenon DEF Next, Apply, Reject, WriterStep, Enqueue, Signal, Unlock,
       Return, RecvNotify, RecvTick, RecvStop, LogStep, Take, Ack,
       SnapshotStep, Capture, SnapshotFails, TruncateSync, CloseLock,
       CloseStop, CloseFinish, vars, diskVars
  <1> QED
    BY <1>1, <1>2, <1>3, <1>4, <1>5, <1>6

\* Nothing is acknowledged at first.
LEMMA AckInit == Init => AckInv
  <1> SUFFICES ASSUME Init
               PROVE  AckInv
    OBVIOUS
  <1>1. Settled = 0
    <2>1. pending = << >> /\ batch = << >>
      BY DEF Init, pending, batch
    <2>2. Len(pending) = 0 /\ Len(batch) = 0 /\ Enqueued = 0
      BY <2>1, EmptySeq DEF Init, Enqueued
    <2> QED
      BY <2>2 DEF Settled
  <1> QED
    BY <1>1 DEF AckInv

\* A commit object is closed without an error only over durable records, and
\* what is durable stays so.
LEMMA AckStep ==
  ASSUME IInv, [Next]_vars, TypeOK', LogInv'
  PROVE  AckInv'
  <1> USE DEF IInv
  <1>1. /\ DurableTop <= DurableTop' /\ DurableTop \in Nat
        /\ DurableTop' \in Nat /\ Settled \in Nat /\ Len(batch) \in Nat
    <2>1. DurableTop' \in Nat
      <3>1. log' \in Seq(Recs) /\ synced' \in 0..Len(log') /\ snap' \in Nat
        BY DEF TypeOK, DataOK
      <3>2. synced' > 0 => log'[synced'] \in Nat
        BY <3>1, LenProperties, ElementOfSeq
      <3> QED
        BY <3>1, <3>2 DEF DurableTop
    <2> QED
      BY <2>1, DurableTopGrows, DurableIffBelowTop, LoggedType DEF LogInv
  <1>2. CASE Ack
    <2>1. /\ Settled' = Settled + Len(batch) /\ ticket' = ticket
          /\ taken = Settled + 1 /\ rpc = "ack"
          /\ result' = [result EXCEPT ![taken] = IF err THEN "fail" ELSE "ok"]
      BY <1>2, AckSettles DEF Ack, TicketInv, Busy
    <2>2. ~err => Settled + Len(batch) <= DurableTop
      <3> SUFFICES ASSUME ~err
                   PROVE  Settled + Len(batch) <= DurableTop
        OBVIOUS
      <3>1. Logged = Settled + Len(batch)
        BY <2>1 DEF Logged
      <3>2. Reaches(log, Logged, snap) /\ synced = Len(log)
        BY <2>1 DEF LogInv
      <3>3. Len(log) \in Nat /\ snap \in Nat /\ log \in Seq(Recs)
        BY LenProperties DEF TypeOK, DataOK
      <3>4. CASE log = << >>
        BY <1>1, <3>1, <3>2, <3>3, <3>4, DurableIffBelowTop DEF Reaches, LogInv
      <3>5. CASE log # << >>
        <4>1. Len(log) > 0 /\ log[Len(log)] = Logged
          BY <3>2, <3>3, <3>5, EmptySeq DEF Reaches
        <4> QED
          BY <1>1, <3>1, <3>2, <3>3, <4>1 DEF DurableTop
      <3> QED
        BY <3>4, <3>5
    <2> SUFFICES ASSUME NEW n \in Recs, n <= Settled + Len(batch),
                        result'[ticket[n]] = "ok"
                 PROVE  n <= DurableTop
      BY <1>1, <2>1 DEF AckInv
    <2>3. CASE n <= Settled
      <3>1. ticket[n] \in 1..n
        BY <2>3 DEF TicketInv
      <3>2. ticket[n] \in Recs /\ ticket[n] # taken
        BY <1>1, <2>1, <2>3, <3>1
      <3>3. result[ticket[n]] = "ok"
        BY <2>1, <3>2 DEF TypeOK, DataOK
      <3> QED
        BY <2>3, <3>3 DEF AckInv
    <2>4. CASE n > Settled
      <3>1. PICK i \in 1..Len(batch) : n = Settled + i
        <4>1. n - Settled \in 1..Len(batch) /\ n = Settled + (n - Settled)
          BY <1>1, <2>4
        <4> QED
          BY <4>1
      <3>2. batch[i] = n
        BY <3>1 DEF QueueInv
      <3>3. ticket[batch[i]] = taken
        BY Zenon DEF TicketInv
      <3>4. ticket[n] = taken
        BY <3>2, <3>3, Zenon
      <3>5. taken \in Recs
        BY <1>1, <2>1, <3>1
      <3>6. ~err
        BY <2>1, <3>4, <3>5 DEF TypeOK, DataOK
      <3> QED
        BY <1>1, <2>2, <3>6
    <2> QED
      BY <1>1, <2>3, <2>4
  <1>3. CASE \E w \in Writers : Enqueue(w)
    <2> PICK w \in Writers : Enqueue(w)
      BY <1>3
    <2>1. Settled' = Settled /\ result' = result
      BY EnqueueSettles DEF Enqueue
    <2>2. rec[w] > Settled
      <3>1. rec[w] = Enqueued + 1 /\ Enqueued \in Nat
        BY EnqueueCounts, EnqueuedType
      <3>2. Settled <= Enqueued
        BY <3>1, QueueTypes DEF Settled
      <3> QED
        BY <1>1, <3>1, <3>2
    <2>3. \A n \in Recs : n <= Settled => ticket'[n] = ticket[n]
      <3> SUFFICES ASSUME NEW n \in Recs, n <= Settled
                   PROVE  ticket'[n] = ticket[n]
        OBVIOUS
      <3>1. n # rec[w]
        BY <1>1, <2>2
      <3> QED
        BY <3>1 DEF Enqueue, TypeOK, DataOK
    <2> QED
      BY <1>1, <2>1, <2>3 DEF AckInv
  <1>4. CASE ~Ack /\ \A w \in Writers : ~Enqueue(w)
    <2>1. Settled' = Settled
      BY <1>4, TakeSettles, OthersKeepSettled
    <2>2. result' = result /\ ticket' = ticket
      BY <1>4, Zenon
         DEF Next, Apply, Reject, WriterStep, Signal, Unlock, Return,
             RecvNotify, RecvTick, RecvStop, LogStep, Take, Write, Sync,
             SnapshotStep, Capture, SnapshotFails, WriteFiles, Truncate,
             TruncateSync, CloseLock, CloseStop, CloseFinish, vars, queueVars
    <2> QED
      BY <1>1, <2>1, <2>2 DEF AckInv
  <1> QED
    BY <1>2, <1>3, <1>4

\* The inductive invariant holds in every reachable state.
THEOREM Inductive == Spec => []IInv
  <1>1. Init => IInv
    BY TypeInit, MutexInit, ErrInit, QueueInit, TicketInit, LogInit, AckInit
       DEF IInv
  <1>2. IInv /\ [Next]_vars => IInv'
    <2> SUFFICES ASSUME IInv, [Next]_vars
                 PROVE  IInv'
      OBVIOUS
    <2>1. TypeOK' /\ MutexInv' /\ ErrInv'
      <3>1. FlagsOK' /\ DataOK' /\ MutexInv' /\ ErrInv'
        BY FlagsStep, DataStep, MutexStep, ErrStep DEF IInv, TypeOK
      <3> QED
        BY <3>1 DEF TypeOK, MutexInv
    <2>2. QueueInv' /\ TicketInv' /\ LogInv'
      BY QueueStep, TicketStep, LogStepInv DEF IInv
    <2>3. AckInv'
      BY <2>1, <2>2, AckStep
    <2> QED
      BY <2>1, <2>2, <2>3 DEF IInv
  <1> QED
    BY <1>1, <1>2, PTL DEF Spec

\* A record whose commit object is closed is settled: the objects of the batch
\* and of DB.pending are open.
LEMMA ClosedIsSettled ==
  ASSUME IInv, NEW n \in Recs, n <= Enqueued, result[ticket[n]] # "open"
  PROVE  n <= Settled
  <1> USE DEF IInv
  <1>1. /\ Settled \in Nat /\ Len(batch) \in Nat /\ Len(pending) \in Nat
        /\ Enqueued = Settled + Len(batch) + Len(pending)
    <2>1. Settled \in Nat /\ Len(batch) \in Nat /\ Len(pending) \in Nat
      BY LoggedType, QueueTypes
    <2> QED
      BY <2>1, EnqueuedType DEF Settled
  <1>2. ~(n > Settled /\ n <= Settled + Len(batch))
    <2> SUFFICES ASSUME n > Settled, n <= Settled + Len(batch)
                 PROVE  FALSE
      OBVIOUS
    <2>1. PICK i \in 1..Len(batch) : n = Settled + i
      <3>1. n - Settled \in 1..Len(batch) /\ n = Settled + (n - Settled)
        BY <1>1
      <3> QED
        BY <3>1
    <2>2. batch[i] = n
      BY <2>1 DEF QueueInv
    <2>3. ticket[batch[i]] = taken
      BY Zenon DEF TicketInv
    <2>4. ticket[n] = taken
      BY <2>2, <2>3, Zenon
    <2>5. taken = Settled + 1
      BY <1>1, QueueTypes DEF TicketInv, QueueInv
    <2>6. taken \in Recs /\ taken > Settled
      BY <1>1, <2>1, <2>5
    <2>7. result[taken] = "open"
      BY <2>6 DEF TicketInv
    <2> QED
      BY <2>4, <2>7
  <1>3. ~(n > Settled + Len(batch) /\ n <= Enqueued)
    <2> SUFFICES ASSUME n > Settled + Len(batch), n <= Enqueued
                 PROVE  FALSE
      OBVIOUS
    <2>1. PICK i \in 1..Len(pending) : n = Settled + Len(batch) + i
      <3>1. /\ n - (Settled + Len(batch)) \in 1..Len(pending)
            /\ n = Settled + Len(batch) + (n - (Settled + Len(batch)))
        BY <1>1
      <3> QED
        BY <3>1
    <2>2. pending[i] = n
      BY <2>1 DEF QueueInv
    <2>3. ticket[pending[i]] = commit
      BY Zenon DEF TicketInv
    <2>4. ticket[n] = commit
      BY <2>2, <2>3, Zenon
    <2>5. commit = Settled + Len(batch) + 1
      BY <1>1, QueueTypes DEF TicketInv
    <2>6. commit \in Recs /\ commit > Settled
      BY <1>1, <2>1, <2>5
    <2>7. result[commit] = "open"
      BY <2>6 DEF TicketInv
    <2> QED
      BY <2>4, <2>7
  <1> QED
    BY <1>1, <1>2, <1>3

\* A successful Set, Update, Delete or Drop is durable when it returns and stays
\* so, whatever DB.run does to the log and the snapshots afterwards.
THEOREM AckedDurableHolds == Spec => []AckedDurable
  <1>1. IInv => AckedDurable
    <2> SUFFICES ASSUME IInv, NEW n \in Recs,
                        ticket[n] # NoCommit, result[ticket[n]] = "ok"
                 PROVE  Durable(n)
      BY DEF AckedDurable
    <2>1. n <= Enqueued
      BY EnqueuedType DEF IInv, TicketInv
    <2>2. n <= Settled
      BY <2>1, ClosedIsSettled
    <2>3. n <= DurableTop
      BY <2>2 DEF AckInv, IInv
    <2> QED
      BY <2>3, DurableIffBelowTop DEF LogInv, IInv
  <1> QED
    BY <1>1, Inductive, PTL

\* The log is written in the order of application and without a gap, so what
\* is durable is a prefix of the changes made.
THEOREM DurablePrefixHolds == Spec => []DurablePrefix
  <1>1. IInv => DurablePrefix
    <2> SUFFICES ASSUME IInv
                 PROVE  DurablePrefix
      OBVIOUS
    <2> USE DEF IInv
    <2>1. ASSUME NEW n \in Recs, Durable(n), NEW m \in 1..n
          PROVE  Durable(m)
      <3>1. n <= DurableTop /\ DurableTop \in Nat
        BY <2>1, DurableIffBelowTop DEF LogInv
      <3>2. m \in Recs /\ m <= DurableTop
        BY <3>1
      <3> QED
        BY <3>2, DurableIffBelowTop DEF LogInv
    <2>2. ASSUME NEW i \in 1..Len(log), NEW j \in 1..Len(log), i < j
          PROVE  log[i] < log[j]
      <3>1. /\ log[i] = log[1] + i - 1 /\ log[j] = log[1] + j - 1
        BY DEF LogInv, IsRun
      <3>2. log \in Seq(Recs) /\ Len(log) \in Nat
        BY LenProperties DEF TypeOK, DataOK
      <3>3. log[1] \in Recs
        BY <3>2, ElementOfSeq
      <3>4. log[1] \in Int
        BY <3>3
      <3> QED
        BY <2>2, <3>1, <3>2, <3>4
    <2> QED
      BY <2>1, <2>2 DEF DurablePrefix
  <1> QED
    BY <1>1, Inductive, PTL

-----------------------------------------------------------------------------
(* Every writer is served, and Close drains the queue. *)

\* A writer waits only for a record it has enqueued.
LEMMA WaitStep ==
  ASSUME TypeOK, MutexInv, WaitInv, [Next]_vars
  PROVE  WaitInv'
  <1>1. ASSUME NEW w \in Writers, Enqueue(w)
        PROVE  WaitInv'
    <2>1. rec[w] = Enqueued + 1 /\ Enqueued' = Enqueued + 1 /\ Enqueued \in Nat
      BY <1>1, EnqueueCounts, EnqueuedType
    <2>2. rec' = rec /\ wpc' = [wpc EXCEPT ![w] = "signal"]
      BY <1>1 DEF Enqueue
    <2> QED
      BY <2>1, <2>2 DEF WaitInv, TypeOK, DataOK
  <1>2. ASSUME \A w \in Writers : ~Enqueue(w)
        PROVE  WaitInv'
    <2>1. Enqueued' = Enqueued
      BY <1>2, OthersKeepEnqueued
    <2>2. ASSUME NEW v \in Writers, wpc'[v] \in {"signal", "unlock", "wait"}
          PROVE  rec'[v] = rec[v] /\ wpc[v] \in {"signal", "unlock", "wait"}
      <3>1. CASE UNCHANGED <<wpc, rec>>
        BY <2>2, <3>1
      <3>2. ASSUME NEW w \in Writers, Apply(w)
            PROVE  rec'[v] = rec[v] /\ wpc[v] \in {"signal", "unlock", "wait"}
        BY <2>2, <3>2 DEF Apply, TypeOK, DataOK
      <3>3. ASSUME NEW w \in Writers, Reject(w)
            PROVE  rec'[v] = rec[v] /\ wpc[v] \in {"signal", "unlock", "wait"}
        BY <2>2, <3>3 DEF Reject, TypeOK, DataOK
      <3>4. ASSUME NEW w \in Writers, Signal(w) \/ Unlock(w) \/ Return(w)
            PROVE  rec'[v] = rec[v] /\ wpc[v] \in {"signal", "unlock", "wait"}
        BY <2>2, <3>4 DEF Signal, Unlock, Return, TypeOK, DataOK
      <3>5. \/ UNCHANGED <<wpc, rec>>
            \/ \E w \in Writers : Apply(w) \/ Reject(w) \/ Signal(w) \/ Unlock(w)
                                  \/ Return(w)
        BY <1>2, Zenon
           DEF Next, WriterStep, RecvNotify, RecvTick, RecvStop, LogStep, Take,
               Write, Sync, Ack, SnapshotStep, Capture, SnapshotFails,
               WriteFiles, Truncate, TruncateSync, CloseLock, CloseStop,
               CloseFinish, vars, wVars
      <3> QED
        BY <3>1, <3>2, <3>3, <3>4, <3>5
    <2> QED
      BY <2>1, <2>2 DEF WaitInv
  <1> QED
    BY <1>1, <1>2

\* Nothing is applied or enqueued once the database is closed.
LEMMA ClosedEnqueuesNothing ==
  ASSUME TypeOK, MutexInv, closed
  PROVE  Enqueued = applied /\ \A w \in Writers : ~Apply(w) /\ ~Enqueue(w)
  <1>1. \A w \in Writers : wpc[w] # "enqueue"
    BY DEF MutexInv, LockOK, Holding
  <1> QED
    BY <1>1, Zenon DEF Enqueued, Apply, Enqueue

\* run's last round takes all there is: nobody enqueues after Close.
LEMMA DrainStep ==
  ASSUME TypeOK, MutexInv, CloseInv, DrainInv, [Next]_vars
  PROVE  DrainInv'
  <1> USE DEF DrainInv
  <1>1. CASE RecvStop
    BY <1>1 DEF RecvStop
  <1>2. CASE Take
    <2>1. pending' = << >> /\ last' = last
      BY <1>2, TakeMoves DEF Take
    <2>2. last => rpc' # "select"
      BY <1>2 DEF Take, AfterLog
    <2> QED
      BY <2>1, <2>2
  <1>3. CASE ~RecvStop /\ ~Take
    <2> SUFFICES ASSUME last'
                 PROVE  rpc' # "select" /\ (rpc' # "take" => pending' = << >>)
      OBVIOUS
    <2>1. last
      BY <1>3, Zenon
         DEF Next, Apply, Reject, WriterStep, Enqueue, Signal, Unlock, Return,
             RecvNotify, RecvTick, LogStep, Write, Sync, Ack, SnapshotStep,
             Capture, SnapshotFails, WriteFiles, Truncate, TruncateSync,
             CloseLock, CloseStop, CloseFinish, vars, runVars
    <2>2. \A w \in Writers : ~Enqueue(w)
      BY <2>1, ClosedEnqueuesNothing DEF CloseInv
    <2>3. pending' = pending
      BY <1>3, <2>2, OthersKeepQueue, AckMoves, Zenon DEF Next, WriterStep, LogStep
    <2>4. rpc' # "select" /\ (rpc' # "take" => rpc # "take")
      <3>1. CASE Ack
        BY <2>1, <3>1 DEF Ack, AfterLog
      <3>2. CASE ~Ack
        BY <1>3, <2>1, <3>2, Zenon
           DEF Next, Apply, Reject, WriterStep, Enqueue, Signal, Unlock, Return,
               RecvNotify, RecvTick, LogStep, Write, Sync, SnapshotStep,
               Capture, SnapshotFails, WriteFiles, Truncate, TruncateSync,
               AfterSnapshot, CloseLock, CloseStop, CloseFinish, vars, runVars
      <3> QED
        BY <3>1, <3>2
    <2> QED
      BY <2>1, <2>3, <2>4
  <1> QED
    BY <1>1, <1>2, <1>3

\* Close's stages, the writers' records and the drained queue, in every
\* reachable state.
THEOREM Draining == Spec => [](CloseInv /\ WaitInv /\ DrainInv)
  <1>1. Init => CloseInv /\ WaitInv /\ DrainInv
    <2>1. Init => WaitInv
      BY DEF Init, WaitInv
    <2>2. Init => DrainInv
      BY DEF Init, DrainInv
    <2> QED
      BY <2>1, <2>2, CloseInit
  <1>2. /\ TypeOK /\ MutexInv /\ CloseInv /\ WaitInv /\ DrainInv
        /\ [Next]_vars
        => (CloseInv /\ WaitInv /\ DrainInv)'
    BY CloseStepInv, WaitStep, DrainStep
  <1> QED
    BY <1>1, <1>2, TypeCorrect, PTL DEF Spec

\* No wakeup is lost between a non-blocking send on DB.notify and run's select,
\* and run does not end with records queued: its last round drains the queue.
THEOREM WakeupHolds == Spec => []NoLostWakeup
  <1>1. Init => Wakeup
    BY DEF Init, Wakeup, pending
  <1>2. TypeOK /\ Wakeup /\ [Next]_vars => Wakeup'
    BY WakeupStep
  <1>3. Wakeup /\ CloseInv /\ DrainInv => NoLostWakeup
    BY DEF NoLostWakeup, Wakeup, CloseInv, DrainInv
  <1> QED
    BY <1>1, <1>2, <1>3, TypeCorrect, Draining, PTL DEF Spec

\* A writer that waits on an open commit object is in the queue or in the
\* batch under that object, and DB.run has not ended: Close strands nobody.
THEOREM NoStrandedWriterHolds == Spec => []NoStrandedWriter
  <1>1. IInv /\ WaitInv /\ DrainInv /\ CloseInv => NoStrandedWriter
    <2> SUFFICES ASSUME IInv, WaitInv, DrainInv, CloseInv, NEW w \in Writers,
                        wpc[w] = "wait", result[ticket[rec[w]]] = "open"
                 PROVE  /\ rpc # "done"
                        /\ \/ /\ commit = ticket[rec[w]]
                              /\ \E j \in 1..Len(pending) : pending[j] = rec[w]
                           \/ /\ taken = ticket[rec[w]]
                              /\ rpc \in {"write", "sync", "ack"}
                              /\ \E j \in 1..Len(batch) : batch[j] = rec[w]
      BY Zenon DEF NoStrandedWriter
    <2> USE DEF IInv
    <2>1. /\ Settled \in Nat /\ Len(batch) \in Nat /\ Len(pending) \in Nat
          /\ Enqueued = Settled + Len(batch) + Len(pending)
      <3>1. Settled \in Nat /\ Len(batch) \in Nat /\ Len(pending) \in Nat
        BY LoggedType, QueueTypes
      <3> QED
        BY <3>1, EnqueuedType DEF Settled
    <2>2. PICK n \in Recs : n = rec[w] /\ n <= Enqueued
      BY <2>1, EnqueuedType DEF WaitInv, TypeOK, DataOK
    <2>3. n > Settled
      BY <2>1, <2>2 DEF TicketInv
    <2>4. CASE n <= Settled + Len(batch)
      <3>1. PICK i \in 1..Len(batch) : n = Settled + i
        <4>1. n - Settled \in 1..Len(batch) /\ n = Settled + (n - Settled)
          BY <2>1, <2>3, <2>4
        <4> QED
          BY <4>1
      <3>2. batch[i] = n
        BY <3>1 DEF QueueInv
      <3>3. ticket[batch[i]] = taken
        BY Zenon DEF TicketInv
      <3>4. rpc \in {"write", "sync", "ack"}
        BY <2>1, <3>1, QueueTypes DEF QueueInv, Busy
      <3> QED
        BY <2>2, <3>2, <3>3, <3>4, Zenon
    <2>5. CASE n > Settled + Len(batch)
      <3>1. PICK i \in 1..Len(pending) : n = Settled + Len(batch) + i
        <4>1. /\ n - (Settled + Len(batch)) \in 1..Len(pending)
              /\ n = Settled + Len(batch) + (n - (Settled + Len(batch)))
          BY <2>1, <2>2, <2>5
        <4> QED
          BY <4>1
      <3>2. pending[i] = n
        BY <3>1 DEF QueueInv
      <3>3. ticket[pending[i]] = commit
        BY Zenon DEF TicketInv
      <3>4. pending # << >>
        BY <2>1, <3>1, QueueTypes
      <3>5. rpc # "done"
        BY <3>4 DEF DrainInv, CloseInv
      <3> QED
        BY <2>2, <3>2, <3>3, <3>5, Zenon
    <2> QED
      BY <2>1, <2>2, <2>4, <2>5
  <1> QED
    BY <1>1, Inductive, Draining, PTL

-----------------------------------------------------------------------------
(* A Close that reports no error has emptied the log into the snapshots. *)

\* DB.size keeps counting the records of the log.
LEMMA SizeStep ==
  ASSUME TypeOK, MutexInv, ErrInv, QueueInv, LogInv, SizeInv, [Next]_vars
  PROVE  SizeInv'
  <1>1. Len(log) \in Nat /\ size \in Nat /\ Len(batch) \in Nat
    BY QueueTypes, LenProperties DEF TypeOK, DataOK
  <1>2. CASE Write
    <2> SUFFICES ASSUME ~err'
                 PROVE  /\ rpc' = "sync"
                        /\ size' + Len(batch') = Len(log')
      BY DEF SizeInv
    <2>1. log' = log \o batch /\ rpc' = "sync" /\ err' = err
      BY <1>2 DEF Write
    <2>2. size' = size /\ size = Len(log)
      BY <1>2, <2>1 DEF Write, SizeInv
    <2>3. batch' = batch
      BY <1>2, OthersKeepQueue
    <2>4. Len(log \o batch) = Len(log) + Len(batch)
      BY QueueTypes, ConcatProperties DEF TypeOK, DataOK
    <2> QED
      BY <1>1, <2>1, <2>2, <2>3, <2>4
  <1>3. CASE Sync
    <2> SUFFICES ASSUME ~err'
                 PROVE  size' = Len(log')
      BY <1>3 DEF SizeInv, Sync
    <2>1. ~err /\ size' = size + Len(batch) /\ log' = log
      BY <1>3 DEF Sync, ErrInv
    <2> QED
      BY <1>3, <2>1 DEF SizeInv, Sync
  <1>4. CASE Truncate
    BY <1>4 DEF Truncate, SizeInv
  <1>5. CASE TruncateSync
    <2>1. size' = 0 /\ log' = log /\ err' = err /\ rpc' \in {"done", "select"}
      BY <1>5 DEF TruncateSync, AfterSnapshot
    <2>2. ~err => Len(log) = 0
      BY <1>5, EmptySeq DEF LogInv, TruncateSync
    <2> QED
      BY <2>1, <2>2 DEF SizeInv
  <1>6. CASE ~Write /\ ~Sync /\ ~Truncate /\ ~TruncateSync
    <2>1. size' = size /\ log' = log
      BY <1>6, Zenon
         DEF Next, Apply, Reject, WriterStep, Enqueue, Signal, Unlock, Return,
             RecvNotify, RecvTick, RecvStop, LogStep, Take, Ack, SnapshotStep,
             Capture, SnapshotFails, WriteFiles, CloseLock, CloseStop,
             CloseFinish, vars, diskVars
    <2>2. CASE SnapshotFails
      BY <2>2 DEF SnapshotFails, SizeInv
    <2>3. CASE Take \/ Ack
      <3>1. rpc' \notin {"sync", "truncsync"} /\ rpc \notin {"sync", "truncsync"}
        BY <2>3 DEF Take, Ack, AfterLog
      <3>2. err' = err
        BY <2>3 DEF Take, Ack
      <3> QED
        BY <2>1, <3>1, <3>2 DEF SizeInv
    <2>4. CASE Capture
      <3>1. rpc' \in {"files", "done", "select"} /\ rpc = "snap" /\ err' = err
        BY <2>4 DEF Capture, AfterSnapshot
      <3> QED
        BY <2>1, <3>1 DEF SizeInv
    <2>5. CASE RecvNotify \/ RecvTick \/ RecvStop \/ WriteFiles
      <3>1. rpc' \in {"take", "snap", "truncate"} /\ rpc \in {"select", "files"}
        BY <2>5 DEF RecvNotify, RecvTick, RecvStop, WriteFiles
      <3>2. err' = err
        BY <2>5 DEF RecvNotify, RecvTick, RecvStop, WriteFiles
      <3> QED
        BY <2>1, <3>1, <3>2 DEF SizeInv
    <2>6. CASE UNCHANGED <<rpc, err>> /\ batch' = batch
      BY <2>1, <2>6 DEF SizeInv
    <2>7. ASSUME NEW w \in Writers,
                 Apply(w) \/ Reject(w) \/ WriterStep(w)
          PROVE  UNCHANGED <<rpc, err>> /\ batch' = batch
      <3>1. UNCHANGED <<rpc, err>>
        BY <2>7, Zenon DEF Apply, Reject, WriterStep, Enqueue, Signal, Unlock,
           Return, runVars
      <3>2. batch' = batch
        BY <2>7, OthersKeepQueue, EnqueueMoves, Zenon DEF WriterStep
      <3> QED
        BY <3>1, <3>2
    <2>8. ASSUME CloseLock \/ CloseStop \/ CloseFinish \/ UNCHANGED vars
          PROVE  UNCHANGED <<rpc, err>> /\ batch' = batch
      <3>1. UNCHANGED <<rpc, err>>
        BY <2>8, Zenon DEF CloseLock, CloseStop, CloseFinish, runVars, vars
      <3>2. batch' = batch
        BY <2>8, OthersKeepQueue, Zenon
      <3> QED
        BY <3>1, <3>2
    <2> QED
      BY <1>6, <2>2, <2>3, <2>4, <2>5, <2>6, <2>7, <2>8, Zenon
         DEF Next, LogStep, SnapshotStep
  <1> QED
    BY <1>2, <1>3, <1>4, <1>5, <1>6

\* With the queue drained, a log that is empty says that the snapshots cover
\* every record that was ever applied.
LEMMA NothingLeft ==
  ASSUME TypeOK, MutexInv, QueueInv, LogInv, SizeInv, CloseInv, DrainInv,
         last, ~err, rpc = "snap", size = 0
  PROVE  snap = applied /\ log = << >>
  <1>1. Len(log) = 0
    BY DEF SizeInv
  <1>2. log = << >>
    BY <1>1, EmptySeq DEF TypeOK, DataOK
  <1>3. Logged <= snap
    BY <1>2 DEF LogInv, Reaches
  <1>4. pending = << >> /\ Len(pending) = 0
    BY EmptySeq DEF DrainInv
  <1>5. Enqueued = applied
    BY ClosedEnqueuesNothing DEF CloseInv
  <1>6. Logged = applied
    <2>1. Logged = Settled + Len(batch)
      BY DEF Logged
    <2>2. Len(batch) \in Nat /\ applied \in Nat
      BY QueueTypes DEF TypeOK, DataOK
    <2> QED
      BY <1>4, <1>5, <2>1, <2>2 DEF Settled
  <1>7. snap \in Nat /\ applied \in Nat /\ snap <= applied
    BY DEF LogInv, TypeOK, DataOK
  <1> QED
    BY <1>2, <1>3, <1>6, <1>7

\* run's last snapshot covers every record.
LEMMA SealStep ==
  ASSUME TypeOK, MutexInv, ErrInv, QueueInv, LogInv, SizeInv, CloseInv,
         DrainInv, SealInv, [Next]_vars
  PROVE  SealInv'
  <1>1. CASE Capture
    <2> SUFFICES ASSUME last', ~err'
                 PROVE  \/ rpc' = "files" /\ capture' = applied'
                        \/ rpc' = "done" /\ snap' = applied' /\ log' = << >>
      BY DEF SealInv
    <2>1. /\ last /\ ~err /\ rpc = "snap"
          /\ applied' = applied /\ snap' = snap /\ log' = log
      BY <1>1 DEF Capture, diskVars
    <2>2. CASE mu = Free /\ ~dirty /\ size = 0 /\ rpc' = AfterSnapshot
      BY <2>1, <2>2, NothingLeft DEF AfterSnapshot
    <2>3. CASE capture' = applied /\ rpc' = "files"
      BY <2>1, <2>3
    <2> QED
      BY <1>1, <2>1, <2>2, <2>3 DEF Capture
  <1>2. CASE SnapshotFails
    BY <1>2 DEF SnapshotFails, SealInv
  <1>3. CASE WriteFiles
    BY <1>3 DEF WriteFiles, SealInv, muVars
  <1>4. CASE Truncate
    BY <1>4 DEF Truncate, SealInv, muVars
  <1>5. CASE TruncateSync
    <2>1. ~err => log = << >>
      BY <1>5 DEF TruncateSync, LogInv
    <2> QED
      BY <1>5, <2>1 DEF TruncateSync, AfterSnapshot, SealInv, muVars
  <1>6. CASE LogStep \/ RecvNotify \/ RecvTick \/ RecvStop
    <2>1. rpc' \in {"snap", "select", "write", "ack", "sync", "take"}
      BY <1>6 DEF LogStep, Take, Write, Sync, Ack, AfterLog, RecvNotify,
                  RecvTick, RecvStop
    <2> QED
      BY <2>1 DEF SealInv
  <1>7. ASSUME NEW w \in Writers, Apply(w)
        PROVE  SealInv'
    <2>1. ~closed /\ last' = last
      BY <1>7 DEF Apply, runVars
    <2> QED
      BY <2>1 DEF SealInv, CloseInv
  <1>8. CASE UNCHANGED <<rpc, last, err, capture, applied, snap, log>>
    BY <1>8 DEF SealInv
  <1>9. ASSUME \/ \E w \in Writers : Reject(w) \/ WriterStep(w)
               \/ CloseLock \/ CloseStop \/ CloseFinish \/ UNCHANGED vars
        PROVE  UNCHANGED <<rpc, last, err, capture, applied, snap, log>>
    BY <1>9, Zenon DEF Reject, WriterStep, Enqueue, Signal, Unlock, Return,
       CloseLock, CloseStop, CloseFinish, vars, runVars, muVars, diskVars
  <1> QED
    BY <1>1, <1>2, <1>3, <1>4, <1>5, <1>6, <1>7, <1>8, <1>9, Zenon
       DEF Next, SnapshotStep

\* SizeInv and SealInv hold in every reachable state.
THEOREM Sealing == Spec => [](SizeInv /\ SealInv)
  <1>1. Init => SizeInv /\ SealInv
    <2>1. Init => SizeInv
      BY EmptySeq DEF Init, SizeInv
    <2>2. Init => SealInv
      BY DEF Init, SealInv
    <2> QED
      BY <2>1, <2>2
  <1>2. /\ IInv /\ CloseInv /\ WaitInv /\ DrainInv /\ SizeInv /\ SealInv
        /\ [Next]_vars
        => (SizeInv /\ SealInv)'
    BY SizeStep, SealStep DEF IInv
  <1> QED
    BY <1>1, <1>2, Inductive, Draining, PTL DEF Spec

\* A Close that returns no error leaves every applied record in durable
\* snapshot files and an empty wal.log, and no caller was told of a failure.
THEOREM CleanCloseHolds == Spec => []CleanClose
  <1>1. IInv /\ CloseInv /\ SealInv => CleanClose
    <2> SUFFICES ASSUME IInv, CloseInv, SealInv, cpc = "closed", ~closeErr
                 PROVE  /\ snap = applied /\ log = << >>
                        /\ \A c \in Recs : result[c] # "fail"
      BY DEF CleanClose
    <2>1. rpc = "done" /\ last /\ ~err
      BY DEF CloseInv
    <2> QED
      BY <2>1 DEF SealInv, IInv, ErrInv
  <1> QED
    BY <1>1, Inductive, Draining, Sealing, PTL
-----------------------------------------------------------------------------
(***************************************************************************)
(* That the write path implements DurableWrites, for any number of writers *)
(* and records: KeepsPromise, step by step.                                *)
(*                                                                         *)
(* A call is submitted when its record is applied, and it has its outcome  *)
(* when commit.wait returns.  Records become durable when fsync of the log *)
(* or of the snapshot files returns; every other step of run, of enqueue   *)
(* and of Close is invisible.  The invariants above give what each         *)
(* abstract step demands; DoneInv adds that the outcome of a call which    *)
(* has returned cannot change any more.                                    *)
(***************************************************************************)

\* The record of a call that has returned is settled.
DoneInv ==
  \A w \in Writers : wpc[w] = "idle" /\ rec[w] # 0 => rec[w] \in 1..Settled

\* What the refinement rests on.
RInv == IInv /\ CloseInv /\ WaitInv /\ SealInv /\ DoneInv

\* The outcome of a settled record is fixed: enqueue and close(commit.done)
\* touch later records only.
LEMMA SettledFixed ==
  ASSUME IInv, [Next]_vars, NEW n \in 1..Settled
  PROVE  /\ n \in Recs /\ ticket'[n] = ticket[n]
         /\ result'[ticket[n]] = result[ticket[n]]
  <1> USE DEF IInv
  <1>1. /\ Settled \in Nat /\ Settled <= Enqueued /\ Enqueued <= MaxRecs /\ Enqueued \in Nat
    <2>1. Settled \in Nat /\ Len(batch) \in Nat /\ Len(pending) \in Nat
      BY LoggedType, QueueTypes
    <2>2. Enqueued \in Nat /\ Enqueued <= applied /\ applied <= MaxRecs /\ applied \in Nat
      BY EnqueuedType DEF TypeOK, DataOK
    <2>3. QED
      BY <2>1, <2>2 DEF Settled
  <1>2. n \in Recs /\ n <= Settled
    BY <1>1
  <1>3. ticket[n] \in 1..n
    BY <1>2 DEF TicketInv
  <1>4. ASSUME NEW w \in Writers, Enqueue(w)
        PROVE  ticket'[n] = ticket[n] /\ result' = result
    <2>1. rec[w] = Enqueued + 1
      BY <1>4, EnqueueCounts
    <2>2. ticket \in [Recs -> 0..MaxRecs]
      BY DEF TypeOK, DataOK
    <2>3. rec[w] # n
      BY <1>1, <1>2, <2>1
    <2>4. QED
      BY <1>2, <1>4, <2>2, <2>3 DEF Enqueue
  <1>5. CASE Ack
    <2>1. taken = Settled + 1
      BY <1>5 DEF Ack, TicketInv, Busy
    <2>2. result \in [Recs -> {"open", "ok", "fail"}] /\ taken # ticket[n] /\ ticket' = ticket
      BY <1>1, <1>2, <1>3, <1>5, <2>1, SMTT(30) DEF Ack, TypeOK, DataOK
    <2>3. QED
      BY <1>2, <1>5, <2>2 DEF Ack
  <1>6. \/ ticket' = ticket /\ result' = result
        \/ Ack \/ \E w \in Writers : Enqueue(w)
    BY Zenon DEF Next, Apply, Reject, WriterStep, Signal, Unlock,
       Return, RecvNotify, RecvTick, RecvStop, LogStep, Take, Write, Sync,
       SnapshotStep, Capture, SnapshotFails, WriteFiles, Truncate, TruncateSync,
       CloseLock, CloseStop, CloseFinish, vars, queueVars
  <1>7. QED
    BY <1>2, <1>4, <1>5, <1>6

\* A caller that has its answer has it for a record that is settled.
LEMMA DoneStep ==
  ASSUME IInv, WaitInv, DoneInv, [Next]_vars
  PROVE  DoneInv'
  <1> USE DEF IInv
  <1>1. Settled \in Nat /\ Settled' \in Nat /\ Settled <= Settled'
    <2>1. Settled \in Nat /\ Len(batch) \in Nat
      BY LoggedType
    <2>2. ASSUME NEW w \in Writers, Enqueue(w)
          PROVE  Settled' = Settled
      BY <2>2, EnqueueSettles
    <2>3. CASE Take
      BY <2>1, <2>3, TakeSettles
    <2>4. CASE Ack
      BY <2>1, <2>4, AckSettles
    <2>5. QED
      BY <2>1, <2>2, <2>3, <2>4, OthersKeepSettled
  <1>2. ASSUME NEW w \in Writers, wpc'[w] = "idle", rec'[w] # 0,
               wpc[w] = "idle", rec'[w] = rec[w]
        PROVE  rec'[w] \in 1..Settled'
    BY <1>1, <1>2 DEF DoneInv
  <1>3. ASSUME NEW w \in Writers, Return(w)
        PROVE  rec'[w] \in 1..Settled'
    <2>1. rec[w] \in 1..Enqueued /\ rec[w] \in Recs /\ Enqueued \in Nat
      BY <1>3, EnqueuedType, SMTT(30) DEF Return, WaitInv, MutexInv, TypeOK, DataOK
    <2>2. rec[w] <= Settled
      BY <1>3, <2>1, ClosedIsSettled DEF Return
    <2>3. QED
      BY <1>1, <1>3, <2>1, <2>2 DEF Return
  <1>4. ASSUME NEW w \in Writers, wpc'[w] = "idle", rec'[w] # 0, ~Return(w)
        PROVE  wpc[w] = "idle" /\ rec'[w] = rec[w]
    <2>1. wpc \in [Writers -> {"idle", "enqueue", "signal", "unlock", "wait"}]
          /\ rec \in [Writers -> 0..MaxRecs]
      BY DEF TypeOK, DataOK
    <2>2. ASSUME NEW v \in Writers, Apply(v) \/ Reject(v) \/ WriterStep(v)
          PROVE  wpc[w] = "idle" /\ rec'[w] = rec[w]
      BY <1>4, <2>1, <2>2 DEF Apply, Reject, WriterStep, Enqueue, Signal, Unlock, Return
    <2>3. UNCHANGED wVars \/ \E v \in Writers : Apply(v) \/ Reject(v) \/ WriterStep(v)
      BY Zenon DEF Next, RecvNotify, RecvTick, RecvStop, LogStep, Take, Write, Sync, Ack,
         SnapshotStep, Capture, SnapshotFails, WriteFiles, Truncate, TruncateSync,
         CloseLock, CloseStop, CloseFinish, vars
    <2>4. QED
      BY <1>4, <2>2, <2>3 DEF wVars
  <1>5. QED
    BY <1>2, <1>3, <1>4 DEF DoneInv

\* RInv holds in every reachable state.
THEOREM RInvHolds == Spec => []RInv
  <1>1. Init => DoneInv
    BY DEF Init, DoneInv
  <1>2. IInv /\ WaitInv /\ DoneInv /\ [Next]_vars => DoneInv'
    BY DoneStep
  <1>3. QED
    BY <1>1, <1>2, Inductive, Draining, Sealing, PTL DEF Spec, RInv

-----------------------------------------------------------------------------
(* The steps, one by one *)

\* Outcomes change only for a caller that starts or ends a call.
LEMMA OutcomeOfOthers ==
  ASSUME RInv, [Next]_vars, NEW w \in Writers,
         (wpc[w] = "idle") = (wpc'[w] = "idle"), rec'[w] = rec[w]
  PROVE  Outcome'[w] = Outcome[w]
  <1>1. CASE wpc[w] # "idle" \/ rec[w] = 0
    BY <1>1 DEF Outcome
  <1>2. CASE wpc[w] = "idle" /\ rec[w] # 0
    <2>1. rec[w] \in 1..Settled
      BY <1>2 DEF RInv, DoneInv
    <2>2. ticket'[rec[w]] = ticket[rec[w]] /\ result'[ticket[rec[w]]] = result[ticket[rec[w]]]
      BY <2>1, SettledFixed DEF RInv
    <2>3. QED
      BY <1>2, <2>2 DEF Outcome
  <1>3. QED
    BY <1>1, <1>2

\* A step in which no call begins, ends or gets a record changes no outcome.
LEMMA OutcomeKept ==
  ASSUME RInv, [Next]_vars, rec' = rec,
         \A w \in Writers : (wpc[w] = "idle") = (wpc'[w] = "idle")
  PROVE  Outcome' = Outcome
  <1>1. \A w \in Writers : Outcome'[w] = Outcome[w]
    BY OutcomeOfOthers
  <1>2. QED
    BY <1>1, Zenon DEF Outcome

\* A step of one caller changes at most that caller's outcome.
LEMMA OutcomeSet ==
  ASSUME RInv, [Next]_vars, NEW w \in Writers,
         \A v \in Writers \ {w} : wpc'[v] = wpc[v] /\ rec'[v] = rec[v]
  PROVE  Outcome' = [Outcome EXCEPT ![w] = Outcome'[w]]
  <1>1. \A v \in Writers \ {w} : Outcome'[v] = Outcome[v]
    BY OutcomeOfOthers
  <1>2. /\ Outcome = [v \in Writers |-> Outcome[v]]
        /\ Outcome' = [v \in Writers |-> Outcome'[v]]
    BY DEF Outcome
  <1>3. QED
    BY <1>1, <1>2

\* A caller that is idle does not wait.
LEMMA IdleOutcome ==
  ASSUME RInv, NEW w \in Writers, wpc[w] = "idle"
  PROVE  Outcome[w] # "wait"
  <1>1. CASE rec[w] = 0
    BY <1>1 DEF Outcome
  <1>2. CASE rec[w] # 0
    <2>1. rec[w] \in 1..Settled
      BY <1>2 DEF RInv, DoneInv
    <2>2. Settled <= MaxRecs /\ Settled \in Nat
      <3>1. Settled \in Nat /\ Len(batch) \in Nat /\ Len(pending) \in Nat
        BY LoggedType, QueueTypes DEF RInv, IInv
      <3>2. Enqueued \in Nat /\ Enqueued <= applied /\ applied <= MaxRecs /\ applied \in Nat
        BY EnqueuedType, SMTT(30) DEF RInv, IInv, TypeOK, DataOK
      <3>3. QED
        BY <3>1, <3>2 DEF Settled
    <2>3. rec[w] \in Recs /\ ticket[rec[w]] \in Recs
      BY <2>1, <2>2 DEF RInv, IInv, TicketInv
    <2>4. result[ticket[rec[w]]] \in {"open", "ok", "fail"}
      BY <2>3 DEF RInv, IInv, TypeOK, DataOK
    <2>5. QED
      BY <1>2, <2>4 DEF Outcome
  <1>3. QED
    BY <1>1, <1>2

\* Lock, test of closed and apply: the change is submitted.
LEMMA ApplySubmits ==
  ASSUME RInv, [Next]_vars, NEW w \in Writers, Apply(w)
  PROVE  Promise!Submit(w)
  <1>1. DurableTop' = DurableTop
    BY DEF Apply, diskVars, DurableTop
  <1>2. Phase = "open" /\ Phase' = Phase
    BY DEF Apply, closeVars, RInv, CloseInv, Phase
  <1>3. Outcome[w] # "wait"
    BY IdleOutcome DEF Apply
  <1>4. /\ wpc \in [Writers -> {"idle", "enqueue", "signal", "unlock", "wait"}]
        /\ rec \in [Writers -> 0..MaxRecs]
    BY DEF RInv, IInv, TypeOK, DataOK
  <1>5. Outcome'[w] = "wait"
    <2>1. wpc'[w] = "enqueue" /\ rec'[w] # 0
      BY <1>4 DEF Apply, RInv, IInv, TypeOK, DataOK
    <2>2. QED
      BY <2>1 DEF Outcome
  <1>6. Outcome' = [Outcome EXCEPT ![w] = "wait"]
    BY <1>4, <1>5, OutcomeSet DEF Apply
  <1>7. QED
    BY <1>1, <1>2, <1>3, <1>6 DEF Apply, runVars, Promise!Submit

\* A call on a closed database.
LEMMA RejectRefuses ==
  ASSUME RInv, [Next]_vars, NEW w \in Writers, Reject(w)
  PROVE  Promise!Refuse(w)
  <1>1. DurableTop' = DurableTop
    BY DEF Reject, diskVars, DurableTop
  <1>2. Phase # "open" /\ Phase' = Phase
    BY DEF Reject, closeVars, RInv, CloseInv, Phase
  <1>3. Outcome[w] # "wait"
    BY IdleOutcome DEF Reject
  <1>4. /\ wpc \in [Writers -> {"idle", "enqueue", "signal", "unlock", "wait"}]
        /\ rec \in [Writers -> 0..MaxRecs]
    BY DEF RInv, IInv, TypeOK, DataOK
  <1>5. Outcome'[w] = "none"
    BY <1>4 DEF Reject, Outcome
  <1>6. Outcome' = [Outcome EXCEPT ![w] = "none"]
    BY <1>4, <1>5, OutcomeSet DEF Reject
  <1>7. QED
    BY <1>1, <1>2, <1>3, <1>6 DEF Reject, runVars, muVars, Promise!Refuse

\* commit.wait returns: a success is a durable change, a failure a kept error.
LEMMA ReturnAnswers ==
  ASSUME RInv, [Next]_vars, NEW w \in Writers, Return(w)
  PROVE  Promise!Succeed(w) \/ Promise!Fail(w)
  <1>1. DurableTop' = DurableTop /\ Phase' = Phase
    BY DEF Return, diskVars, closeVars, DurableTop, Phase
  <1>2. /\ wpc \in [Writers -> {"idle", "enqueue", "signal", "unlock", "wait"}]
        /\ rec \in [Writers -> 0..MaxRecs]
        /\ ticket \in [Recs -> 0..MaxRecs]
        /\ result \in [Recs -> {"open", "ok", "fail"}]
    BY DEF RInv, IInv, TypeOK, DataOK
  <1>3. rec[w] \in Recs /\ rec[w] <= Enqueued
    BY EnqueuedType DEF Return, RInv, IInv, WaitInv, MutexInv, TypeOK, DataOK
  <1>4. rec[w] <= Settled
    BY <1>3, ClosedIsSettled DEF Return, RInv
  <1>5. ticket[rec[w]] \in Recs
    BY <1>3, <1>4 DEF RInv, IInv, TicketInv
  <1> DEFINE r == result[ticket[rec[w]]]
  <1>6. r \in {"ok", "fail"}
    BY <1>2, <1>5 DEF Return
  <1>7. Outcome[w] = "wait" /\ Outcome'[w] = r
    BY <1>2, <1>3 DEF Return, Outcome, queueVars
  <1>8. Outcome' = [Outcome EXCEPT ![w] = r]
    BY <1>2, <1>7, OutcomeSet DEF Return
  <1>9. r = "ok" => rec[w] <= DurableTop
    BY <1>3, <1>4 DEF RInv, IInv, AckInv
  <1>10. r = "fail" => err
    BY <1>5 DEF RInv, IInv, ErrInv
  <1> HIDE DEF r
  <1>11. CASE r = "ok"
    BY <1>1, <1>7, <1>8, <1>9, <1>11 DEF Return, runVars, muVars, Promise!Succeed
  <1>12. CASE r = "fail"
    BY <1>1, <1>7, <1>8, <1>10, <1>12 DEF Return, runVars, muVars, Promise!Fail
  <1>13. QED
    BY <1>6, <1>11, <1>12

\* The steps that make nothing durable and end no call are invisible, or bring
\* an error that run keeps.
LEMMA InvisibleSteps ==
  ASSUME RInv, [Next]_vars, ~Sync, ~WriteFiles, ~CloseLock, ~CloseFinish,
         \A w \in Writers : ~Apply(w) /\ ~Reject(w) /\ ~Return(w)
  PROVE  UNCHANGED Promise!vars \/ Promise!Break
  <1>1. DurableTop' = DurableTop
    BY DurableTopGrows DEF RInv, IInv
  <1>2. applied' = applied /\ rec' = rec
    BY Zenon DEF Next, WriterStep, Enqueue, Signal, Unlock, RecvNotify, RecvTick, RecvStop,
       LogStep, Take, Write, Ack, SnapshotStep, Capture, SnapshotFails, Truncate,
       TruncateSync, CloseStop, vars, muVars, wVars
  <1>3. \A w \in Writers : (wpc[w] = "idle") = (wpc'[w] = "idle")
    <2>1. wpc \in [Writers -> {"idle", "enqueue", "signal", "unlock", "wait"}]
      BY DEF RInv, IInv, TypeOK, DataOK
    <2>2. ASSUME NEW v \in Writers, Enqueue(v) \/ Signal(v) \/ Unlock(v)
          PROVE  \A w \in Writers : (wpc[w] = "idle") = (wpc'[w] = "idle")
      BY <2>1, <2>2 DEF Enqueue, Signal, Unlock
    <2>3. wpc' = wpc \/ \E v \in Writers : Enqueue(v) \/ Signal(v) \/ Unlock(v)
      BY Zenon DEF Next, WriterStep, RecvNotify, RecvTick, RecvStop,
         LogStep, Take, Write, Ack, SnapshotStep, Capture, SnapshotFails, Truncate,
         TruncateSync, CloseStop, vars, wVars
    <2>4. QED
      BY <2>2, <2>3
  <1>4. Outcome' = Outcome
    BY <1>2, <1>3, OutcomeKept
  <1>5. Phase' = Phase
    <2>1. closeErr' = closeErr /\ (cpc' = cpc \/ (cpc = "stop" /\ cpc' = "wait"))
      BY Zenon DEF Next, WriterStep, Enqueue, Signal, Unlock, RecvNotify, RecvTick, RecvStop,
         LogStep, Take, Write, Ack, SnapshotStep, Capture, SnapshotFails, Truncate,
         TruncateSync, CloseStop, vars, closeVars
    <2>2. QED
      BY <2>1 DEF Phase
  <1>6. err' = err \/ err' = TRUE
    BY Zenon DEF Next, WriterStep, Enqueue, Signal, Unlock, RecvNotify, RecvTick, RecvStop,
       LogStep, Take, Write, Ack, SnapshotStep, Capture, SnapshotFails, Truncate,
       TruncateSync, CloseStop, vars, runVars
  <1>7. QED
    BY <1>1, <1>2, <1>4, <1>5, <1>6 DEF Promise!Break, Promise!vars

\* What is durable was applied.
DurableWasApplied == ~err /\ rpc # "sync" => DurableTop <= applied

\* What is durable was applied before.
LEMMA DurableBounds == RInv => DurableTop \in Nat /\ DurableWasApplied
  <1> SUFFICES ASSUME RInv
               PROVE  DurableTop \in Nat /\ DurableWasApplied
    OBVIOUS
  <1> USE DEF RInv, IInv
  <1>1. DurableTop \in Nat
    BY DurableIffBelowTop DEF LogInv
  <1>2. ASSUME ~err, rpc # "sync"
        PROVE  DurableTop <= applied
    <2>1. Logged \in Nat /\ Logged <= Enqueued
      BY LoggedType
    <2>2. Enqueued \in Nat /\ Enqueued <= applied
      BY EnqueuedType
    <2>3. applied \in Nat /\ snap \in Nat /\ snap <= applied
      BY DEF TypeOK, DataOK, LogInv
    <2>4. synced = Len(log) /\ Reaches(log, Logged, snap)
      BY <1>2 DEF LogInv
    <2>5. synced > 0 => log[synced] = Logged
      <3>1. Len(<< >>) = 0
        BY EmptySeq
      <3>2. QED
        BY <2>4, <3>1 DEF Reaches
    <2>6. QED
      BY <2>1, <2>2, <2>3, <2>5 DEF DurableTop
  <1>3. QED
    BY <1>1, <1>2 DEF DurableWasApplied

\* So it is after the step.
LEMMA DurableBoundsNext == RInv' => (DurableTop \in Nat /\ DurableWasApplied)'
  BY DurableBounds, PTL

\* A successful fsync of the log or of the snapshot files hardens what has come
\* since the last one; a failed fsync is kept.
LEMMA DurableSteps ==
  ASSUME RInv, RInv', [Next]_vars, Sync \/ WriteFiles
  PROVE  UNCHANGED Promise!vars \/ Promise!Break \/ Promise!Harden
  <1>1. applied' = applied /\ rec' = rec /\ wpc' = wpc /\ Phase' = Phase
    BY DEF Sync, WriteFiles, muVars, wVars, closeVars, Phase
  <1>2. Outcome' = Outcome
    BY <1>1, OutcomeKept
  <1>3. ~err
    BY DEF Sync, WriteFiles, RInv, IInv, ErrInv
  <1>4. /\ DurableTop <= DurableTop' /\ DurableTop \in Nat /\ DurableTop' \in Nat
        /\ applied \in Nat
    <2>1. DurableTop \in Nat /\ DurableTop' \in Nat
      BY DurableBounds, DurableBoundsNext
    <2>2. DurableTop <= DurableTop'
      BY DurableTopGrows DEF RInv, IInv
    <2>3. applied \in Nat
      BY DEF RInv, IInv, TypeOK, DataOK
    <2>4. QED
      BY <2>1, <2>2, <2>3
  <1>5. CASE err'
    <2>1. Sync /\ UNCHANGED <<log, synced, snap>> /\ err' = TRUE
      BY <1>3, <1>5 DEF Sync, WriteFiles
    <2>2. DurableTop' = DurableTop
      BY <2>1 DEF DurableTop
    <2>3. QED
      BY <1>1, <1>2, <2>1, <2>2 DEF Promise!Break
  <1>6. CASE ~err'
    <2>1. err' = err
      BY <1>3, <1>6 DEF Sync, WriteFiles
    <2>2. rpc' # "sync"
      BY DEF Sync, WriteFiles
    <2>3. DurableTop' <= applied
      BY <1>1, <1>6, <2>2, DurableBoundsNext DEF DurableWasApplied
    <2>4. CASE DurableTop' = DurableTop
      BY <1>1, <1>2, <2>1, <2>4 DEF Promise!vars
    <2>5. CASE DurableTop' # DurableTop
      <3>1. DurableTop' \in (DurableTop + 1)..applied
        BY <1>4, <2>3, <2>5
      <3>2. QED
        BY <1>1, <1>2, <1>3, <2>1, <3>1 DEF Promise!Harden
    <2>6. QED
      BY <2>4, <2>5
  <1>7. QED
    BY <1>5, <1>6

\* Close shuts the door and later returns.
LEMMA CloseSteps ==
  ASSUME RInv, [Next]_vars, CloseLock \/ CloseFinish
  PROVE  Promise!BeginClose \/ Promise!EndClose
  <1>1. /\ applied' = applied /\ rec' = rec /\ wpc' = wpc /\ err' = err
        /\ UNCHANGED <<log, synced, snap>>
    BY DEF CloseLock, CloseFinish, muVars, wVars, runVars, diskVars
  <1>2. Outcome' = Outcome /\ DurableTop' = DurableTop
    BY <1>1, OutcomeKept DEF DurableTop
  <1>3. CASE CloseLock
    <2>1. Phase = "open" /\ Phase' = "closing"
      BY <1>3 DEF CloseLock, Phase
    <2>2. QED
      BY <1>1, <1>2, <2>1 DEF Promise!BeginClose
  <1>4. CASE CloseFinish
    <2>1. Phase = "closing" /\ Phase' = IF closeErr' THEN "error" ELSE "clean"
      BY <1>4 DEF CloseFinish, Phase
    <2>2. rpc = "done" /\ last /\ (~closeErr' => ~err)
      BY <1>4 DEF CloseFinish, RInv, CloseInv
    <2>3. ~err => snap = applied /\ log = << >>
      BY <2>2 DEF RInv, SealInv
    <2>4. ~err => DurableTop = applied
      <3>1. log = << >> => synced = 0
        BY EmptySeq DEF RInv, IInv, TypeOK, DataOK
      <3>2. QED
        BY <2>3, <3>1 DEF DurableTop
    <2>5. QED
      BY <1>1, <1>2, <2>1, <2>2, <2>4 DEF Promise!EndClose
  <1>5. QED
    BY <1>3, <1>4

\* The write path implements DurableWrites: whatever the interleaving of callers,
\* DB.run and Close, and wherever a system call fails, a caller sees changes that
\* take effect one by one, become durable in that order, and are reported
\* successful only then.
THEOREM KeepsPromiseHolds == Spec => KeepsPromise
  <1>1. Init => Promise!Init
    <2> SUFFICES ASSUME Init
                 PROVE  Promise!Init
      OBVIOUS
    <2>1. DurableTop = 0 /\ Phase = "open"
      BY DEF Init, DurableTop, Phase
    <2>2. Outcome = [w \in Writers |-> "none"]
      BY DEF Init, Outcome
    <2>3. QED
      BY <2>1, <2>2 DEF Init, Promise!Init
  <1>2. RInv /\ RInv' /\ [Next]_vars => [Promise!Next]_(Promise!vars)
    <2> SUFFICES ASSUME RInv, RInv', [Next]_vars
                 PROVE  Promise!Next \/ UNCHANGED Promise!vars
      OBVIOUS
    <2>1. ASSUME NEW w \in Writers, Apply(w) \/ Reject(w) \/ Return(w)
          PROVE  Promise!Next
      <3>1. Promise!Submit(w) \/ Promise!Refuse(w) \/ Promise!Succeed(w) \/ Promise!Fail(w)
        BY <2>1, ApplySubmits, RejectRefuses, ReturnAnswers
      <3>2. QED
        BY <3>1 DEF Promise!Next
    <2>2. CASE Sync \/ WriteFiles
      <3>1. UNCHANGED Promise!vars \/ Promise!Break \/ Promise!Harden
        BY <2>2, DurableSteps
      <3>2. QED
        BY <3>1 DEF Promise!Next
    <2>3. CASE CloseLock \/ CloseFinish
      <3>1. Promise!BeginClose \/ Promise!EndClose
        BY <2>3, CloseSteps
      <3>2. QED
        BY <3>1 DEF Promise!Next
    <2>4. CASE /\ ~Sync /\ ~WriteFiles /\ ~CloseLock /\ ~CloseFinish
               /\ \A w \in Writers : ~Apply(w) /\ ~Reject(w) /\ ~Return(w)
      <3>1. UNCHANGED Promise!vars \/ Promise!Break
        BY <2>4, InvisibleSteps
      <3>2. QED
        BY <3>1 DEF Promise!Next
    <2>5. QED
      BY <2>1, <2>2, <2>3, <2>4
  <1>3. QED
    BY <1>1, <1>2, RInvHolds, PTL DEF Spec, KeepsPromise, Promise!Spec
=============================================================================

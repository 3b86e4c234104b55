# TLA+ models of MeDB

MeDB is an embedded document database for Go: documents live in maps in
memory, every change goes through a write-ahead log, and a background goroutine
writes whole collections to JSON files. `cmd/medb` serves one database over
HTTP with users and tokens. This directory models the parts of it that are hard
to test: who waits for whom on the write path, what is on disk when the power
goes, what concurrent readers see, what happens to half-finished
initializations, what concurrent management requests do to each other, how a
server stops, and which requests it lets in.

## The system

| Part | State | Operations | Interacts with |
|---|---|---|---|
| Write path (`medb.go`, `collection.go`, `wal.go`) | `mu`, `colls`, `dirty`, `closed`; `logMu`, `pending`, `spare`, `commit`; channels `notify`, `stop` | `Set`, `Update`, `Delete`, `Drop`, `Close` | the goroutine `run`, through the queue, the commit objects and the channels |
| Log (`wal.go`) | `wal.log`, `size` | `openLog`, `writeLog`, `replayLog` | snapshots empty it |
| Snapshots (`snapshot.go`) | one `.json` file per collection | `load`, `writeSnapshot`, `removeColl` | `fsutil`, the log |
| File operations (`internal/fsutil`) | directory entries | `MkdirAll`, `WriteFileAtomic`, `SyncDir` | the operating system |
| Directory lock (`internal/lock`) | `flock` on the lock file | `Acquire` | other processes |
| Reads (`collection.go`) | none of their own | `Get`, `Has`, `Count`, `All`, `Collections` | `mu` |
| Authentication (`cmd/medb/auth.go`) | `_meta/state`, `_meta/users`, `_meta/tokens` | `initializeAuth`, `recoverAuth`, `authenticate` | the database, one `Set` at a time |
| Requests (`cmd/medb/server.go`, `handlers.go`) | `unavailable`, `shuttingDown` | dispatch, data and management handlers | authentication, the database |
| Server lifecycle (`server.go`) | failure channel | start, shutdown, exit status | everything above |
| Protocol (`protocol.go`, `ServeHTTP`) | none that outlives a call | routing, parsing of bodies, names | the library's name check |
| Configuration, command line, benchmarks | none that outlives a call | parsing | |

What is hard: callers, the background goroutine and `Close` meet in the write
path and none of them waits for all the others; durability depends on the order
of system calls that no test observes; two protocols write three records in
three steps and may be stopped in between; requests read, decide and write
without a common lock; the wall clock may go backwards. `PROJECT.json` lists
each of these at its line, with the properties that would notice it going wrong.

## Modules

| Module | Models |
|---|---|
| `GroupCommit` | the write path of an open database, with every interleaving |
| `DurableWrites` | what that write path promises its callers, without its mechanism |
| `GroupCommitProofs` | theorems about `GroupCommit`: durability, wakeups, `Close`, and that it implements `DurableWrites` |
| `Storage`, `MCStorage` | the files, through kills, power losses, failures and reopening; symmetry for TLC |
| `StorageProofs` | theorems about the shape of the files and of the log |
| `StorageDurability` | theorems about what survives, for readers and after `Close` |
| `Collection`, `MCCollection` | the library's operations on one collection, under `mu` and against `Close`; symmetry for TLC |
| `AtomicCollection` | what they promise: each happens at one moment |
| `CollectionProofs` | theorems about `Collection`, and that it implements `AtomicCollection` |
| `Server` | processes on one directory, from `Open` to the exit status |
| `ServerProofs` | theorems about `Server` |
| `Protocol` | routing, bodies and names as pure operators |
| `ProtocolProofs` | theorems about them, for inputs of every length |
| `AuthRecords` | user and token records and the checks on them |
| `AuthBootstrap` | `initializeAuth` and `auth recover`, interrupted anywhere |
| `AuthBootstrapProofs` | theorems about it |
| `AuthRequests`, `MCAuthRequests` | concurrent authenticated requests, and the requests TLC sends |
| `AuthRequestsProofs` | theorems about them |

How they fit together: `GroupCommit` implements `DurableWrites`; `Collection`
takes the fate of a change after `enqueue` from `DurableWrites` and implements
`AtomicCollection`; `Server` reduces the database to open, failing or closed,
which is what `GroupCommit` and `Collection` justify; `AuthBootstrap` and
`AuthRequests` rely on a `Set` that returns when it is durable; `Protocol`
decides with which inputs the handlers of the other modules run.

An operator whose comment describes a mistake (`TakeKeepsCommit`,
`OpenLogNoSync`, ...) stands before the definition that avoids it: putting it in
that definition's place makes the property named in `PROJECT.json` fail. No
specification uses these operators.

### GroupCommit

A record is the number of its application to memory, so "the log has the order
of application" is "its numbers ascend". One action is one critical section,
one channel operation or one system call:

- a caller: `Apply` or `Reject` (lock `mu`, test `closed`, `apply`), `Enqueue`
  (the section on `logMu`), `Signal` (the non-blocking send), `Unlock`, `Return`
  (`commit.wait`);
- `run`: `RecvNotify`, `RecvTick`, `RecvStop`; `Take`, `Write`, `Sync`, `Ack` of
  `writeLog`; `Capture`, `WriteFiles`, `Truncate`, `TruncateSync` of
  `writeSnapshot`. `Write`, `Sync` and each snapshot step may fail; `run` keeps
  the error for ever;
- `Close`: `CloseLock`, `CloseStop`, `CloseFinish`. A second `Close` only
  returns `ErrClosed` and changes nothing, so it is no action.

The two arrays that `pending` and `spare` alternate between are modelled as two
arrays. `DB.size` counts records instead of bytes. The snapshot files are
reduced to the highest record that they cover.

`DurableWrites` says the same to a caller: changes happen in memory one by one,
become durable in that order, a call succeeds only for a durable change, and
after a failure nothing else becomes durable. `KeepsPromise` is the refinement.

### Storage

Each file has the content that the running kernel shows and the set of contents
that a power loss may leave; `fsync` shrinks that set. A kill keeps the former,
a power loss picks from the latter. A log may end in a torn record, and a record
appended behind one does not parse. Collections in a subdirectory
(`prod/users`) have an entry in that directory, which has an entry in the root.

`Open` is `OpenLog`, `Load`, `Replay`, `Trim`, `TrimSync` and a snapshot; `run`
is `WriteLog`, `SyncLog`, `Tick` and the snapshot step by step (`Capture`,
`Mkdir`, `MkdirSync`, `Rename`, `Remove`, `RemoveNothing`, `DirSync`,
`TruncateLog`, `TruncateSync`). `size` is `DB.size` in records: what `replayLog`
stores, `writeLog` adds to and `writeSnapshot` resets and tests. `Change`
applies and queues an operation at any of these moments. Assumed: a torn append
leaves whole records and part of one; rename and unlink are atomic; an fsync
that fails leaves what was possible before it; the database directory exists
durably (`Server` is about that one); one process has it open (`OneOwner`
there). Temporary files that a crash leaves are never read and are not modelled.

### Collection

`mu` is an `RWMutex`: `RLock` ... `Read`, or for `All` `Clone` document by
document, `Cloned` (the unlock) and `Yield`; `Lock`, `Write` or `UpdateRead`,
`FnFails`, `UpdateWrite`, then `Unlock` and `Wait`. `Run`, `CloseLock`,
`CloseWait` and `Clear` are the database's side; `Clear` is the `clear(db.colls)`
that `Close` makes without `mu`. A document is the number of the change that
stored it, so two writes never look alike. `Linearizable` maps a call's effect
to the moment at which it reads or changes the map (for `All`, when it gets the
lock) and a closed database's answers to `ClosedAnswer`. `Ids` are numbers
because `All` yields in order. Decoding into the caller's type is left out.

### Server

A process goes through `Mkdir`, `MkdirSync`, `Acquire`, `OpenLog`, `Load`
(Open), `Authenticate`, `Listen`, `Select`, `Selected`, `BeginShutdown`,
`ShutdownDone` or `ShutdownTimeout` and `HttpClose`, `CloseLock`, `Drain`,
`LogClose`, `Unlock` (Close) and `Return`; steps that make system calls may
fail, and then go where the code's error paths and deferred calls go. Requests
are `Begin`, one of `HandleGet`, `HandleHas` (with `Count`, `Scan`,
`Collections`), `HandleWrite`, perhaps `Mark`, and `Answer`; or
`AuthenticateRequest`, which finds the database closed and answers 401
(`NothingFromClosed` is about this answer too). A request that meets a storage
error calls `markStorageFailure`; one that outlives the shutdown timeout goes on
without its connection. The lock is gone with the process that held it, after a
kill too.

### Protocol

The state is an input that grows: a JSON text by characters and escapes, a name
by characters, a body by members, or one call. Texts contain the boundary values
of the surrogate ranges, a non-hexadecimal escape, escaped backslashes and
quotes, and the letters `uD800` outside an escape. `240` and the other limits
are constants. The scans over the bytes, `validJSONUnicode`, the library's
`validName` and the server's `validCollectionName`, are recursive functions of
the position, and the two of names are separate loops as in the code; the
references that they are compared with use quantifiers over the items.
`utf8.Valid`, `json.Valid` and the decoder are the standard library's.

### AuthBootstrap

One process at a time: `serve` with its environment, or `auth recover`. Every
`Set` returns when it is durable (that is what `GroupCommit` is about), or fails
with the record stored or not, which ends the process. The checks of
`authenticate` and those of `hasActiveAdmin`, which decides whether the server
starts, are separate definitions as in the code; the properties use the former
(`AdminCanLogIn`). Kills are possible
anywhere, the clock may be set back, and a running server's administrators may
change roles, disable users, issue and revoke tokens. Foreign data in `_meta`,
which only makes the start fail, and `--no-auth` are left out.

### AuthRequests

Two requests at a time, each going through `Begin` (the availability check),
`ReadToken` and `ReadUser` (`authenticate` and the role check), and its handler.
`handleTokenCreate` has two steps, `handleUserUpdate` reads the user again after
its change. A change is in memory at once; `Flush` makes everything so far
durable and wakes the waiting callers, who go on one by one (`Succeed`); after
`Break` callers return with an error (`Fail`) and the server refuses requests.
`Crash` goes back to what is durable, `Restart` needs an administrator. A new
token is one that was never issued and that no request in flight asks to revoke
(`FreshTokens`): it is 32 random bytes.

`Flush` joins `writeLog`'s taking, writing and syncing of a batch into one step.
What the properties compare with is answers, and here they are given no later
than in the code, so the joined step only asks for more.

## What the runs show

| Run | Shows | Bounds |
|---|---|---|
| `group_commit` | acknowledged records stay durable (`AckedDurable`), durable records are a prefix (`DurablePrefix`), no lost wakeup, no forgotten writer, a clean `Close` leaves everything in the files, fail-stop, refinement of `DurableWrites`; every accepted write and every `Close` returns | 2 writers, 3 records, threshold 2 |
| `storage_flat` | after any crash recovery yields what was acknowledged and nothing older (`AckedSurvives`), memory equals the history (`ReadsCurrent`), the log parses (`Parses`) | 1 collection, 2 documents, 3 operations, 1 kill, 1 power loss, 1 failure |
| `storage_nested` | the same durability with a subdirectory; a clean `Close` leaves the files complete and durable (`CloseLeavesFiles`) | 2 collections, 3 operations, 2 power losses |
| `collection` | each call takes effect at one moment (`Linearizable`), `Close` clears the maps when nobody uses them (`ClearedAlone`), an acknowledged change rests on durable reads only (`AckCoversReads`) | 2 clients, 2 documents, 3 changes |
| `server` | one process owns the log (`OneOwner`); exit status 0 means no storage failure (`ExitReports`) and no unanswered request (`ExitAnswersAll`); no client is told that there are no documents, or that its token is invalid, because the database is closed (`NothingFromClosed`); after a reported failure nothing is let in (`FailureShutsDoor`); a signal or a failure ends the process (`Stops`) | 2 processes, 2 requests at a time, 2 starts, 1 failure, 1 kill |
| `protocol` | the scanner of escapes, the name checks and the reading of bodies agree with their declarative definitions (`UnicodeExact`, `TargetsExact`, `OneReading`); without a credential every path below `/v1` answers alike (`NoProbe`) | texts of 6 items, names of 9 bytes with a limit of 8, bodies of 4 members |
| `auth_bootstrap` | the marker implies an administrator (`MarkerMeansAdmin`), an interrupted initialization resumes with its own environment and is not taken over by another (`ResumesBootstrap`), `recover` always helps, no server without an administrator whom `authenticate` accepts (`ServesWithAdmin`) | 2 users, 3 tokens, 2 names, 2 stops or changes, clock 0..1, set back once |
| `auth_requests` | answered revocations and disablings hold, across crashes; stored credentials are accepted | 3 users, 3 tokens, 2 requests at a time, 4 in all, 1 crash or failure, clock 0..1 |

The bounds are the smallest at which the dangerous cases occur. Three records
and a threshold of two give a batch being written, a batch being collected and a
snapshot between them. Three operations give a set, its drop and a new set on
either side of a snapshot. Four requests allow a change, its reversal, a late
request and one in between. Two stops interrupt an initialization and the
recovery that follows. A power loss does not stand for a kill: only after a kill
does the next `Open` see what was never synced, and a loss may come later still.
`storage_flat` has both. In `storage_nested` there are no kills because
`AckedSurvives` is false with them (`storage_nested_kill`); kills without a
power loss are the theorem `KilledRecoversHolds`. In `server` one failure is
enough because the properties are about what one failure leads to, and two
starts let the second process come at any moment of the first one's life. Names
and bodies are as long as it takes to exceed the limit, to repeat a member
beside the required ones and to add one that is not allowed. Larger numbers
repeat these situations.

Deadlock is checked in the database runs and in `auth_bootstrap`. `auth_requests`
may stop: a server whose last administrator was disabled does not start again.
So may `server`, when all processes have exited, and `protocol`, whose inputs
end at the bounds.

### Disagreements

Four runs show the code doing other than what is written down.

- `storage_nested_kill`: a process renames or unlinks the file of a collection
  in a subdirectory and is killed before it syncs that directory. The next
  `Open` reads what the kernel shows, so the replayed record finds no document
  to delete (`wal.go:150`) or no collection to drop (`wal.go:156`) and leaves
  `dirty` empty; but `size` is not zero (`snapshot.go:20`), so `writeSnapshot`
  goes on, writes no file, syncs no directory and empties the log. A power loss
  may then bring the old file back and undo a Delete or Drop that was
  acknowledged, in spite of "A successful return means the change is durable"
  (`collection.go:66`; `medb.go:231` for Drop). Replay reaches `removeColl`,
  which returns without a sync when there is no file (`snapshot.go:71`), only
  when the log also holds a set before the drop: a sync there leaves
  `AckedSurvives` violated, as TLC shows. In the database directory `openLog`
  syncs at every `Open` (`wal.go:37`); with an `OpenLog` that syncs the
  subdirectories as well the instance passes, also with three operations, two
  kills and a failure.
- `auth_clock`: a user that is updated after the wall clock was set back gets a
  record whose update precedes its creation (`handlers.go:305`), which the
  server's own check then rejects, for good.
- `auth_race`: a user who is disabled between `handleTokenCreate`'s check and
  its `Set` gets a token (`handlers.go:386`), although "The target user must
  exist and be enabled" (`API.md:114`). The token is refused while the user is
  disabled.
- `server_mkdir`: `MkdirAll` takes a directory that exists as durable
  (`fsutil.go:22`), and `Open` calls it before it has the lock (`medb.go:145`). A
  process that finds the directory another one has just made, and has not synced
  or will never sync, acknowledges changes that a power loss can take away
  together with the directory, in spite of "A successful return means the change
  is durable" (`collection.go:51`).

## Fairness

`group_commit` assumes: a goroutine that can run does run (weak fairness
of a writer's steps, of `writeLog`'s, and of `Close`'s); a `select` with several
ready cases chooses at random and `sync.RWMutex` starves no waiter (strong
fairness of `RecvNotify`, `RecvStop` and the snapshot steps, which need `mu`).
Nothing is assumed about new calls, about the ticker, or about system calls
succeeding: they may fail, but they return.

`server` assumes weak fairness of each process's own steps, `Shutdown`'s timeout
among them, and nothing about handlers, flushes, signals or kills: a handler may
hang for ever. That `db.Close` returns is `CloseReturns` of `group_commit`. The
other runs check safety only.

## What is proved

Every theorem is for all values of the constants that satisfy the `ASSUME` of
its module: any number of writers, callers, processes, requests, users, tokens,
documents and failures. The assumptions say that the bounds are natural numbers,
that `Nil` is none of the values it stands beside, and that ids come from finite
sets where the code counts them.

**The write path** (`GroupCommitProofs`):

- `TypeCorrect`: the type invariant, and that `mu` is held by exactly the writer
  between locking and unlocking (`LockOK`);
- `FailStopHolds`, `WakeupHolds`: fail-stop and no lost wakeup, and that `run`
  does not end with records queued;
- `AckedDurableHolds`, `DurablePrefixHolds`: what is acknowledged is durable,
  and what is durable is a prefix;
- `NoStrandedWriterHolds`, `CleanCloseHolds`: nobody is forgotten, and a clean
  `Close` leaves an empty log and complete files.

`AckedDurable` and `DurablePrefix` are not inductive: they do not say where a
record is that nobody has acknowledged yet. `IInv` does. The records applied so
far are, in order, the settled ones (their commit object is closed), the batch
in hand, the queue, and the one that a writer holding `mu` has yet to enqueue
(`QueueInv`); each commit object covers one contiguous part of that order and is
named after its first record (`TicketInv`); the log is a gapless run that
continues the snapshots and, unless an error happened, reaches the last record
written (`LogInv`); `run` touches no file after an error (`ErrInv`). `Inductive`
proves it one action at a time. Its reason is the one in the code: `mu` is held
from `apply` to the end of `enqueue`, so the queue has the order of application,
and a snapshot captured under `mu` covers all that was logged before. `Draining`
adds what `Close` relies on: once `closed` is set nobody enqueues, so what
`run`'s last `writeLog` takes is all there is. `CleanCloseHolds` adds that `size`
is zero only with an empty log and that a clean round leaves nothing dirty.

`KeepsPromiseHolds` is the refinement of `DurableWrites`. A call is submitted
when its record is applied; the fsync of the log, or of the last snapshot file,
makes durable what came since the one before; the answer is the commit's result.
The other steps of `run`, `enqueue` and `Close` change nothing that the promise
mentions. Besides `IInv` and `Draining` it needs that the outcome of a call that
has returned is settled (`DoneInv`): a later batch can never reach back and
change it.

**The files** (`StorageProofs`): `TypeCorrect` and `ParsesHolds`, wherever the
collections are and whatever is killed, lost or fails. `LogInv` is the reason:
every log that may survive holds whole records of the history, and the log that
the kernel shows has a torn tail only until `Open` has cut it off or after a
failure, when `run` appends nothing more. So no record is ever appended to a
torn one, which is what would not parse. `SizeInv` says that in an open database
`DB.size` counts what the log holds, so a clean `Close` empties it.

`StorageDurability` proves durability. Its invariant `Inv` needs no hypothesis on
the constants; what it says of a collection depends on where the collection is.
`Kept` are the collections whose directory is synced as they need it: those in
the database directory always, because `openLog` syncs it at every `Open`, and
those in a subdirectory when no process is killed and no call fails (`Gentle`).
`Seen` are the ones that `Open` recovers: all of them without power losses, else
the kept ones. `Files(c)` is what `Open` may find in the place of a file. From it:

- `RootSurvivesHolds`, `RootClosedHolds`: for the collections in the database
  directory, with any kills, power losses and failing calls, and whatever happens
  to the other collections beside them, all that is acknowledged survives and is
  read, and a clean `Close` leaves it durably in the files;
- `KilledRecoversHolds`: without power losses, nothing that is acknowledged is
  lost, wherever the collection is;
- `AckedSurvivesHolds`, `CloseLeavesFilesHolds`, the runs' properties, for all
  collections when they are `Covered` (none in a subdirectory, or `Gentle`);
  `ReadsCurrentHolds` for these and whenever power is not lost.

What remains, a collection in a subdirectory with a kill or a failure and then a
power loss, is where `AckedSurvives` is false: the finding of the run
`storage_nested_kill`. A *cell* is a document or
the existence of a collection; a content is *legal* for a cell when some
operation left it there and none that is acknowledged is later. `AckedSurvives`
speaks of a log and a file that survive together, so the invariant does, for the
collections that are seen or kept:

- `Durable`: the last word of every log that may survive on a cell is as new as
  all that is acknowledged, and where that log is silent every file that may
  survive is legal. It must cover all pairs, because the log and the files lose
  what was not synced independently of each other;
- `OrderInv`: operations are queued, written and acknowledged in the order of
  application, and the batch that waits for its fsync is the end of the log. So
  the fsync makes the newest word on a cell the last one, and what a torn write
  leaves is a beginning of the batch that contradicts nothing acknowledged;
- `SnapInv`, `CleanInv`: what `writeSnapshot` writes is legal, so are the files it
  is done with, and a collection that is not dirty is in its file. So the log may
  be emptied when `TruncateLog` does it;
- `DirInv`, `SubInv`: a file differs from what may survive of it only between its
  rename or unlink and the sync of its directory, or from a kill or a failure to
  the next `openLog`; a subdirectory holds no file before it is durable itself,
  if all is gentle;
- `MemInv`: during `Replay` memory is the file changed by the records read so
  far, and from then on legal for all that is acknowledged or queued.

What `Open` recovers is defined with the last record of a log on a cell; that
there is one, or the log is silent, follows from the well-foundedness of the
natural numbers (`Greatest`, `SilentOrLast`).

**Collections** (`CollectionProofs`): `TypeCorrect`, `ClearedAloneHolds`,
`AckCoversReadsHolds` and `LinearizableHolds`, the refinement of
`AtomicCollection`. Between locking `mu` and unlocking it a call sees one state:
what an iteration has cloned so far is what the collection still holds
(`CloneInv`), and the document that `Update` gave to its callback is the one that
is there when it comes back (`UpdateInv`). Nobody is in between once `Close` has
set `closed` (`ClosedInv`), which is why the `clear` without `mu` harms no one.
What a call has seen is never newer than its own change (`AckInv`), and
changes become durable in order.

**The server** (`ServerProofs`): `OneOwnerHolds`, `ExitReportsHolds`,
`ExitAnswersAllHolds`, `NothingFromClosedHolds` and the action property
`FailureShutsDoorHolds`. The invariant has a part for each process by itself, one
for each handler with the process it runs in, and one for the lock. A handler
that outlives `Shutdown` has lost its connection and `serve` has an error for it
(`ReqInv`), so neither the exit status nor a client can be misled by what it
does next; `holder` is a process exactly from the `flock` to its release, and
the log is open strictly within (`OwnerInv`).

`ReachableUndisturbed` is about `AckedReachable`, which the run `server_mkdir`
shows to be false in general: it does hold where only one process is ever
started, or one at a time and none is killed or fails (`Undisturbed`). Then,
until the entry of the directory is durable, nobody is past `MkdirAll` and nobody
finds the directory of another (`ReachInv`). TLC shows that the hypothesis cannot
be weakened: two starts suffice for a violation together with one kill, one
failing call or a second process.

**Initialization and recovery** (`AuthBootstrapProofs`): `MarkerMeansAdminHolds`,
`ResumesBootstrapHolds`, `RecoverSufficesHolds` and the action property
`ServesWithAdminHolds`. `ProcInv` says what the store holds at each step;
`BootInv` what an initialization that was stopped has left (nothing, or its
token, or its token and its user, and nothing else); `HasAdmin` asks for a token
without expiry, which no passage of time and no clock that is set back takes
away, where the property only asks for one that is active now. `SameChecks` says
that `hasActiveAdmin` finds whom `authenticate` accepts, `OwnRecords` that whoever
goes on with a half-way initialization has its token, and its name when the
marker is next.

**Requests** (`AuthRequestsProofs`): `RevokedStaysOutHolds` and
`DisabledStaysOutHolds`. They are not inductive: one has to know that a
revocation that nobody has answered yet is in memory while its request waits and
on disk once it is woken, and that a disabling is there unless someone enabled
the user since (`ReqInv`); then an answered one is in both places for good
(`DeadInv`, `BarredInv`), and a crash has nothing to bring back. A token keeps
its owner for ever (`OwnerInv`). `CredentialsAcceptedHolds` is proved for
`MaxBack = 0`, a wall clock that is never set back: with one step back it is
false, which is the finding of the run `auth_clock`. There the records are
older than now, so an update never precedes a creation (`CredInv`).
`TokenForEnabledUnraced` is the other side of the finding of `auth_race`: a token
is for a user who is enabled at that moment, with one request at a time, or with
any number if none disables anybody and the clock is never set back (`Unraced`,
`EnabledInv`). Outside this hypothesis a second request disables the user between
`handleTokenCreate`'s look and its token, or an update under a clock that was set
back makes the record malformed.

**The checks of a request** (`ProtocolProofs`): `NoProbeHolds`,
`TargetsExactHolds`, `OneReadingHolds` and `UnicodeExactHolds`, for texts, names
and bodies of every length made of the alphabets of `Protocol`, and for every
limit. The state only grows an input, so the invariant is its type (`TypesHold`,
and for texts `WellPlaced`: what stands inside a string is an item of a string);
the work is in what the functions return for every such input.

- Names: `segment[i]`, either loop over a name after `i` bytes (`LibraryLoop`,
  `ServerLoop`), is -1 exactly when these bytes are not the beginning of a path,
  and otherwise the length of the segment that they end in (`Says`).
- Bodies: the chain of `readObject`'s refusals is one condition, and under it
  the names are distinct, so what `Decoded` keeps (the last of a name) is what a
  reader that stops at the first one finds.
- Texts: `Accepts` says from which positions, inside a string or outside, the scan
  reaches the end and accepts; `Fine` is the property's own condition on the items
  that are left. Going back from the end item by item, both satisfy the same
  recursion: an item other than a surrogate hands on the answer of what follows
  it, a first half asks for a second half and goes on behind it.

That two recursions agree at every position would be induction over data. It is
proved from a least counterexample instead (`Least`): among finitely many
positions where the claim fails one is nearest to where the recursion starts, and
there the step gives the contradiction. So no theorem with an operator as its
parameter is needed.

Each inductive invariant was checked with TLC on the instance of its run before
it was proved.

Every invariant and every action property that a passing run checks is a theorem.
Only model-checked:

- liveness (`WriteReturns`, `CloseReturns`, `Stops`), which needs fairness and
  ENABLED and is out of the prover's reach;
- the four counterexamples, which are facts about one instance each; for each of
  them a theorem says where the property does hold (`AckedSurvivesHolds`,
  `RootSurvivesHolds`, `KilledRecoversHolds`; `ReachableUndisturbed`;
  `CredentialsAcceptedHolds`; `TokenForEnabledUnraced`).

## Not modelled

- Configuration and command line: parsing that runs once, before any state
  exists; likewise the validation of options.
- The benchmarks, a load generator beside the program.
- Directories more than one level below the database directory, file systems
  without directory sync, platforms without `flock` (there `Open` always fails).
- `NewID` and token generation, which are taken to give fresh values; the paths
  of files.
- The standard library: JSON syntax and UTF-8, decoding into the caller's type,
  the transport below `ServeHTTP`, the recovery of a panicking handler.
- What the answers contain, except where a property is about it. The listing
  endpoints of the user management, which change nothing.
- That `authenticate` reads token and user at two moments, as a property: the
  request overlaps both changes, and no document promises more.

## Plan

Every safety property that a run expects to hold is a theorem. What may follow:

- a proof that `Storage` with one collection implements the part of
  `DurableWrites` that `GroupCommit` takes for granted, that is, that a kill or a
  power loss leaves what was durable and at most more;
- `AckedSurvives` for subdirectories with kills and power losses, once `Open`
  syncs the subdirectories of the collections that it finds, and
  `AckedReachable` without a hypothesis, once `mkdirAll` syncs a directory that
  it finds.

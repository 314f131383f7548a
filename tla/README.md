# associative: specification of its sessions, storage, locks and clients

`associative` is an associative file system. Files are identified by a uuid and
hold named *blobs*; triples of *metadata* describe blobs. The names live in an
SQL database (`src/sql/schema.sql`), the contents of blobs in a directory. A
process works in a *session*: what it creates stays invisible and what it
changes is written to a journal, until the session commits at one of five
isolation levels or rolls back. Any number of processes share a database and a
directory. `src/thesis.pdf` describes the design.

This directory holds the TLA+ specification: sessions at the grain of database
transactions, with the abstract specification they implement; the directory at
the grain of single renames; connections at the grain of SQL statements; the
locks of processes at the grain of calls; the command line clients call by
call; the argument parser character by character; the TLC runs that check
them, and proofs of the safety properties that matter most.

## 1. Inventory

Paths are below `src/src` unless they start with `sql`.

| component | state | operations | where it is modelled |
|---|---|---|---|
| Schema (`sql/schema.sql`, `sql/data.sql`) | tables file, blob, metadata, handle, session, journal, ids, content_type, prefix, type (and pool, never used) | | `Database`; the last four and the keys in `Connections` |
| Environment (`env/environment.cpp`) | `id` of the session, `buffer` of File objects | startSession, commitSession, rollbackSession, createFile, getFile, cleanSessions, destructor | `Sessions`, all of it; `SessionStore` says what it is for |
| File (`objects/file.cpp`) | id, handle, `buffer` of Blob objects | open or create, close, getBlob, addBlob, removeBlob, removeFile, hasBlob, getBlobNames | `Sessions`; the last four in `Client` |
| Blob (`objects/blob.cpp`) | id, handle, `removed`, new triples | create or open, close, remove, getPath, addTriple, getTriples, ensureContentType | `Sessions`; getTriples in `Client`, ensureContentType in `Connections` |
| Isolation levels (`isolation/`) | none | isIsolated | `Isolation`, all five |
| VFS (`env/vfs.cpp`) | `modified`, the temp and blobs directories, the operations of a commit | getBlobPath, getTempPath, apply, finish | `Sessions`: `modified`, what is journaled, which rows are executed; `FileStore`: the directories |
| Process, locks (`env/process.cpp`, `util/resource.hpp`) | mutexes in a shared memory segment, a lock file | constructor, getMemLock, lock, timedLock, clearSharedMemory | `ProcessLocks`; `Sessions` takes the session lock as one mutex |
| Connection (`db/connection.cpp`) | statement caches, open transaction | transaction, end, nextID, openHandle, closeHandle, prepare | `Connections`; in `Sessions` a transaction is a step, and the cache enters where two texts share a key |
| Drivers (`db/impl`) | the client libraries' connections | startTransaction, endTransaction, execute | `Connections`: which statements fail or wait, and what they see |
| Prefix, Type, Triple (`objects/`) | rows of prefix, type, metadata | get (find or create) | `Connections`, `Client` |
| Actions (`actions/`) | none | cat, store, rm, metadata, ls, create, shell, meta-prefix, meta-type | `Client`; `Sessions` runs any sequence of operations |
| main (`main.cpp`) | none | one session around one action | `Sessions` |
| Utilities (`util/`) | `Buffer` | parseArguments, formatting, configuration, logging | `Arguments`; `Buffer` in `Sessions` and `Client`; the rest is left out |
| Tests (`test/`), build | | | not modelled; the tests are read as documentation |

How they interact. An action calls the Environment; it and its File and Blob
objects write rows through the Connection, each call in a transaction of its
own; `Blob::getPath` asks the VFS where to write, and the VFS journals the
store. A commit takes the session lock of the Process, asks the isolation level
and the invalidation query in one transaction, lets the VFS execute the journal
row by row, publishes in a second transaction, and then destroys the objects,
each of which deletes its handle in a transaction of its own. Rollback and the
destructor of the Environment destroy the objects as well. There are no
threads; all concurrency is between processes, through the tables, the
directory and the locks.

What is hard here:

- a commit is at least two transactions plus one per journal row plus one per
  object, and only other commits are kept out by the lock: starting sessions,
  opening objects, storing, rolling back, exiting and cleaning interleave;
- the schema declares no constraints beyond primary keys, the code keeps them;
- the state of a session lives in the process (objects, `VFS::modified`) and in
  the tables (handles, journal, invisible rows), and the two change apart;
- exceptions leave a commit or a rollback in the middle, crashes leave
  everything behind that is not in the memory of the process;
- every transaction reads before it writes and none is retried: the database
  refuses statements and commits, and some lookups run in no transaction;
- a mutex outlives its holder, a segment its name.

What makes each component correct: for the tables, that every invisible row
belongs to exactly one session which can still publish or delete it, and that
the constraints noted as comments in the schema hold; for objects and handles,
that one exists exactly when the other does; for isolation, that conflicting
sessions cannot both commit, that stricter levels are stricter, and that a
check is still true when it is used; for commits and rollbacks, that they end,
release the lock, touch nothing but the session's own work, and that a commit
shows all of it at once; for the directory, that no content committed is ever
lost; for connections, that ids are drawn ahead of the keys in use, that what
was reported is committed, that nothing stays open and nobody waits for ever;
for locks, that they exclude, and are given back on every way out; for clients,
that an exception has a reason the user can know, and that a session reads its
own writes. The hazards, line by line, are listed in `PROJECT.json`.

## 2. Modules

    Database            tables, rows, the statements shared by everything
      Isolation         isolation levels and invalidation, queries on the tables
        Sessions        processes: Environment, File, Blob, what VFS journals
          SessionProperties   what sessions promise
            SessionRefinement   ... as an implementation of SessionStore
              MCSessions          small instances for TLC
            FileStore           Sessions composed with the blobs and temp directories
              FileProperties      what the contents of blobs are promised
                MCFiles             small instances for TLC
            SessionSafety       proofs about types, rows and objects
              HandlesSafety       proofs about handles, the lock and isolation
                CommitsSafety       proofs about commits, and that Sessions
                                    implements SessionStore (with SessionRefinement)
                FilesSafety         proofs about FileStore (with FileProperties)
    SessionStore        abstract: changes of sessions, published at once or never
    Connections         transactions statement by statement, nextID, lookups
      ConnectionsSafety   inductive invariant and proofs of safety
    ProcessLocks        shared memory, mutexes, the lock file
      LocksSafety         inductive invariant and proofs of safety
    Client              the shell's commands on a file, beside other sessions
      ClientSafety        inductive invariant and proofs of safety
    Arguments           parseArguments and its definition
      ArgumentsSafety     proof that the one implements the other

`Connections`, `ProcessLocks`, `Client` and `Arguments` state their properties
at their end and are checked as they are. Each refines a piece that `Sessions`
takes as one step: a transaction, the lock, the command given.

### Database

Tables are sets of records with the columns that session logic reads. Ids are
drawn from `nextId` as by `Connection::nextID`. Three simplifications: a file
is known by its id (its uuid is drawn at random once per row); the journal is a
sequence per session (its ids order the rows of a session and serve nothing
else); handles carry no id of their own, because a session holds at most one
per object. `SeedFiles` and `SeedBlobs` are what earlier sessions have
committed. Two spellings of one uuid, which give two File objects for a row
(`environment.cpp:235`), are outside of this and inside `Client`.

### Isolation

One operator per level, each the SQL query of `isolation/impl`, and
`Invalidated`, the query of step 0.3 of `commitSession`.

### Sessions

The variables of the second group are those of the processes: `sid` is
`Environment::id`, `files` and `blobs` the two levels of buffers, `nullFiles`
the keys whose entry `Buffer::getOrElse` has left empty, `modified` is
`VFS::modified`, `todo` the rows `VFS::apply` has still to execute, `lock` the
session lock. `pc` says between which two transactions a process is:

    idle --CommitPasses--> select --ApplySelect--> apply --ApplyRow*--Publish--> finish
         --Finish--> clear --CloseFile, CloseBlob *--CommitEnd--> idle
    idle --AddBlob--> replace --CloseReplaced--> idle
    idle --Rollback--> rollback --CloseFile, CloseBlob *--RollbackRows--> idle
    idle --Exit--> exit --CloseFile, CloseBlob *--ExitEnd--> dead

| action | code |
|---|---|
| StartSession | `Environment::startSession` |
| CreateFile, GetFile, GetFileThrows | `Environment::createFile`, `getFile` with the constructor of File and `ensureFile` |
| GetBlob, AddBlob | `File::getBlob`, `addBlob` with the constructor of Blob |
| CloseReplaced | `buffer.set` in `addBlob`, replacing an object of the same name: the destructor of the old one |
| RemoveBlob, StoreBlob, StoreBlobThrows, AddTriple | `Blob::remove`, `getPath` where it journals, `addTriple` |
| CommitPasses, CommitRejected | first transaction of `commitSession`, with the lock just taken; a rejected commit releases it and throws |
| ApplySelect, ApplyRow, CommitThrows | `VFS::apply` |
| Publish | second transaction, steps 1 to 7 |
| Finish, FinishThrows, CommitEnd | the end of `commitSession` |
| CloseFile, CloseBlob | the destructors, which `buffer.clear()` runs: a file's before those of its blobs |
| Rollback, RollbackRows, RollbackThrows | `rollbackSession` |
| Exit, ExitEnd | `main` leaving through an exception, the destructor of Environment |
| CleanSessions | `cleanSessions` |
| Crash | a process dying between any two transactions; a mutex it holds in shared memory stays locked |

An operation that throws before it has changed anything is no step. A wait for
the lock that times out is none either, it throws before the first transaction.
Where two SQL texts share a cache key, the model has the statement that is
executed: step 5 of a commit deletes blobs, not metadata, and so does the third
statement of a rollback. What a user may do in a run, the levels commits ask
for and the faults are the constants `Commands`, `UseLevels` and `Faults`.

`SessionProperties` states every property of sessions with a comment naming the
code it is about.

### SessionStore and SessionRefinement

`SessionStore` has no tables, handles, journal, lock or steps: `published` is
what everybody sees, and each session has what it has `created`, wants
`removed` and `depends` on. A commit is one step: everything created becomes
visible, everything removed goes, and what the session has stored into or
described must be visible when it happens. `SessionRefinement` maps the tables
to it: a row's `visible` column to `published`, an invisible row and its
journal entry to `created`, and the counters of `ids` to `known`. The commit
point is the second transaction; the check of what is depended on happened in
the first, several transactions earlier, and all the steps between, before and
after are stutters. Rollbacks are not part of it: `RollbackRows` deletes
committed blobs, which no step of `SessionStore` does (see
*rollback_committed*).

### FileStore

Composes `Sessions` with the directory. Steps that touch no file are taken over
as they are (`InTables`), the others are joined with what they do to files:

| action | code |
|---|---|
| EnterBlobPath, LeaveBlobPath | `VFS::getBlobPath`: existence looked up and a name taken from `getTempPath` under the lock file; later the copy, `modified` and the journal row |
| WriteFile | `storeFile` into a path handed out, as the actions and tests do |
| BeginApply | `VFS::apply` selecting its rows, joined with blob and file |
| MoveAside, MoveIn | `Transaction::move`: the two renames of `Move::apply` |
| RemoveFile | `Transaction::remove` |
| MarkExecuted | the row marked after its operation |
| ApplyThrows | an exception anywhere in `apply` or before publication, also between the two renames and between a rename and its row |
| PublishFiles, FinishFiles, FinishFilesThrows | second transaction; `Transaction::finish`, which deletes what was moved aside and may stop half-way |
| EndProcess | exit or crash: what is in memory is gone, the files stay |

`disk` is the directory blobs, `temp` and `backup` together are the directory
temp: names that grow from a uuid and names that grow from a blob's name. A
content is known by who wrote it. The column `target` of the journal is not
kept, it is `path[e]` under the key of the row: a key enters `modified` once and
stays until `finish`. `selected` holds the rows the query of `apply` has
returned, with the key the join has given each: the loop goes on with them
whatever happens to the table blob meanwhile (another session's rollback may
delete the row). `ops`, `step` and `selected` belong to the process that holds
the session lock, since nobody else is in `apply`. `before` and `stored` are
history, read by properties only. A directory initially holds any part of the seeded
blobs, as a blob has no file until somebody writes to it.

### Connections

What `Sessions` takes as one transaction is here a sequence of statements.
`db` is what is committed; of the tables only keys and names matter. A process
is at a place between two statements, `job[p].todo` is what is left of its
operation, and `tx[p]` the transaction of its connection: what it wrote, its
snapshot, its strongest lock. `Statements` lists what each operation of
Environment, File and Blob executes, an id once drawn waiting for its insert:
an added blob draws its id, then finds or creates its content type, and only
then is inserted (`Blob::createBlob`).

| action | code |
|---|---|
| Connect, Close | the constructors and destructors of the connections; Close is also the death of a process |
| Begin | `TransactionHandle::TransactionHandle` |
| LookupMisses | `Prefix::get`, `Type::get` where nothing is found, outside of a transaction |
| FindContentType | `Blob::ensureContentType` |
| SelectNextId, Bump | the two statements of `Connection::nextID` |
| Insert | the statement the id was drawn for |
| StatementFails, WaitTimesOut | the exception of a driver |
| RollbackTransaction | `TransactionHandle::~TransactionHandle` |
| CommitTransaction, CommitRefused | `TransactionHandle::end`, `endTransaction` |

What the database does is external, modelled from how the drivers call it.
SQLite: one connection per process with a rollback journal, SHARED, RESERVED
and PENDING locks, and `SQLITE_BUSY` at once, as the driver sets no busy
handler; a commit that meets readers answers BUSY and keeps the transaction
(since 3.7.11, pending). MySQL: InnoDB under REPEATABLE READ, so that a plain
select reads the snapshot of the first one and a write waits for row locks,
with a timeout.

### ProcessLocks

`segment` is what the name of the shared memory stands for, `mutexes` those
constructed in any segment, `holder` who has locked each, `Dead` where that
process died. A process starts (`StartProcess`, `ClearSharedMemory`,
`MapSharedMemory`: `Process::Process`), finds or constructs a mutex in two
calls (`FindMemLock`, `ConstructMemLock`, `ConstructThrows`:
`Process::findMemLock`), commits (`BeginCommit`, `LockSession`,
`LockTimesOut`, `EndCommit`), and takes the lock file, in a session or inside a
commit (`EnterTempPath`, `LockFile`, `FileTimesOut`, `UnlockFile`). Segments,
mutexes and file locks are those of boost::interprocess, modelled from how they
are used: a segment that is removed keeps its mappings, a mutex outlives its
holder, a file lock does not. `resource.hpp:127` computes the deadline from a
default-constructed time, which is not a date; `Deadlines` holds what it may
compare as, `passed` or `never`.

### Client

One session and its File objects, keyed by the uuid as the user spells it,
beside other sessions that add, publish, remove and describe blobs at any time
(`Others`). `Calls` gives the calls each action makes: of `cat`, `store`,
`rm` with names and without, `metadata` with and without another file as
object. Each call is one step: `GetFile`, `CheckBlob`, `AddBlob`, `GetBlob`,
`RemoveFile`, `RemoveBlob`, `UseContents` and `WriteBlob` (`getBlobPath`),
`AddTriple`. A call that throws ends the shell (`Throws`), since `doREPL` and
`main` go on after no exception; `failed` remembers which. Names are numbers;
`RemoveFile` removes what is listed in their order, that of the std::set the
code goes through.

### Arguments

One step per character of `readEscaped`, `readArgument`, `parseArguments`; `at`
is the loop a step is in. `ArgumentsOf` defines what a line means without the
loops: `StateAt` says in which state each character is read, `Part` which
characters belong to an argument, `NotEmpty` which arguments count. Blank and
backslash have names of their own (`Blank`, `Backslash`), the quotes are
`Quotes`, and `Letters` is whatever else there is.

## 3. Runs

The runs of sessions and files are instances with two processes, which are
symmetric except in `progress` (symmetry is not sound for liveness). Deadlock
is not checked: ids, commands and starts are bounded, and a system whose
processes have all ended really stops.

| run | instance | shows |
|---|---|---|
| `sessions` | one committed blob, three sessions, a second blob, a triple, all commands but create, levels blob-exclusive and unsafe, commits that throw | `JournalHasSession`, `ObjectsHaveHandles`, `HandlesHaveObjects`, `ConflictsBlock`, `LevelsOrdered` |
| `sessions_faults` | an empty database, two sessions, one file, two blobs, crashes and exceptions everywhere, unsafe | `TypeOK`, `PendingExactly`, `BlobTableSound`, `NoDirtyReads` |
| `commits` | one committed blob, three sessions, a triple, four levels, commits that throw and crashes, no rollbacks | `CheckStillValid`, `StoresJournaled`: the lock makes check and publication atomic against other commits, and what the VFS remembers agrees with the journal; `ImplementsStore`: the refinement |
| `progress` | two sessions, blob-exclusive, stores and commits that throw, fairness | `LockReleased`, `ClearingEnds` |
| `files` | one committed blob with or without content, two sessions, two blobs, store, add, rm, exceptions and crashes in commits | `FileTypeOK`, `ContentKept`, `UndoPossible` |
| `connections` | two connections, both drivers, two operations each out of starting a session, adding a blob and looking up a prefix or a type | `ConnectionsTypeOK`, `CounterAhead`, `OneCounterPerTable`, `TransactionIdsDistinct`, `ReportedIsCommitted`, `IdleHoldsNothing`, `OneEntryPerProcess`, `ContentTypeOnce`; `OperationsEnd` |
| `locks` | two processes, two starts and two uses of a lock each, with and without a limit, clearing and deaths | `LocksTypeOK`, `HeldWhileInside`, `CommitsExclusive`; `WaitsEnd` |
| `arguments` | every line of up to six characters over a letter, space, both quotes and backslash, and every pair of quoted words of up to two | `ParsesAsDefined`, `QuotingWorks`; `ParsingEnds` |
| `client` | two spellings, two names, two blobs, a triple, four commands | `ClientTypeOK`, `ExceptionsExplained`, `RmEmptiesFile`, `TriplesReadBack`, `RemovalIsFinal` |
| `rollback_committed` | one committed blob, store and rollback | violated: `RollbackKeepsCommitted` |
| `almost_full` | commits at almost-full only, store and remove | violated: `AlmostFullNeverInvalidates` |
| `shared_temp` | as `files` | violated: `WritesKept` |

Why these bounds are enough.

- *Sessions.* All queries compare one session with "some other session", so two
  processes show every conflict; three sessions let a process start anew after
  a commit or a rollback while the other still runs, which is where left-over
  rows and `modified` entries show. One committed blob and one more id cover
  stores, removals, re-creation of a name another session has removed and the
  replacement of an object in a buffer (`CloseReplaced`). Four journal rows
  hold a creation or a removal, a store, a triple and one more. The weakest
  levels are asked for where the question is what the levels do not protect
  from: `unsafe` passes whenever a stricter level does.
- *Files.* A commit that fails after a rename can be retried for ever, each time
  leaving one more file in temp; `MaxBackup = 2` bounds these files, which
  covers a failed commit followed by another, its own or that of the other
  session. Three journal rows hold a store, a removal and one more, so a commit
  moves and removes the same file.
- *Connections.* Two transactions suffice for every conflict over a row; two
  operations let one begin after a refused commit, inside the transaction left
  open. Starting a session is the shortest transaction, adding a blob the
  longest, with four counters drawn and a lookup inside; the other entries of
  `Statements` are sequences of the same kinds. Three connections, or all
  operations at once, are out of TLC's reach within minutes.
- *Locks.* Two starts of a process give it a second segment while the other
  still has the first; two uses give one lock inside the other. The deadline
  runs as `passed`; as `never` every wait is one without a limit, which
  `MaxLockTimes` has.
- *Client.* Four commands make a blob, remove it, make it again and use it
  through another spelling; two names let `rm` go on after a first.
- *Arguments.* Six characters hold an argument in quotes with an escape in it
  and a neighbour on either side.

Fairness.

- `FairSpec` (`progress`) assumes weak fairness of `Continue` for each process:
  a process inside a commit, a rollback or its exit goes on to its next
  statement. The code there is straight-line and waits for nothing, the session
  lock being held already; a process that never runs again is a crash, which
  `progress` leaves out (after one, the lock does stay taken). Nothing is
  assumed of commands or faults: users may do nothing for ever.
- `FairConnections` assumes it of `Step`: a process whose statement can be
  executed or fails goes on. Nothing is assumed of `WaitTimesOut`, so that
  `OperationsEnd` says no operation needs a timeout to end: in SQLite, because
  whoever meets a lock fails at once; in MySQL, because the only rows waited
  for are those of ids, held by one transaction at a time that waits for
  nothing else.
- `FairLocks` assumes it of `LockStep`, not of commands or deaths. `WaitsEnd`
  exempts waits for a mutex a dead process holds. Weak fairness of taking a lock
  suffices because uses are bounded: the lock is free for good in the end. Of
  the mutex and the lock file nothing more is known: against processes that
  take a lock again and again without end, nothing in the code gives a waiter
  its turn, and `WaitsEnd` does not say so.
- `ArgumentsSpec` assumes it of `Parse`, a sequential loop.

The three violations are disagreements between code and documentation:

- *rollback_committed*: `rollbackSession` deletes the rows of all blobs the
  session has journaled anything about. Storing into a committed blob and
  rolling back deletes it for everybody.
- *almost_full*: theorem 4 of the thesis takes check and publication for one
  step. In the code another process opens a handle between the two.
- *shared_temp*: `getTempPath` creates nothing (`vfs.cpp:144`), so that two
  sessions storing into one blob are given the same name if both ask before
  either writes. The copy the second one makes of the committed content then
  overwrites what the first has written. The thesis has a session never lose
  what the user entered (3.3.1) and blobs never overwritten without a commit
  (5.1). In the same way two blobs of one file can share a name within one
  session; `WritesKept` does not say so, since contents are known by their
  session.

More were met while modelling, each a step of a model that no property denies:

- `schema.sql:47` notes that `metadata.blob_id` references a blob; commits
  remove blobs and leave their metadata.
- `getBlobPath` takes a key in `modified` for journaled (`vfs.cpp:155`); a
  rollback deletes the journal and not the key, and the next session's store
  into that blob is not committed.
- The thesis (4.3.3) undoes the operations on files when the tables cannot be
  changed; no code calls `Transaction::rollback`. `UndoPossible` shows that
  undoing would have worked between two operations, newest first. Between the
  renames of a `Move` it would not: `unapply` starts with a file that is not
  there yet.
- The thesis (4.3.2) has a transaction rolled back that is not committed; a
  commit SQLite refuses leaves it open, because `TransactionHandle` has set
  `ended` before (`connection.cpp:38`). `IdleHoldsNothing` and
  `ReportedIsCommitted` exempt that case and no other.
- Two processes may create two prefixes or two types of one name
  (`prefix.cpp:34`), two ids of tables without a key may be equal under MySQL or
  outside a transaction, as may the ids of two blobs under MySQL if they are in
  two files (their key is `(id, file_id)`, `schema.sql:27`), and MySQL may see a
  content type inserted twice; `schema.sql` notes that names are unique. `TransactionIdsDistinct` and `ContentTypeOnce`
  are claimed for SQLite only.
- The comment at `file.cpp:84` says that removed blobs are not listed; committed
  ones are. `ExceptionsExplained` has what follows from it.
- Two spellings of a uuid give two File objects (`environment.cpp:235`), so
  that what was removed or added through one is not seen through the other.
- The thesis says that the lock timeout cannot be switched off (table 5);
  `config.cpp:8` has none where the number is not positive, and the deadline of
  the others is no date (`resource.hpp:127`).

## 4. Proofs

Eight modules hold theorems, all checked by TLAPS: `SessionSafety`,
`HandlesSafety` and `CommitsSafety` about `Sessions`, `FilesSafety` about
`FileStore`, `ConnectionsSafety` about `Connections`, `LocksSafety` about
`ProcessLocks`, `ClientSafety` about `Client`, `ArgumentsSafety` about
`Arguments`. Every safety property that a run checks and finds to hold is a
theorem. What the theorems assume of the constants are the named assumptions of
the modules, which say that constants have their types, that None is nothing
else, that seeded blobs differ in file or name, that the name of the committed
blob of `Client` is a name and there is room for it, and that a letter is no
blank, quote or backslash: so they hold for any number of processes, files,
blobs, names, sessions, journal rows and files moved aside, at all levels, and
for lines of any length. Where a theorem
needs that a command is never given or a fault never happens, its statement
says so, and the reason is below; every other theorem is about all commands and
all faults.

| theorem | shows | where |
|---|---|---|
| `TypesHold` | `TypeOK` | `SessionSafety` |
| `PendingExactlyHolds`, `BlobTableSoundHolds`, `NoDirtyReadsHolds` | the property of that name | `SessionSafety` |
| `HandlesHaveObjectsHolds` | `HandlesHaveObjects` | `HandlesSafety` |
| `JournalHasSessionHolds`, `ObjectsHaveHandlesHolds`, `LevelsOrderedHolds` | the property, if "finish" is no fault | `HandlesSafety` |
| `ConflictsBlockHolds` | `ConflictsBlock`, if neither "finish" nor "rollback" is a fault | `HandlesSafety` |
| `StoresJournaledHolds` | `StoresJournaled` | `CommitsSafety` |
| `CheckStillValidHolds` | `CheckStillValid`, if "rollback" is no command | `CommitsSafety` |
| `ImplementsStoreHolds` | `ImplementsStore`, the refinement, if "rollback" is no command | `CommitsSafety` |
| `ImplementsSessions` | `FileSpec => Spec` | `FilesSafety` |
| `FileTypeOKHolds`, `ContentKeptHolds`, `UndoPossibleHolds` | the property | `FilesSafety` |
| `ConnectionsTypeOKHolds`, `CounterAheadHolds`, `OneCounterPerTableHolds`, `TransactionIdsDistinctHolds`, `ContentTypeOnceHolds`, `OneEntryPerProcessHolds`, `ReportedIsCommittedHolds`, `IdleHoldsNothingHolds` | the property | `ConnectionsSafety` |
| `LocksTyped`, `LocksHeldWhileInside`, `CommitsExclude` | `LocksTypeOK`, `HeldWhileInside`, `CommitsExclusive` | `LocksSafety` |
| `TypesHold`, `ExceptionsHaveReasons`, `RmEmpties` | `ClientTypeOK`, `ExceptionsExplained`, `RmEmptiesFile` | `ClientSafety` |
| `TriplesAreReadBack`, `RemovalsAreFinal` | `TriplesReadBack`, `RemovalIsFinal` | `ClientSafety` |
| `ParsesAsDefinedHolds`, `QuotingWorksHolds` | the property | `ArgumentsSafety` |

Three of the properties begin with a condition on faults or commands
themselves: `HandlesHaveObjects` is claimed where nobody crashes (a crash leaves
handles behind), the last part of `LevelsOrdered` too, `StoresJournaled` where
nobody rolls back and neither storing nor finishing throws. The hypotheses of
the theorems have the same kind of reason, each a state of the model:

- *"finish" in Faults.* When `Transaction::finish` throws, the session row is
  gone and the process still believes to be in a session. What it journals then
  has no session row, and its handles are taken for left-overs by
  `cleanSessions`.
- *"rollback" in Faults.* `rollbackSession` destroys the objects and then
  throws: changes stay journaled whose handles are gone, and others' commits
  pass.
- *"rollback" in Commands.* A rollback deletes committed blobs without the lock
  (see *rollback_committed*), also between the check and the publication of
  another session's commit.

Every invariant was checked by TLC on small instances before it was proved. The
theorems `Invariant`, `SessionInvariant`, `CommitInvariant`,
`ConnectionInvariant`, `FileInvariant`, `LocksInvariant`, `ClientInvariant` and
`ArgumentsInvariant` state them.

**Types and rows** (`SessionSafety`). `TypeInv` adds to `TypeOK`
that a process in the middle of a commit or a rollback is in a session. Without
that the step marking a row of its journal executed could not be typed. None of
the three properties of rows is inductive alone. `Publish` deletes journal rows,
so `PendingExactly` needs that a session's creations are its own
(`JournalSound`, `SessionsOwned`) and that ids are keys (`RowsKeyed`). A
rollback deletes files, and `BlobTableSound` needs that the blobs of an
uncommitted file go with it: they are creations of the same session
(`BlobsOfPendingFiles`), because nobody else can hold a File object of it, which
is `NoDirtyReads`; and a File object of a committed file must not outlive the
row (`ObjectsSound`). The conjunction is `IInv == DbInv /\ EnvInv`. Most steps
create, publish and delete nothing: `Quiet` and `Letting` say what such a step
leaves alone, and `QuietDb` and `LettingEnv` deal with all of them at once. The
eight others have a lemma each, with one step per conjunct.

**Handles and isolation** (`HandlesSafety`). `HandlesHaveObjects` says that a
handle has an object, `ObjectsHaveHandles` the converse; each transaction
changes one side and the destructors run in transactions of their own, after
the objects are out of the buffers. So `SessionInv` also has: an object is in
the buffer of a File object of its file except while buffers are cleared
(`ObjectsInFiles`), a buffer has one object per row (`ObjectsKeyed`) and replaces
it only where the row is gone (`ReplacedGone`), the handles under a process's
session id are its own (`HandlesOwned`), the session row is there as long as a
process uses it (`SessionsAlive`), and handles without a session row belong to
a commit that has published, or to a process that died in one (`StaleHandles`):
that is why `cleanSessions`, at whatever moment, deletes no handle in use. `LockInv` is the lock:
held exactly from select to clear, or for ever by the dead. `OthersKept` says
that a step changes no other process's memory, so that each lemma is about the
process that moves and about what its statements do to the tables of others.
`ConflictsBlock` then follows from `ChangesHaveObjects`: what a session has
changed it holds an object of, hence a handle, and each of the four queries
finds it (`OpenBlocks`). `LevelsOrdered` compares the queries, with the objects
as the reason why an open blob has an open file (`FileOpenWithBlob`).

**Commits** (`CommitsSafety`). A commit checks in one transaction and publishes
in another. `CheckStillValid` is inductive only together with: what a session
changes it sees (`ChangesSeen`), so that what is deleted by a publication was
committed or its own; and that between the two transactions no other process
publishes, which is `LockInv`. `StoresJournaled` needs that `VFS::modified` is
empty outside of sessions (`ModifiedInSession`).

**The refinement** (the last part of `CommitsSafety`). The mapping is that of
`SessionRefinement`. Initial states map to initial states (`InitRefines`); a
step that leaves rows, counters and journals alone is a stutter (`Silent`), and
so is every other step except six, which have a lemma each: creating a file,
adding, removing and storing a blob, adding a triple (`Create`, `Remove`,
`Store` and `Describe` of `SessionStore`, the ids staying within the bound by
`CountersBounded`), and `Publish`. `PublishRefines` is the point of it: the
second transaction makes visible exactly what the journal says is created,
deletes exactly what it says is removed, and what the session depends on is
visible, by `CheckStillValid` and `ChangesSeen`.

**Connections** (`ConnectionsSafety`). The operations are lists of statements
that hold ids drawn earlier. `PlanOf` says which lists can be left over with
which ids held, `PlanSound` that every process is at such a point and that the
counter is ahead of every id it holds; `PlanStarts` and `PlanStep` are the two
lemmas about `Statements`. What a connection sees depends on the driver:
`CountersOf` says that in its view no counter is ahead of the committed one or
missing from it, which is what keeps a draw through an old snapshot of MySQL
from reusing an id. `Drawing` is about the place between the two statements of
`nextID`, and `OneWriter` says that at most one connection has a lock to write. `RowsSound` carries the
distinctness of rows, with what a lookup has not found as the reason
(`NameAbsent`, `TypeAbsent`). A step leaves another process untouched, or moves
the tables under it when a transaction commits (`Unmoved`, `Moved`, `Joined`);
the lemmas about the others are about these three kinds.

**The directory** (`FilesSafety`). `FileStepIsStep`: a step of `FileStore` is
one of `Sessions` or does nothing to tables and objects, as a process inside
`getBlobPath` does nothing else meanwhile (`CallSound`). So `FileSpec => Spec`,
and whatever is proved of sessions holds with the directory. The names
`getTempPath` returns are free: with finitely many files in temp
(`TempFinite`), one more candidate than files is enough (`TempPathFree`, by the
pigeonhole principle), and there is a first one (`LeastNumber`). A row selected
by `apply` has its file in `VFS::modified` (`StoresRemembered`: a journaled
store keeps its key there until the journal is flushed; a new session has an id
nobody has journaled under, `StoresStarted`). `ContentKept` is not inductive,
because the end of a commit deletes what was moved aside, and this could be the
only copy of something an earlier, failed commit had moved there.
`ReplacedOnly` excludes it: as long as a commit runs, what was committed under
a key is below "blobs" or under a name in temp that is not one of this commit's
(`Safe`), unless this commit has an operation on that key; and `PublishFiles`
makes what is now below "blobs" the committed content of all these keys. With
the lock there is one such commit (`OnlyCommitter`). Both kinds of operation
are one lemma, `MadeRoomKeeps`; the second rename destroys nothing because the
first has left its key free (`ApplySound`).

`UndoPossible` is about `Undone`, a recursive function over the operations of
the commit, the newest first. So a step that adds an operation has to be looked
at in that operation alone: where it is undone to where it was made from, all
the others go on from there as before (`UndoOneMore`), and where a step changes
only what undoing the newest operation overwrites, nothing changes at all
(`UndoSame`). Both compare two such functions number by number. `UndoSound` is
the stronger statement that makes this inductive: the operator `Unapply` undoes
a store after its first rename as well. The code would not, since its `unapply`
begins with renaming a file that is not there yet, and the property exempts
that place. `Directories` says that a directory is a function, so that two of
them with the same files are equal.

**Locks** (`LocksSafety`). `HeldWhileInside` is inductive only if the mutex a
process refers to exists and is the session mutex of the segment it has mapped
(`RefSound`): constructing a mutex extends the domain of `holder`.
`CommitsExclusive` follows from it with `OneOfAName`: a segment has one mutex of
a name, although looking for it and constructing it are two calls, because the
second looks again.

**Clients** (`ClientSafety`). Half of the invariant is about data and half about
control. Data: ids are keys (`IdsKeyed`), a File buffers a blob under its name
and once (`ObjectsKeyed`), and what was journaled or described through a File
was in its buffer, where the name stays (`Met`). So a removed blob is not given
out again (`RemovedDead`), which `RemovalIsFinal` needs, and an object that is
not removed knows all triples added through its File (`TriplesKnown`), which
with `IdsKeyed` is `TriplesReadBack`. Control: the calls an action has still to
make are calls it can make (`InOrder`): a File is opened before it is used, and
a Blob object that is used has been fetched and not been removed since. With
that goes what an action has found out and relies on as long as no other session
disturbs it: a name about to be added has just been looked for in vain
(`AddsMissing`), `store` gets what it has found or created (`StoreFinds`), and
whatever is still in a file after `rm` has listed it is about to be removed
(`RmProgress`). `ExceptionsExplained` and `RmEmptiesFile` follow where the
calls end.

**Arguments** (`ArgumentsSafety`). `StateAt`, `Part` and `NotEmpty` are
recursive functions of a line; that they are defined for every length is proved
first (`GoesUpTo`, `GoesOn`: there is such a function up to each number, and any
two agree). `InStep` says where the loops are in the definition: between two
arguments, in front of a word or inside an argument, with the buffer being the
part read so far and `arguments` those not empty so far. One character more
moves both by the same case of `StateAfter` (`AfterCases`, `Advance`). A quote
that ends a word is the one place where the loop leaves its argument before the
definition does, and an argument is counted by the definition when it begins
and by the loop when it ends, if it is not empty. For `QuotingWorks`, `Spells`
says at which positions of a line the characters of a quoted word are:
`QuotedWord` spells its word, in front of another text and behind one
(`SpellsLeft`, `SpellsRight`), and the loops read a spelt word character by
character and end right behind its quote (`WordReadOn`).

Some of this is induction over data: the operations of a commit, the characters
of a line. The library's induction theorems take an operator, which no prover
here can instantiate. Where a proof needs induction over numbers it is about a
set of numbers instead (`PassesOn`: a set with 0 in it and with each member the
next number is Nat), which follows from every such set having a least member
(`LeastNumber`).

Proving has corrected definitions: in `Connections` (`Onward`) and `Arguments`
(`StateAfter`, `PartOf`) the arms of a CASE overlapped, which leaves its value
open where two are true although TLC takes the first; they are IF and
disjunction now. `Client` allowed a `None` that is a call or an action, and no
room for the blob it begins with. `FileStore` looked up the key of a row again
in each round of the loop of `apply`, where the code has it from its query
(`selected`).

Model-checked only is liveness (`LockReleased`, `ClearingEnds`, `OperationsEnd`,
`WaitsEnd`, `ParsingEnds`): TLAPS proves neither liveness under fairness nor
ENABLED.

## 5. Not modelled

- What the contents of blobs are; reading them; blobs named like a uuid, whose
  files in temp could be taken for those of sessions.
- `Transaction::rollback`, which nothing calls; the table pool.
- The text of triples and their parsing; how rows are fetched and parameters
  bound in the drivers.
- `query-db`, which runs any SQL it is given; `list-actions`, which prints.
- Option parsing, formatting, logging, configuration, module registration: no
  session state.
- SQLite and MySQL beyond what is said above: neither's crash recovery, nor
  deadlock detection in MySQL, which is a `WaitTimesOut` that comes early.

## 6. Plan

All models planned are there, with theorems for every safety property of
`Sessions`, `FileStore`, `Connections`, `ProcessLocks`, `Client` and
`Arguments`, and for the refinement of `SessionStore`. What could be added:

1. An abstract directory in which a commit replaces all contents at once or
   none, with `FileStore` shown to implement it up to the publication; today
   `ContentKept` and `UndoPossible` state two halves of it.
2. MySQL's deadlock detection and a third connection in `Connections`.

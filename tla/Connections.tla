----------------------------- MODULE Connections -----------------------------
(***************************************************************************)
(* Connections (src/db) statement by statement: what Sessions takes as one *)
(* step is here begin, reads, writes and commit, any of which the database *)
(* may refuse.  Every transaction draws ids (Connection::nextID) and       *)
(* inserts rows under them; Prefix::get and Type::get do so outside any    *)
(* transaction.  The locks and snapshots of SQLite and MySQL are external, *)
(* modelled from how the two drivers use them.                             *)
(***************************************************************************)
EXTENDS Naturals, Sequences, FiniteSets

CONSTANTS
  Process,    \* the processes, each with one connection
  Drivers,    \* the drivers the program may have been started with
  Operations, \* the operations of Environment, File and Blob they run
  Lookups,    \* tables of Prefix::get and Type::get
  Name,       \* names looked up there
  MaxTasks,   \* bound on the operations of a process
  None

ASSUME ConnectionsAssumption ==
  /\ Drivers \in SUBSET {"sqlite3", "mysql"}
  /\ Operations \in SUBSET {"startSession", "createFile", "getFile", "addBlob", "removeBlob",
                            "addTriple"}
  /\ Lookups \in SUBSET {"prefix", "type"}
  /\ MaxTasks \in Nat
  /\ None \notin Name \cup Nat

Draw(t) == [do |-> "draw", table |-> t]
Find(t) == [do |-> "find", table |-> t]
InsertInto(t) == [do |-> "insert", table |-> t]

\* An id is drawn and a row inserted under it.
AddRow(t) == <<Draw(t), InsertInto(t)>>

\* What each operation does in its transaction, in order: an id once drawn waits
\* for its insert.
Statements ==
  [startSession |-> AddRow("session"),
   createFile   |-> AddRow("file") \o AddRow("journal") \o AddRow("handle"),
   getFile      |-> AddRow("handle"),
   addBlob      |-> <<Draw("blob"), Find("content_type"), InsertInto("blob")>>
                      \o AddRow("journal") \o AddRow("handle"),
   removeBlob   |-> AddRow("journal"),
   addTriple    |-> <<Draw("metadata"), InsertInto("metadata")>> \o AddRow("journal")]

Tables == {"session", "file", "blob", "metadata", "journal", "handle",
           "content_type", "prefix", "type"}

\* The tables declared without a primary key.
HasKey(t) == t \notin {"session", "handle", "type"}

VARIABLES
  driver, \* the provider named in the data source
  db,     \* what is committed: the rows of ids and of the other tables
  at,     \* where each process is in its operation
  job,    \* the operation: statements left, name looked up, ids and entry drawn
  tx,     \* the transaction of each connection
  left,   \* operations each process may still start
  told,   \* history: rows reported to the caller as inserted
  refused \* history: processes that had a commit refused

vars == <<driver, db, at, job, tx, left, told, refused>>

Places == {"closed", "idle", "work", "bump", "commit", "unwind"}

Statement == [do : {"draw", "find", "insert"}, table : Tables]

IdsRow == [id : Nat, table : Tables, next : Nat]

Row == [table : Tables, id : Nat, name : Name \cup {None}, by : Process, task : Nat]

Database == [ids : SUBSET IdsRow, rows : SUBSET Row]

\* scoped: a TransactionHandle will end the transaction.
\* drawn: the ids no row was inserted under yet, the last one first.
\* entry: the id of the row to insert into ids, None where there is one.
Job == [todo : Seq(Statement), name : Name \cup {None}, scoped : BOOLEAN,
        drawn : Seq(Nat), entry : Nat \cup {None}]

\* open: begin was executed.  read: the snapshot, if one was taken.
Transaction == [open : BOOLEAN, read : SUBSET Database, wrote : Database,
                lock : {"none", "shared", "reserved", "pending"}]

ConnectionsTypeOK ==
  /\ driver \in Drivers
  /\ db.ids \subseteq IdsRow /\ db.rows \subseteq Row
  /\ at \in [Process -> Places]
  /\ \A p \in Process :
       /\ job[p] \in Job
       /\ at[p] = "work" => job[p].todo # << >>
       /\ tx[p].wrote.ids \subseteq IdsRow /\ tx[p].wrote.rows \subseteq Row
       /\ ~tx[p].open => tx[p].wrote.ids = {} /\ tx[p].wrote.rows = {}
       /\ Cardinality(tx[p].read) <= 1
       /\ at[p] \in {"commit", "unwind"} => job[p].scoped
  /\ left \in [Process -> 0 .. MaxTasks]
  /\ told \subseteq Row
  /\ refused \subseteq Process

Nothing == [ids |-> {}, rows |-> {}]

NoJob == [todo |-> << >>, name |-> None, scoped |-> FALSE, drawn |-> << >>, entry |-> None]

NoTransaction == [open |-> FALSE, read |-> {}, wrote |-> Nothing, lock |-> "none"]

\* A new database: the prefix and the type of the system.
Seed ==
  [ids |-> {[id |-> 0, table |-> "prefix", next |-> 1], [id |-> 1, table |-> "type", next |-> 1]},
   rows |-> {}]

ConnectionsInit ==
  /\ driver \in Drivers
  /\ db = Seed
  /\ at = [p \in Process |-> "closed"]
  /\ job = [p \in Process |-> NoJob]
  /\ tx = [p \in Process |-> NoTransaction]
  /\ left = [p \in Process |-> MaxTasks]
  /\ told = {}
  /\ refused = {}

Goto(p, place) == at' = [at EXCEPT ![p] = place]

-----------------------------------------------------------------------------
(* What a connection sees, and which locks its statements need.            *)

\* d after the writes w: a row of ids is replaced by its new version.
Overlay(d, w) ==
  [ids |-> { r \in d.ids : \A c \in w.ids : c.id # r.id } \cup w.ids,
   rows |-> d.rows \cup w.rows]

\* What a plain select sees: in MySQL the snapshot of the first one.
View(p) ==
  Overlay(IF tx[p].read = {} THEN db ELSE CHOOSE d \in tx[p].read : TRUE, tx[p].wrote)

\* What a write works on: the latest committed rows and its own.
Current(p) == Overlay(db, tx[p].wrote)

LocksOfOthers(p) == { tx[q].lock : q \in Process \ {p} }

\* SQLite reads under a SHARED lock, which PENDING keeps from being taken.
CanRead(p) ==
  driver = "sqlite3" => (tx[p].lock # "none" \/ "pending" \notin LocksOfOthers(p))

\* SQLite has one writer, and outside a transaction the statement also
\* commits, which no other lock allows.  In MySQL the update scans ids, which
\* has no index on table_name, and so locks all of it.
CanWrite(p, t) ==
  /\ driver = "sqlite3" \/ t = "ids" => LocksOfOthers(p) \cap {"reserved", "pending"} = {}
  /\ driver = "sqlite3" /\ ~tx[p].open => LocksOfOthers(p) \subseteq {"none"}

\* A rollback journal is written back when nobody reads.
CanCommit(p) ==
  driver = "sqlite3" =>
    (tx[p].lock \in {"none", "shared"} \/ LocksOfOthers(p) \subseteq {"none"})

\* PreparedQuery::execute and fetchResults.
Reading(p) ==
  IF ~tx[p].open THEN tx
  ELSE IF driver = "sqlite3" /\ tx[p].lock = "none" THEN [tx EXCEPT ![p].lock = "shared"]
  ELSE IF driver = "mysql" /\ tx[p].read = {} THEN [tx EXCEPT ![p].read = {db}]
  ELSE tx

\* PreparedStatement::execute: outside a transaction it commits by itself.
Execute(p, w) ==
  IF tx[p].open
  THEN /\ tx' = [tx EXCEPT ![p].wrote = Overlay(@, w),
                           ![p].lock = IF @ = "pending" THEN @ ELSE "reserved"]
       /\ UNCHANGED db
  ELSE /\ db' = Overlay(db, w)
       /\ UNCHANGED tx

-----------------------------------------------------------------------------
(* Opening and closing a connection.                                       *)

\* ConnectionProvider::dispatch and the constructors: autocommit.
Connect(p) ==
  /\ at[p] = "closed"
  /\ left[p] > 0
  /\ Goto(p, "idle")
  /\ UNCHANGED <<driver, db, job, tx, left, told, refused>>

\* The destructors, or the death of the process anywhere in an operation: the
\* database rolls back what is open.
Close(p) ==
  /\ at[p] # "closed"
  /\ tx' = [tx EXCEPT ![p] = NoTransaction]
  /\ job' = [job EXCEPT ![p] = NoJob]
  /\ Goto(p, "closed")
  /\ UNCHANGED <<driver, db, left, told, refused>>

-----------------------------------------------------------------------------
(* Beginning: a TransactionHandle, or a lookup without one.                *)

StartJob(p, statements, name, scoped) ==
  /\ left[p] > 0
  /\ left' = [left EXCEPT ![p] = @ - 1]
  /\ job' = [job EXCEPT ![p] =
       [NoJob EXCEPT !.todo = statements, !.name = name, !.scoped = scoped]]
  /\ Goto(p, "work")

\* Mutant: the transaction is started by the pragma alone.
BeginNothing(p, op) ==
  /\ at[p] = "idle"
  /\ ~tx[p].open
  /\ StartJob(p, Statements[op], None, TRUE)
  /\ UNCHANGED <<driver, db, tx, told, refused>>

\* startTransaction.  In an open transaction "begin" is an error; the
\* constructor throws, no handle exists and nothing changes.
Begin(p, op) ==
  /\ at[p] = "idle"
  /\ ~tx[p].open
  /\ StartJob(p, Statements[op], None, TRUE)
  /\ tx' = [tx EXCEPT ![p].open = TRUE]
  /\ UNCHANGED <<driver, db, told, refused>>

\* Mutant: the row is inserted whether the select finds one or not.
LookupFindsNothing(p, t, n) ==
  /\ at[p] = "idle"
  /\ CanRead(p)
  /\ StartJob(p, AddRow(t), n, FALSE)
  /\ tx' = Reading(p)
  /\ UNCHANGED <<driver, db, told, refused>>

\* Prefix::get and Type::get where the select finds no row of the name; where
\* it finds one nothing changes.
LookupMisses(p, t, n) ==
  /\ at[p] = "idle"
  /\ CanRead(p)
  /\ \A r \in View(p).rows : r.table = t => r.name # n
  /\ StartJob(p, AddRow(t), n, FALSE)
  /\ tx' = Reading(p)
  /\ UNCHANGED <<driver, db, told, refused>>

-----------------------------------------------------------------------------
(* Connection::nextID and the insert that uses the id.                     *)

Doing(p, what) == at[p] = "work" /\ Head(job[p].todo).do = what

Table(p) == Head(job[p].todo).table

\* Where the operation goes on after a statement.
Onward(p) ==
  IF Tail(job[p].todo) # << >> THEN "work"
  ELSE IF job[p].scoped THEN "commit" ELSE "idle"

\* select max(id) from ids
NewEntry(d) ==
  IF d.ids = {} THEN 0
  ELSE 1 + (CHOOSE m \in { r.id : r \in d.ids } : \A r \in d.ids : r.id <= m)

\* Mutant: no content type is ever found.
NeverFound(p) == FALSE

\* The blobs added here all have one content type, and it is there already.
ContentTypeFound(p) == \E r \in View(p).rows : r.table = Table(p)

\* Blob::ensureContentType, within the transaction of addBlob.
FindContentType(p) ==
  /\ Doing(p, "find")
  /\ CanRead(p)
  /\ job' = [job EXCEPT ![p].todo =
       (IF ContentTypeFound(p) THEN << >> ELSE AddRow(Table(p))) \o Tail(@)]
  /\ tx' = Reading(p)
  /\ UNCHANGED <<driver, db, at, left, told, refused>>

\* select next_id from ids where table_name = ?
SelectNextId(p) ==
  /\ Doing(p, "draw")
  /\ CanRead(p)
  /\ \/ \E r \in View(p).ids :
          /\ r.table = Table(p)
          /\ job' = [job EXCEPT ![p].drawn = <<r.next>> \o @, ![p].entry = None]
     \/ /\ \A r \in View(p).ids : r.table # Table(p)
        /\ job' = [job EXCEPT ![p].drawn = <<0>> \o @, ![p].entry = NewEntry(View(p))]
  /\ tx' = Reading(p)
  /\ Goto(p, "bump")
  /\ UNCHANGED <<driver, db, left, told, refused>>

\* Mutant: a new counter starts where its table does.
CountFromZero == 0

FirstNext == 1

\* update ids set next_id = next_id + 1 where table_name = ?
CountedUp(p) ==
  { [r EXCEPT !.next = @ + 1] : r \in { c \in Current(p).ids : c.table = Table(p) } }

EntryTaken(p) == \E r \in Current(p).ids : r.id = job[p].entry

\* Mutant: the entry is computed where it is inserted.
BumpLatest(p) ==
  /\ at[p] = "bump"
  /\ CanWrite(p, "ids")
  /\ Execute(p, [ids |-> IF job[p].entry = None THEN CountedUp(p)
                         ELSE {[id |-> NewEntry(Current(p)), table |-> Table(p), next |-> FirstNext]},
                 rows |-> {}])
  /\ job' = [job EXCEPT ![p].todo = Tail(@), ![p].entry = None]
  /\ Goto(p, Onward(p))
  /\ UNCHANGED <<driver, left, told, refused>>

Bump(p) ==
  /\ at[p] = "bump"
  /\ CanWrite(p, "ids")
  /\ ~EntryTaken(p)
  /\ Execute(p, [ids |-> IF job[p].entry = None THEN CountedUp(p)
                         ELSE {[id |-> job[p].entry, table |-> Table(p), next |-> FirstNext]},
                 rows |-> {}])
  /\ job' = [job EXCEPT ![p].todo = Tail(@), ![p].entry = None]
  /\ Goto(p, Onward(p))
  /\ UNCHANGED <<driver, left, told, refused>>

NewRow(p) ==
  [table |-> Table(p), id |-> Head(job[p].drawn), name |-> job[p].name,
   by |-> p, task |-> left[p]]

\* A table with a key has a row of this id.  The key of file has pool_id as
\* well, which is the same for all files.
KeyTaken(p) ==
  HasKey(Table(p)) /\
    \E r \in Current(p).rows : r.table = Table(p) /\ r.id = Head(job[p].drawn)

\* The key of blob is (id, file_id).  Whether two blobs are in one file is not
\* kept here, so that a second row of an id is accepted there or refused.
KeyAccepted(p) == KeyTaken(p) => Table(p) = "blob"

\* insert into <table> values (id, ...)
Insert(p) ==
  /\ Doing(p, "insert")
  /\ CanWrite(p, Table(p))
  /\ KeyAccepted(p)
  /\ Execute(p, [ids |-> {}, rows |-> {NewRow(p)}])
  /\ job' = [job EXCEPT ![p].todo = Tail(@), ![p].drawn = Tail(@)]
  /\ told' = IF Onward(p) = "idle" THEN told \cup {NewRow(p)} ELSE told
  /\ Goto(p, Onward(p))
  /\ UNCHANGED <<driver, left, refused>>

-----------------------------------------------------------------------------
(* Errors of a statement, and the end of a transaction.                    *)

\* What a MySQL connection waits for.
Waits(p) ==
  \/ at[p] = "bump" /\ ~CanWrite(p, "ids")
  \/ Doing(p, "insert") /\ ~CanWrite(p, Table(p))

\* Mutant: whoever catches the exception believes in a TransactionHandle.
ThrowScoped(p) ==
  /\ Goto(p, "unwind")
  /\ UNCHANGED <<driver, db, job, tx, left, told, refused>>

\* The exception passes the TransactionHandle, if there is one.
Throw(p) ==
  /\ Goto(p, IF job[p].scoped THEN "unwind" ELSE "idle")
  /\ UNCHANGED <<driver, db, job, tx, left, told, refused>>

\* Mutant: SQLite waits for its locks, as MySQL does, but without a timeout.
FailsOnDuplicates(p) ==
  /\ \/ at[p] = "bump" /\ CanWrite(p, "ids") /\ EntryTaken(p)
     \/ Doing(p, "insert") /\ CanWrite(p, Table(p)) /\ KeyTaken(p)
  /\ Throw(p)

\* SQLITE_BUSY at once (the driver sets no busy handler), or a duplicate key.
StatementFails(p) ==
  /\ \/ (Doing(p, "draw") \/ Doing(p, "find")) /\ ~CanRead(p)
     \/ driver = "sqlite3" /\ Waits(p)
     \/ at[p] = "bump" /\ CanWrite(p, "ids") /\ EntryTaken(p)
     \/ Doing(p, "insert") /\ CanWrite(p, Table(p)) /\ KeyTaken(p)
  /\ Throw(p)

\* The lock wait timeout of MySQL.
WaitTimesOut(p) ==
  /\ driver = "mysql" /\ Waits(p)
  /\ Throw(p)

\* Mutant: the destructor takes the transaction for ended.
RollbackSkipped(p) ==
  /\ at[p] = "unwind"
  /\ Goto(p, "idle")
  /\ UNCHANGED <<driver, db, job, tx, left, told, refused>>

\* TransactionHandle::~TransactionHandle: endTransaction(false).
RollbackTransaction(p) ==
  /\ at[p] = "unwind"
  /\ tx' = [tx EXCEPT ![p] = NoTransaction]
  /\ Goto(p, "idle")
  /\ UNCHANGED <<driver, db, job, left, told, refused>>

\* Mutant: the flag is handed on the wrong way round.
CommitRollsBack(p) ==
  /\ at[p] = "commit"
  /\ CanCommit(p)
  /\ told' = told \cup tx[p].wrote.rows
  /\ tx' = [tx EXCEPT ![p] = NoTransaction]
  /\ Goto(p, "idle")
  /\ UNCHANGED <<driver, db, job, left, refused>>

\* TransactionHandle::end(true): endTransaction(true).
CommitTransaction(p) ==
  /\ at[p] = "commit"
  /\ CanCommit(p)
  /\ db' = Overlay(db, tx[p].wrote)
  /\ told' = told \cup tx[p].wrote.rows
  /\ tx' = [tx EXCEPT ![p] = NoTransaction]
  /\ Goto(p, "idle")
  /\ UNCHANGED <<driver, job, left, refused>>

\* SQLite answers BUSY and keeps the transaction, now PENDING.  ended was set
\* before, so the destructor does not roll it back.
CommitRefused(p) ==
  /\ at[p] = "commit"
  /\ ~CanCommit(p)
  /\ tx' = [tx EXCEPT ![p].lock = "pending"]
  /\ refused' = refused \cup {p}
  /\ Goto(p, "idle")
  /\ UNCHANGED <<driver, db, job, left, told>>

-----------------------------------------------------------------------------

\* What an operation does by itself once it has begun.
Step(p) ==
  \/ FindContentType(p) \/ SelectNextId(p) \/ Bump(p) \/ Insert(p)
  \/ StatementFails(p) \/ RollbackTransaction(p)
  \/ CommitTransaction(p) \/ CommitRefused(p)

ConnectionsNext ==
  \E p \in Process :
    \/ Connect(p)
    \/ Close(p)
    \/ \E op \in Operations : Begin(p, op)
    \/ \E t \in Lookups, n \in Name : LookupMisses(p, t, n)
    \/ Step(p)
    \/ WaitTimesOut(p)

ConnectionsSpec == ConnectionsInit /\ [][ConnectionsNext]_vars

\* A process goes on with its operation; nobody has to time out.
FairConnections == ConnectionsSpec /\ \A p \in Process : WF_vars(Step(p))

-----------------------------------------------------------------------------
(* Properties.                                                             *)

\* The counter of a table is ahead of every id in it: an id drawn later is new,
\* whatever was rolled back, refused or lost with a process in between.
CounterAhead ==
  \A r \in db.rows : \A c \in db.ids : c.table = r.table => r.id < c.next

\* ids.table_name is unique, and every table with a row has its counter: two
\* transactions that both find none do not both insert one, although the key
\* of ids is another column.
OneCounterPerTable ==
  /\ \A c, d \in db.ids : c.table = d.table => c = d
  /\ \A r \in db.rows : \E c \in db.ids : c.table = r.table

\* Two committed rows that SQLite transactions inserted never share an id, in
\* the tables without a primary key as well (two sessions, two handles).
TransactionIdsDistinct ==
  driver = "sqlite3" =>
    \A r, s \in db.rows :
      r.table \notin {"prefix", "type"} /\ r.table = s.table /\ r.id = s.id => r = s

\* Two transactions that add blobs of one new content type insert it once: in
\* SQLite, the second finds the row of the first or is refused.
ContentTypeOnce ==
  driver = "sqlite3" =>
    \A r, s \in db.rows : r.table = "content_type" /\ s.table = "content_type" => r = s

\* What an operation reported as inserted is committed, unless this process
\* had a commit refused before: then its later work is in the transaction
\* that nobody ends.
ReportedIsCommitted ==
  \A r \in told : r \in db.rows \/ r.by \in refused

\* Between two operations a connection holds no transaction and no lock
\* another process could meet, except after a refused commit.
IdleHoldsNothing ==
  \A p \in Process :
    at[p] \in {"closed", "idle"} =>
      tx[p] = NoTransaction \/ (p \in refused /\ tx[p].lock = "pending")

\* Every operation that has begun ends, by returning or by throwing: nobody
\* waits for ever for the lock of another, without any timeout.
OperationsEnd ==
  \A p \in Process : at[p] \notin {"closed", "idle"} ~> at[p] \in {"closed", "idle"}

\* Prefix::get and Type::get find what is there: with as many processes as
\* there are at work, each inserts a name once at the most, also inside the
\* transaction a refused commit has left open.  (schema.sql calls the names
\* unique; two processes that both find none do insert it twice.)
OneEntryPerProcess ==
  \A r, s \in db.rows :
    r.table \in {"prefix", "type"} /\ r.table = s.table /\ r.name = s.name /\ r.by = s.by
      => r = s
=============================================================================

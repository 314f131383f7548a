------------------------------ MODULE Database ------------------------------
(***************************************************************************)
(* The tables of sql/schema.sql that sessions read and write.  Each table  *)
(* is a set of rows, each row a record.  A file is known by its id alone:  *)
(* its uuid is drawn at random once per row.  Columns no session logic     *)
(* looks at (pool, content type, predicate, process) are left out.         *)
(* The journal is kept as one sequence per session: its row ids are drawn  *)
(* from one counter and serve only to order the rows of one session.       *)
(* Ids of handles are left out as well: a session holds at most one handle *)
(* per object.                                                             *)
(***************************************************************************)
EXTENDS Integers, Sequences

CONSTANTS
  Name,        \* names of blobs within a file
  None,        \* "no session", "no blob", boost::none
  SeedFiles,   \* number of files earlier sessions have committed
  SeedBlobs,   \* the blobs they have committed: a sequence of [file, name]
  MaxSession,  \* bound: sessions ever started
  MaxFile,     \* bound: file ids ever drawn
  MaxBlob,     \* bound: blob ids ever drawn
  MaxTriple,   \* bound: metadata ids ever drawn
  MaxJournal   \* bound: journal rows of one session

ASSUME NoneAssumption == None \notin Int

ASSUME SeedAssumption ==
  /\ SeedFiles \in Nat
  /\ SeedBlobs \in Seq([file : 0 .. SeedFiles - 1, name : Name])
  /\ \A i, j \in DOMAIN SeedBlobs : SeedBlobs[i] = SeedBlobs[j] => i = j

ASSUME BoundAssumption ==
  /\ MaxSession \in Nat /\ MaxFile \in Nat /\ MaxBlob \in Nat /\ MaxTriple \in Nat
  /\ MaxJournal \in Nat

VARIABLES
  file,      \* rows of "file"
  blob,      \* rows of "blob"
  metadata,  \* rows of "metadata"
  handle,    \* rows of "handle"
  session,   \* ids of the rows of "session"
  ready,     \* those whose column "ready" is 1
  journal,   \* for each session id, its rows of "journal" in id order
  nextId     \* rows of "ids": the next id of each table

dbVars == <<file, blob, metadata, handle, session, ready, journal, nextId>>

-----------------------------------------------------------------------------

SessionId == 0 .. MaxSession - 1

Relation == {"File", "Blob", "Metadata"}
Operation == {"Add", "Remove", "Store"}

FileRow == [id : Nat, visible : BOOLEAN]
BlobRow == [id : Nat, file : Nat, name : Name, visible : BOOLEAN]
\* object is the id of a blob, or None when the object is a literal.
MetadataRow == [id : Nat, blob : Nat, object : Nat \cup {None}, visible : BOOLEAN]
HandleRow == [relation : {"File", "Blob"}, id : Nat, session : SessionId]
JournalRow ==
  [relation : Relation, relId : Nat, op : Operation, executed : BOOLEAN]

DatabaseTypeOK ==
  /\ file \in SUBSET FileRow
  /\ blob \in SUBSET BlobRow
  /\ metadata \in SUBSET MetadataRow
  /\ handle \in SUBSET HandleRow
  /\ session \in SUBSET SessionId
  /\ ready \in SUBSET session
  /\ journal \in [SessionId -> Seq(JournalRow)]
  /\ nextId \in [{"session", "file", "blob", "metadata"} -> Nat]

DatabaseInit ==
  /\ file = [id : 0 .. SeedFiles - 1, visible : {TRUE}]
  /\ blob = { [id |-> i - 1, file |-> SeedBlobs[i].file,
               name |-> SeedBlobs[i].name, visible |-> TRUE] :
              i \in DOMAIN SeedBlobs }
  /\ metadata = {}
  /\ handle = {}
  /\ session = {}
  /\ ready = {}
  /\ journal = [s \in SessionId |-> << >>]
  /\ nextId = [t \in {"session", "file", "blob", "metadata"} |->
                 IF t = "file" THEN SeedFiles
                 ELSE IF t = "blob" THEN Len(SeedBlobs) ELSE 0]

-----------------------------------------------------------------------------
(* What the statements have in common. *)

\* Connection::nextID: the id drawn is nextId[table].
DrawId(table) == nextId' = [nextId EXCEPT ![table] = @ + 1]

\* Some row of the journal of session s records op on the object.
Journaled(s, relation, id, op) ==
  \E i \in DOMAIN journal[s] :
    /\ journal[s][i].relation = relation
    /\ journal[s][i].relId = id
    /\ journal[s][i].op = op

\* insert into journal values (..., 0)
Log(s, relation, id, op) ==
  /\ Len(journal[s]) < MaxJournal
  /\ journal' = [journal EXCEPT ![s] =
                   Append(@, [relation |-> relation, relId |-> id,
                              op |-> op, executed |-> FALSE])]

FileHandle(f, s) == [relation |-> "File", id |-> f, session |-> s]
BlobHandle(b, s) == [relation |-> "Blob", id |-> b, session |-> s]

BlobExists(id) == \E b \in blob : b.id = id
=============================================================================

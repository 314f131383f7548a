------------------------------- MODULE Client -------------------------------
(***************************************************************************)
(* The actions of the command line (src/actions/impl) on one file, in one  *)
(* session: the calls each makes of Environment, File and Blob, and what   *)
(* these objects remember beside the tables.  Every call is a step, being  *)
(* one transaction or less; between two of them other sessions change what *)
(* is committed.  A file is opened by its uuid as the user spells it.      *)
(***************************************************************************)
EXTENDS Naturals, FiniteSets, SequencesExt

CONSTANTS
  Spelling,    \* ways to write the uuid of the file
  Name,        \* names of blobs, compared like numbers; the committed one is 1
  MaxBlob,     \* bound on the ids of blobs
  MaxTriple,   \* bound on the ids of triples
  MaxCommands, \* bound on the commands given
  None

ASSUME ClientAssumption ==
  /\ Name \subseteq Nat /\ IsFiniteSet(Name) /\ 1 \in Name
  /\ MaxBlob \in Nat \ {0} /\ MaxTriple \in Nat /\ MaxCommands \in Nat

VARIABLES
  rows,      \* the rows of blob
  triples,   \* the rows of metadata, with the spelling they were added under
  buffer,    \* Environment::buffer, of each File the buffer of its Blob objects
  modified,  \* VFS::modified: names
  journal,   \* what the session has journaled of its blobs, and through whom
  nextBlob, nextTriple,
  command,   \* what the user asked for last
  todo,      \* the calls still to be made for it
  failed,    \* the call that threw, None if none did
  disturbed, \* history: other sessions have changed something since it began
  left       \* commands still to be given

tables == <<rows, triples, nextBlob, nextTriple>>
vars == <<tables, buffer, modified, journal, command, todo, failed, disturbed, left>>

\* by: the spelling of the File that added it, None for another session.
Row == [id : Nat, name : Name, visible : BOOLEAN, by : Spelling \cup {None}]
TripleRow == [id : Nat, blob : Nat, visible : BOOLEAN, by : Spelling \cup {None}]
Object == [id : Nat, removed : BOOLEAN, newTriples : SUBSET Nat]
JournalRow == [op : {"Add", "Remove", "Store", "Describe"}, blob : Nat, by : Spelling]

Call == [do : {"open", "has", "add", "get", "names", "remove",
                "read", "write", "describe"},
         file : Spelling, name : Name]

Action == [action : {"cat", "store", "rm", "rmFile", "metadata"},
           file : Spelling, names : Seq(Name), objectFile : Spelling \cup {None}]

ASSUME NoneAssumption == None \notin Spelling \cup Call \cup Action

ClientTypeOK ==
  /\ rows \subseteq Row /\ triples \subseteq TripleRow
  /\ DOMAIN buffer \subseteq Spelling
  /\ \A sp \in DOMAIN buffer : \A n \in DOMAIN buffer[sp] :
       n \in Name /\ buffer[sp][n] \in Object
  /\ modified \subseteq Name
  /\ journal \in Seq(JournalRow)
  /\ nextBlob \in 0 .. MaxBlob /\ nextTriple \in 0 .. MaxTriple
  /\ command = None \/ command \in Action
  /\ todo \in Seq(Call) /\ failed \in Call \cup {None}
  /\ todo # << >> /\ Head(todo).do # "open" => Head(todo).file \in DOMAIN buffer
  /\ disturbed \in BOOLEAN
  /\ left \in 0 .. MaxCommands

\* A file with one committed blob, or none.
ClientInit ==
  /\ rows \in SUBSET [id : {0}, name : {1}, visible : {TRUE}, by : {None}]
  /\ triples = {}
  /\ buffer = << >>
  /\ modified = {}
  /\ journal = << >>
  /\ nextBlob = 1 /\ nextTriple = 0
  /\ command = None /\ todo = << >> /\ failed = None
  /\ disturbed = FALSE
  /\ left = MaxCommands

-----------------------------------------------------------------------------
(* What the tables and the objects say.                                    *)

VisibleNames == { r.name : r \in { q \in rows : q.visible } }

NameTaken(n) == \E r \in rows : r.name = n

\* The objects of a File that are not removed.
Live(sp) == { n \in DOMAIN buffer[sp] : ~buffer[sp][n].removed }

\* Mutant: what the buffer holds is forgotten.
GetVisibleNames(sp) == VisibleNames

\* File::getBlobNames.  The filter is for the keys of the buffer: a committed
\* blob that has been removed here is listed all the same.
GetBlobNames(sp) == VisibleNames \cup Live(sp)

HasBlob(sp, n) == n \in GetBlobNames(sp)

VisibleTriples(id) == { t.id : t \in { u \in triples : u.visible /\ u.blob = id } }

\* Blob::getTriples lists those of the table, then those added here.
GetTriples(object) == SetToSeq(VisibleTriples(object.id)) \o SetToSeq(object.newTriples)

-----------------------------------------------------------------------------
(* The actions: the calls each makes.                                      *)

Do(call, sp, n) == [do |-> call, file |-> sp, name |-> n]

\* Mutant: only the first.
RemoveOnlyFirst(sp, names) == IF names = << >> THEN << >>
                          ELSE <<Do("get", sp, names[1]), Do("remove", sp, names[1])>>

\* File::removeBlob, for one name after the other.
Removals(sp, names) ==
  [i \in 1 .. 2 * Len(names) |->
     Do(IF i % 2 = 1 THEN "get" ELSE "remove", sp, names[(i + 1) \div 2])]

\* The order of a std::set.
Ascending(S) == { s \in SetToSeqs(S) : \A i, j \in DOMAIN s : i < j => s[i] < s[j] }

\* The object of a triple is a blob unless objectFile is None.  ls and metadata
\* list open and get like cat, and print what they have read.
Calls(act) ==
  LET sp == act.file
      n == act.names[1]
      other == act.names[Len(act.names)]
  IN <<Do("open", sp, n)>> \o
     CASE act.action = "cat"    -> <<Do("get", sp, n), Do("read", sp, n)>>
       [] act.action = "store"  -> <<Do("has", sp, n), Do("get", sp, n), Do("write", sp, n)>>
       [] act.action = "rm"     -> Removals(sp, act.names)
       [] act.action = "rmFile" -> <<Do("names", sp, n)>>
       [] act.action = "metadata" ->
            <<Do("get", sp, n)>>
            \o (IF act.objectFile = None THEN << >>
                ELSE <<Do("open", act.objectFile, other), Do("get", act.objectFile, other)>>)
            \o <<Do("describe", sp, n)>>

\* The next line of the shell.  An exception leaves the shell and the program.
Begin(act) ==
  /\ todo = << >> /\ failed = None
  /\ left > 0
  /\ left' = left - 1
  /\ command' = act
  /\ todo' = Calls(act)
  /\ disturbed' = FALSE
  /\ UNCHANGED <<tables, buffer, modified, journal, failed>>

-----------------------------------------------------------------------------
(* The calls.                                                              *)

call == Head(todo)

Calling(what) == todo # << >> /\ call.do = what

Returns == todo' = Tail(todo) /\ UNCHANGED failed

Throws ==
  /\ todo' = << >>
  /\ failed' = call
  /\ UNCHANGED <<tables, buffer, modified, journal>>

Log(op, id) == journal' = Append(journal, [op |-> op, blob |-> id, by |-> call.file])

\* Buffer::set
SetObject(object) ==
  buffer' = [buffer EXCEPT ![call.file] =
    [n \in DOMAIN @ \cup {call.name} |-> IF n = call.name THEN object ELSE @[n]]]

NewObject(id) == [id |-> id, removed |-> FALSE, newTriples |-> {}]

Buffered == call.name \in DOMAIN buffer[call.file]
BlobObject == buffer[call.file][call.name]

\* Mutant: a File is not remembered.
GetFileForgotten ==
  /\ Calling("open")
  /\ Returns
  /\ UNCHANGED <<tables, buffer, modified, journal>>

\* Environment::getFile: the key is the spelling.
GetFile ==
  /\ Calling("open")
  /\ buffer' = [sp \in DOMAIN buffer \cup {call.file} |->
                  IF sp \in DOMAIN buffer THEN buffer[sp] ELSE << >>]
  /\ Returns
  /\ UNCHANGED <<tables, modified, journal>>

\* The condition of the action store.
CheckBlob ==
  /\ Calling("has")
  /\ todo' = IF HasBlob(call.file, call.name) THEN Tail(todo)
             ELSE <<Do("add", call.file, call.name)>> \o Tail(todo)
  /\ UNCHANGED <<tables, buffer, modified, journal, failed>>

\* File::addBlob
AddBlob ==
  /\ Calling("add")
  /\ IF NameTaken(call.name) THEN Throws
     ELSE /\ nextBlob < MaxBlob
          /\ rows' = rows \cup
               {[id |-> nextBlob, name |-> call.name, visible |-> FALSE, by |-> call.file]}
          /\ nextBlob' = nextBlob + 1
          /\ Log("Add", nextBlob)
          /\ SetObject(NewObject(nextBlob))
          /\ Returns
          /\ UNCHANGED <<triples, nextTriple, modified>>

\* Mutant: the buffer is not consulted.
GetFromTable ==
  /\ Calling("get")
  /\ IF call.name \notin VisibleNames THEN Throws
     ELSE /\ \E r \in rows : r.name = call.name /\ r.visible /\ SetObject(NewObject(r.id))
          /\ Returns
          /\ UNCHANGED <<tables, modified, journal>>

\* Mutant: an object in the buffer is given out whether it is removed or not.
GetBlobRemoved ==
  /\ Calling("get")
  /\ IF Buffered
     THEN Returns /\ UNCHANGED <<tables, buffer, modified, journal>>
     ELSE IF call.name \notin VisibleNames THEN Throws
     ELSE /\ \E r \in rows : r.name = call.name /\ r.visible /\ SetObject(NewObject(r.id))
          /\ Returns
          /\ UNCHANGED <<tables, modified, journal>>

\* File::getBlob: from the buffer, unless removed; if it is not there, from the
\* table, if visible.
GetBlob ==
  /\ Calling("get")
  /\ IF IF Buffered THEN BlobObject.removed ELSE call.name \notin VisibleNames
     THEN Throws
     ELSE /\ \/ Buffered /\ UNCHANGED buffer
             \/ /\ ~Buffered
                /\ \E r \in rows :
                     r.name = call.name /\ r.visible /\ SetObject(NewObject(r.id))
          /\ Returns
          /\ UNCHANGED <<tables, modified, journal>>

\* File::removeFile: what is listed, in order.
RemoveFile ==
  /\ Calling("names")
  /\ \E names \in Ascending(GetBlobNames(call.file)) : todo' = Removals(call.file, names)
  /\ UNCHANGED <<tables, buffer, modified, journal, failed>>

\* Blob::remove
RemoveBlob ==
  /\ Calling("remove")
  /\ Log("Remove", BlobObject.id)
  /\ SetObject([BlobObject EXCEPT !.removed = TRUE, !.newTriples = {}])
  /\ Returns
  /\ UNCHANGED <<tables, modified>>

\* VFS::getBlobPath: for reading, a file of its own is needed only where there
\* are no contents yet.
UseContents ==
  /\ Calling("read")
  /\ call.name \in modified \cup VisibleNames
  /\ Returns
  /\ UNCHANGED <<tables, buffer, modified, journal>>

WriteBlob ==
  /\ Calling("write") \/ Calling("read")
  /\ IF call.name \in modified THEN UNCHANGED journal ELSE Log("Store", BlobObject.id)
  /\ modified' = modified \cup {call.name}
  /\ Returns
  /\ UNCHANGED <<tables, buffer>>

\* Blob::addTriple
AddTriple ==
  /\ Calling("describe")
  /\ nextTriple < MaxTriple
  /\ triples' = triples \cup
       {[id |-> nextTriple, blob |-> BlobObject.id, visible |-> FALSE, by |-> call.file]}
  /\ nextTriple' = nextTriple + 1
  /\ Log("Describe", BlobObject.id)
  /\ SetObject([BlobObject EXCEPT !.newTriples = @ \cup {nextTriple}])
  /\ Returns
  /\ UNCHANGED <<rows, nextBlob, modified>>

-----------------------------------------------------------------------------
(* The other sessions: what they add, what becomes visible of it or is     *)
(* rolled back, and what they remove.                                      *)

OthersAdd(n) ==
  /\ ~NameTaken(n)
  /\ nextBlob < MaxBlob
  /\ rows' = rows \cup {[id |-> nextBlob, name |-> n, visible |-> FALSE, by |-> None]}
  /\ nextBlob' = nextBlob + 1
  /\ UNCHANGED <<triples, nextTriple>>

OthersPublish(r) ==
  /\ ~r.visible
  /\ rows' = (rows \ {r}) \cup {[r EXCEPT !.visible = TRUE]}
  /\ UNCHANGED <<triples, nextBlob, nextTriple>>

OthersRemove(r) ==
  /\ rows' = rows \ {r}
  /\ UNCHANGED <<triples, nextBlob, nextTriple>>

OthersDescribe(r) ==
  /\ r.visible
  /\ nextTriple < MaxTriple
  /\ triples' = triples \cup
       {[id |-> nextTriple, blob |-> r.id, visible |-> TRUE, by |-> None]}
  /\ nextTriple' = nextTriple + 1
  /\ UNCHANGED <<rows, nextBlob>>

Others ==
  /\ \/ \E n \in Name : OthersAdd(n)
     \/ \E r \in { q \in rows : q.by = None } :
          OthersPublish(r) \/ OthersRemove(r) \/ OthersDescribe(r)
  /\ disturbed' = TRUE
  /\ UNCHANGED <<buffer, modified, journal, command, todo, failed, left>>

-----------------------------------------------------------------------------

Continue ==
  /\ \/ GetFile \/ CheckBlob \/ AddBlob \/ GetBlob \/ RemoveFile
     \/ RemoveBlob \/ UseContents \/ WriteBlob \/ AddTriple
  /\ UNCHANGED <<command, disturbed, left>>

Commands ==
  [action : {"cat", "store", "rmFile"},
   file : Spelling, names : [{1} -> Name], objectFile : {None}]
  \cup [action : {"rm"}, file : Spelling, names : [1 .. 2 -> Name], objectFile : {None}]
  \cup [action : {"metadata"}, file : Spelling, names : [1 .. 2 -> Name],
        objectFile : Spelling \cup {None}]

ClientNext ==
  \/ \E act \in Commands : Begin(act)
  \/ Continue
  \/ Others

ClientSpec == ClientInit /\ [][ClientNext]_vars

-----------------------------------------------------------------------------
(* Properties.                                                             *)

RemovedThrough(sp, n) == n \in DOMAIN buffer[sp] /\ n \notin Live(sp)

\* Why a command ends with an exception when no other session did anything
\* meanwhile: a store, and the removal of a file, only because of a blob that
\* was removed earlier through the same File and is committed (it is still
\* listed), or of a row that nobody can see, added by another session, or by
\* this one under another spelling of the uuid, or removed here.
ExceptionsExplained ==
  failed # None /\ ~disturbed =>
    LET n == failed.name
        sp == failed.file IN
    IF failed.do = "add"
    THEN n \notin VisibleNames \cup Live(sp) /\ NameTaken(n)
    ELSE \/ RemovedThrough(sp, n)
         \/ command.action \notin {"store", "rmFile"} /\ n \notin VisibleNames \cup Live(sp)

\* rm without a name, if it throws no exception and no other session changes
\* the file meanwhile, leaves no blob in it that could be opened through it.
RmEmptiesFile ==
  command # None =>
    (command.action = "rmFile" /\ todo = << >> /\ failed = None /\ ~disturbed
       => Live(command.file) = {} /\ VisibleNames \subseteq DOMAIN buffer[command.file])

\* What a session has added to a blob is what it reads back through the same
\* File, after whatever commands, beside what is committed, and no triple is
\* read twice.
TriplesReadBack ==
  \A sp \in DOMAIN buffer : \A n \in Live(sp) :
    LET got == GetTriples(buffer[sp][n]) IN
    /\ IsInjective(got)
    /\ \A t \in triples : t.blob = buffer[sp][n].id =>
         (t.visible \/ t.by = sp <=> t.id \in ToSet(got))

\* A removal is the last thing a File has journaled of a blob: nothing is stored
\* into it, said about it or removed again through that File.  Through another
\* spelling of the uuid it may be.
RemovalIsFinal ==
  \A i, j \in DOMAIN journal :
    i < j /\ journal[i].op = "Remove" /\ journal[j].blob = journal[i].blob
      => journal[j].by # journal[i].by
=============================================================================

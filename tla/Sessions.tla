------------------------------ MODULE Sessions ------------------------------
(***************************************************************************)
(* Processes sharing one database: each has an Environment (src/env), and  *)
(* through it File and Blob objects (src/objects) of the session it is in. *)
(* Every database transaction is one step; what a process does between two *)
(* transactions (a commit has at least six of them) interleaves with the   *)
(* steps of the others.  The contents of blobs are not modelled here.      *)
(***************************************************************************)
EXTENDS Isolation

CONSTANTS
  Env,       \* the processes
  UseLevels, \* isolation levels the commits ask for
  Commands,  \* what the users do
  Faults     \* what goes wrong

CommandKinds == {"create", "add", "store", "rm", "metadata", "rollback", "exit", "clean"}
FaultKinds == {"crash", "store", "commit", "finish", "rollback"}

ASSUME EnvironmentAssumption ==
  /\ None \notin Env
  /\ UseLevels \in SUBSET Levels
  /\ Commands \in SUBSET CommandKinds
  /\ Faults \in SUBSET FaultKinds

VARIABLES
  lock,      \* the "session" MemLock: the process holding it, or None
  pc,        \* where each process is between two of its transactions
  sid,       \* Environment::id, None when in no session
  files,     \* Environment::buffer: ids of the File objects
  nullFiles, \* keys of that buffer whose entry is a null pointer
  blobs,     \* File::buffer of each of these files: the Blob objects
  modified,  \* VFS::modified: the keys <<file, name>>
  todo       \* VFS::apply: the journal rows selected and not yet executed

envVars == <<lock, pc, sid, files, nullFiles, blobs, modified, todo>>
vars == <<dbVars, envVars>>

\* "idle" is between two commands, "dead" is a process that is gone.
\* Commit goes idle, select, apply, finish, clear, idle; "replace" is inside
\* addBlob, before the destructor of the object it replaces.
Places ==
  {"idle", "replace", "select", "apply", "finish", "clear", "rollback", "exit", "dead"}

BlobObject == [file : Nat, id : Nat, name : Name, removed : BOOLEAN]

EnvTypeOK ==
  /\ lock \in Env \cup {None}
  /\ pc \in [Env -> Places]
  /\ sid \in [Env -> SessionId \cup {None}]
  /\ files \in [Env -> SUBSET Nat]
  /\ nullFiles \in [Env -> SUBSET Nat]
  /\ blobs \in [Env -> SUBSET BlobObject]
  /\ modified \in [Env -> SUBSET (Nat \X Name)]
  /\ todo \in [Env -> SUBSET Nat]

\* The tables and the objects hold what their declarations say.
TypeOK == DatabaseTypeOK /\ EnvTypeOK

Init ==
  /\ DatabaseInit
  /\ lock = None
  /\ pc = [e \in Env |-> "idle"]
  /\ sid = [e \in Env |-> None]
  /\ files = [e \in Env |-> {}]
  /\ nullFiles = [e \in Env |-> {}]
  /\ blobs = [e \in Env |-> {}]
  /\ modified = [e \in Env |-> {}]
  /\ todo = [e \in Env |-> {}]

InSession(e) == pc[e] = "idle" /\ sid[e] # None

Goto(e, place) == pc' = [pc EXCEPT ![e] = place]

-----------------------------------------------------------------------------
(* Environment::startSession. *)

StartSession(e) ==
  /\ pc[e] = "idle" /\ sid[e] = None
  /\ nextId["session"] < MaxSession
  /\ sid' = [sid EXCEPT ![e] = nextId["session"]]
  /\ session' = session \cup {nextId["session"]}
  /\ DrawId("session")
  /\ UNCHANGED <<file, blob, metadata, handle, ready, journal,
                 lock, pc, files, nullFiles, blobs, modified, todo>>

-----------------------------------------------------------------------------
(* Files: Environment::createFile and getFile, File::ensureFile. *)

\* Mutant: a file is taken for committed as soon as it has a row.
FileHasRow(f) == \E r \in file : r.id = f

FileVisible(f) == \E r \in file : r.id = f /\ r.visible

CreateFile(e) ==
  LET f == nextId["file"] IN
  /\ "create" \in Commands
  /\ InSession(e)
  /\ f < MaxFile
  /\ file' = file \cup {[id |-> f, visible |-> FALSE]}
  /\ Log(sid[e], "File", f, "Add")
  /\ handle' = handle \cup {FileHandle(f, sid[e])}
  /\ DrawId("file")
  /\ files' = [files EXCEPT ![e] = @ \cup {f}]
  /\ UNCHANGED <<blob, metadata, session, ready,
                 lock, pc, sid, nullFiles, blobs, modified, todo>>

GetFile(e, f) ==
  /\ InSession(e)
  /\ f \notin files[e] \cup nullFiles[e]
  /\ FileVisible(f)
  /\ handle' = handle \cup {FileHandle(f, sid[e])}
  /\ files' = [files EXCEPT ![e] = @ \cup {f}]
  /\ UNCHANGED <<file, blob, metadata, session, ready, journal, nextId,
                 lock, pc, sid, nullFiles, blobs, modified, todo>>

\* ensureFile throws inside `buffer[key] = func()`: the compiler may have
\* evaluated buffer[key] already, which leaves a null entry behind.
GetFileThrows(e, f) ==
  /\ InSession(e)
  /\ f < nextId["file"]
  /\ f \notin files[e] \cup nullFiles[e]
  /\ ~FileVisible(f)
  /\ nullFiles' = [nullFiles EXCEPT ![e] = @ \cup {f}]
  /\ UNCHANGED <<dbVars, lock, pc, sid, files, blobs, modified, todo>>

-----------------------------------------------------------------------------
(* Blobs: File::getBlob, addBlob and Blob::remove, getPath, addTriple. *)

\* The entry of File::buffer under a name.
BlobObjects(e, f, n) == { b \in blobs[e] : b.file = f /\ b.name = n }

GetBlob(e, f, n) ==
  /\ InSession(e)
  /\ f \in files[e]
  /\ BlobObjects(e, f, n) = {}
  /\ \E b \in blob :
       /\ b.file = f /\ b.name = n /\ b.visible
       /\ handle' = handle \cup {BlobHandle(b.id, sid[e])}
       /\ blobs' = [blobs EXCEPT ![e] = @ \cup
                      {[file |-> f, id |-> b.id, name |-> n, removed |-> FALSE]}]
  /\ UNCHANGED <<file, blob, metadata, session, ready, journal, nextId,
                 lock, pc, sid, files, nullFiles, modified, todo>>

\* Mutant: addBlob looks only at what is committed, as getBlob does.
NameTakenVisibly(f, n) == \E b \in blob : b.file = f /\ b.name = n /\ b.visible

\* addBlob looks for any row, visible or not.
NameTaken(f, n) == \E b \in blob : b.file = f /\ b.name = n

AddBlob(e, f, n) ==
  LET id == nextId["blob"] IN
  /\ "add" \in Commands
  /\ InSession(e)
  /\ f \in files[e]
  /\ ~NameTaken(f, n)
  /\ id < MaxBlob
  /\ blob' = blob \cup {[id |-> id, file |-> f, name |-> n, visible |-> FALSE]}
  /\ Log(sid[e], "Blob", id, "Add")
  /\ DrawId("blob")
  /\ handle' = handle \cup {BlobHandle(id, sid[e])}
  /\ blobs' = [blobs EXCEPT ![e] = @ \cup
                 {[file |-> f, id |-> id, name |-> n, removed |-> FALSE]}]
  /\ Goto(e, IF BlobObjects(e, f, n) = {} THEN "idle" ELSE "replace")
  /\ UNCHANGED <<file, metadata, session, ready, lock, sid, files, nullFiles, modified, todo>>

\* The object buffer.set has replaced by the newer one of the same name.
Replaced(e) ==
  { b \in blobs[e] : \E c \in blobs[e] : c.file = b.file /\ c.name = b.name /\ b.id < c.id }

\* Mutant: the handle of the replaced object is forgotten.
NoHandlesReplaced(e) == {}

ReplacedHandles(e) == { BlobHandle(b.id, sid[e]) : b \in Replaced(e) }

\* Its destructor closes its handle in a transaction of its own.
CloseReplaced(e) ==
  /\ pc[e] = "replace"
  /\ handle' = handle \ ReplacedHandles(e)
  /\ blobs' = [blobs EXCEPT ![e] = @ \ Replaced(e)]
  /\ Goto(e, "idle")
  /\ UNCHANGED <<file, blob, metadata, session, ready, journal, nextId,
                 lock, sid, files, nullFiles, modified, todo>>

RemoveBlob(e, b) ==
  /\ "rm" \in Commands
  /\ InSession(e)
  /\ ~b.removed
  /\ Log(sid[e], "Blob", b.id, "Remove")
  /\ blobs' = [blobs EXCEPT ![e] = (@ \ {b}) \cup {[b EXCEPT !.removed = TRUE]}]
  /\ UNCHANGED <<file, blob, metadata, handle, session, ready, nextId,
                 lock, pc, sid, files, nullFiles, modified, todo>>

\* VFS::getBlobPath where it journals: the path is to be written, or nothing
\* is stored under it yet (which only the file system knows).
StoreBlob(e, b) ==
  /\ "store" \in Commands
  /\ InSession(e)
  /\ ~b.removed
  /\ <<b.file, b.name>> \notin modified[e]
  /\ Log(sid[e], "Blob", b.id, "Store")
  /\ modified' = [modified EXCEPT ![e] = @ \cup {<<b.file, b.name>>}]
  /\ UNCHANGED <<file, blob, metadata, handle, session, ready, nextId,
                 lock, pc, sid, files, nullFiles, blobs, todo>>

\* The transaction of getBlobPath throws after modified has been set.
StoreBlobThrows(e, b) ==
  /\ "store" \in Faults \cap Commands
  /\ InSession(e)
  /\ ~b.removed
  /\ modified' = [modified EXCEPT ![e] = @ \cup {<<b.file, b.name>>}]
  /\ UNCHANGED <<dbVars, lock, pc, sid, files, nullFiles, blobs, todo>>

\* Neither this blob nor the object is checked for having been removed.
AddTriple(e, b, object) ==
  LET id == nextId["metadata"] IN
  /\ "metadata" \in Commands
  /\ InSession(e)
  /\ id < MaxTriple
  /\ metadata' = metadata \cup
       {[id |-> id, blob |-> b.id, object |-> object, visible |-> FALSE]}
  /\ Log(sid[e], "Metadata", id, "Add")
  /\ DrawId("metadata")
  /\ UNCHANGED <<file, blob, handle, session, ready,
                 lock, pc, sid, files, nullFiles, blobs, modified, todo>>

-----------------------------------------------------------------------------
(* Environment::commitSession.  The lock is held from the check to the end. *)

\* Mutant: the commit does not wait for the lock.
LockIgnored == TRUE

LockFree == lock = None

\* Mutant: the row is inserted where it is missing.
MarkedReadyAlways(s) == ready \cup {s}

\* Step 0.1 updates the row of the session, if there is one.
MarkedReady(s) == ready \cup ({s} \cap session)

\* Steps 0.1 to 0.3 in one transaction, the lock just taken.
CommitPasses(e, level) ==
  /\ InSession(e)
  /\ LockFree
  /\ IsIsolated(level, sid[e])
  /\ ~Invalidated(sid[e])
  /\ lock' = e
  /\ ready' = MarkedReady(sid[e])
  /\ Goto(e, "select")
  /\ UNCHANGED <<file, blob, metadata, handle, session, journal, nextId,
                 sid, files, nullFiles, blobs, modified, todo>>

\* CommitException: the session goes on, marked ready.
CommitRejected(e, level) ==
  /\ InSession(e)
  /\ LockFree
  /\ ~IsIsolated(level, sid[e]) \/ Invalidated(sid[e])
  /\ ready' = MarkedReady(sid[e])
  /\ UNCHANGED <<file, blob, metadata, handle, session, journal, nextId, envVars>>

\* VFS::apply: the rows its query selects.
Unexecuted(s) ==
  { i \in DOMAIN journal[s] :
      /\ journal[s][i].relation = "Blob"
      /\ journal[s][i].op \in {"Store", "Remove"}
      /\ ~journal[s][i].executed
      /\ \E b \in blob, f \in file : b.id = journal[s][i].relId /\ f.id = b.file }

ApplySelect(e) ==
  /\ pc[e] = "select"
  /\ todo' = [todo EXCEPT ![e] = Unexecuted(sid[e])]
  /\ Goto(e, "apply")
  /\ UNCHANGED <<dbVars, lock, sid, files, nullFiles, blobs, modified>>

\* One round of the loop: the file operation, then its row marked executed.
ApplyRow(e) ==
  /\ pc[e] = "apply"
  /\ \E i \in todo[e] :
       /\ \A k \in todo[e] : i <= k
       /\ journal' = [journal EXCEPT ![sid[e]][i].executed = TRUE]
       /\ todo' = [todo EXCEPT ![e] = @ \ {i}]
  /\ UNCHANGED <<file, blob, metadata, handle, session, ready, nextId,
                 lock, pc, sid, files, nullFiles, blobs, modified>>

\* A file operation or a statement of apply or of the second transaction
\* throws.  Nothing that was executed is undone.
CommitThrows(e) ==
  /\ "commit" \in Faults
  /\ pc[e] \in {"select", "apply"}
  /\ lock' = None
  /\ todo' = [todo EXCEPT ![e] = {}]
  /\ Goto(e, "idle")
  /\ UNCHANGED <<dbVars, sid, files, nullFiles, blobs, modified>>

\* Step 3 and, its statement being cached under the key of step 3, step 5.
RemovedBy(s, b) == \E r \in {"Blob", "Metadata"} : Journaled(s, r, b.id, "Remove")

\* Mutant: the wrong operation is bound to the statement.
MadeVisibleIfStored(s, relation, rows) ==
  { IF Journaled(s, relation, r.id, "Store") THEN [r EXCEPT !.visible = TRUE] ELSE r :
    r \in rows }

\* Mutant: the rows of all sessions.
MadeVisibleForAll(s, relation, rows) == { [r EXCEPT !.visible = TRUE] : r \in rows }

\* Steps 1, 2 and 4.
MadeVisible(s, relation, rows) ==
  { IF Journaled(s, relation, r.id, "Add") THEN [r EXCEPT !.visible = TRUE] ELSE r :
    r \in rows }

\* Mutant: only rows that were executed are flushed.
FlushedExecuted(s) ==
  [journal EXCEPT ![s] = SelectSeq(@, LAMBDA j : ~j.executed)]

\* delete from journal where session_id = ?
FlushedJournal(s) == [journal EXCEPT ![s] = << >>]

\* Steps 1 to 7, the second transaction.
Publish(e) ==
  LET s == sid[e] IN
  /\ pc[e] = "apply" /\ todo[e] = {}
  /\ file' = MadeVisible(s, "File", file)
  /\ blob' = MadeVisible(s, "Blob", { b \in blob : ~RemovedBy(s, b) })
  /\ metadata' = MadeVisible(s, "Metadata", metadata)
  /\ journal' = FlushedJournal(s)
  /\ session' = session \ {s}
  /\ ready' = ready \ {s}
  /\ Goto(e, "finish")
  /\ UNCHANGED <<handle, nextId, lock, sid, files, nullFiles, blobs, modified, todo>>

\* Mutant: what the VFS remembers outlives the commit.
FinishForgetful(e) ==
  /\ pc[e] = "finish"
  /\ nullFiles' = [nullFiles EXCEPT ![e] = {}]
  /\ Goto(e, "clear")
  /\ UNCHANGED <<dbVars, lock, sid, files, blobs, modified, todo>>

\* VFS::Transaction::finish, then buffer.clear() begins.
Finish(e) ==
  /\ pc[e] = "finish"
  /\ modified' = [modified EXCEPT ![e] = {}]
  /\ nullFiles' = [nullFiles EXCEPT ![e] = {}]
  /\ Goto(e, "clear")
  /\ UNCHANGED <<dbVars, lock, sid, files, blobs, todo>>

\* A backup cannot be removed: id stays set though the session row is gone.
FinishThrows(e) ==
  /\ "finish" \in Faults
  /\ pc[e] = "finish"
  /\ lock' = None
  /\ Goto(e, "idle")
  /\ UNCHANGED <<dbVars, sid, files, nullFiles, blobs, modified, todo>>

CommitEnd(e) ==
  /\ pc[e] = "clear" /\ files[e] = {} /\ blobs[e] = {}
  /\ sid' = [sid EXCEPT ![e] = None]
  /\ lock' = None
  /\ Goto(e, "idle")
  /\ UNCHANGED <<dbVars, files, nullFiles, blobs, modified, todo>>

-----------------------------------------------------------------------------
(* buffer.clear(): every destructor closes its handle in a transaction of  *)
(* its own, a File's before those of the blobs in its buffer.              *)

\* Mutant: the end of a commit forgets to clear the buffer.
ClearingUncommitted(e) == pc[e] \in {"rollback", "exit"}

Clearing(e) == pc[e] \in {"clear", "rollback", "exit"}

CloseFile(e, f) ==
  /\ Clearing(e)
  /\ \A b \in blobs[e] : b.file \in files[e]
  /\ handle' = handle \ {FileHandle(f, sid[e])}
  /\ files' = [files EXCEPT ![e] = @ \ {f}]
  /\ UNCHANGED <<file, blob, metadata, session, ready, journal, nextId,
                 lock, pc, sid, nullFiles, blobs, modified, todo>>

\* Mutant: the objects of removed blobs are skipped.
CloseUnremovedBlob(e, b) ==
  /\ Clearing(e)
  /\ b.file \notin files[e] /\ ~b.removed
  /\ handle' = handle \ {BlobHandle(b.id, sid[e])}
  /\ blobs' = [blobs EXCEPT ![e] = @ \ {b}]
  /\ UNCHANGED <<file, blob, metadata, session, ready, journal, nextId,
                 lock, pc, sid, files, nullFiles, modified, todo>>

CloseBlob(e, b) ==
  /\ Clearing(e)
  /\ b.file \notin files[e]
  /\ handle' = handle \ {BlobHandle(b.id, sid[e])}
  /\ blobs' = [blobs EXCEPT ![e] = @ \ {b}]
  /\ UNCHANGED <<file, blob, metadata, session, ready, journal, nextId,
                 lock, pc, sid, files, nullFiles, modified, todo>>

-----------------------------------------------------------------------------
(* Environment::rollbackSession: it takes no lock, and VFS::modified keeps *)
(* what the session stored.                                                *)

Rollback(e) ==
  /\ "rollback" \in Commands
  /\ InSession(e)
  /\ nullFiles' = [nullFiles EXCEPT ![e] = {}]
  /\ Goto(e, "rollback")
  /\ UNCHANGED <<dbVars, lock, sid, files, blobs, modified, todo>>

\* What a rollback of s deletes.  The statement for metadata is cached under
\* the key of the one for blobs, so it deletes blobs again, those whose id is
\* that of a journaled metadata row.
RolledBack(s, relation, id) == \E op \in Operation : Journaled(s, relation, id, op)

RollbackRows(e) ==
  LET s == sid[e] IN
  /\ pc[e] = "rollback" /\ files[e] = {} /\ blobs[e] = {}
  /\ file' = { f \in file : ~RolledBack(s, "File", f.id) }
  /\ blob' = { b \in blob : /\ ~RolledBack(s, "Blob", b.id)
                            /\ ~RolledBack(s, "Metadata", b.id) }
  /\ journal' = FlushedJournal(s)
  /\ session' = session \ {s}
  /\ ready' = ready \ {s}
  /\ sid' = [sid EXCEPT ![e] = None]
  /\ Goto(e, "idle")
  /\ UNCHANGED <<metadata, handle, nextId, lock, files, nullFiles, blobs, modified, todo>>

\* The transaction throws: the session goes on with an empty buffer.
RollbackThrows(e) ==
  /\ "rollback" \in Faults
  /\ pc[e] = "rollback" /\ files[e] = {} /\ blobs[e] = {}
  /\ Goto(e, "idle")
  /\ UNCHANGED <<dbVars, lock, sid, files, nullFiles, blobs, modified, todo>>

-----------------------------------------------------------------------------
(* The end of a process, and Environment::cleanSessions.                   *)

\* main leaves through an exception: ~Environment clears the buffer, and the
\* rows of the session and of its journal stay.
Exit(e) ==
  /\ "exit" \in Commands
  /\ pc[e] = "idle"
  /\ nullFiles' = [nullFiles EXCEPT ![e] = {}]
  /\ Goto(e, "exit")
  /\ UNCHANGED <<dbVars, lock, sid, files, blobs, modified, todo>>

ExitEnd(e) ==
  /\ pc[e] = "exit" /\ files[e] = {} /\ blobs[e] = {}
  /\ sid' = [sid EXCEPT ![e] = None]
  /\ modified' = [modified EXCEPT ![e] = {}]
  /\ Goto(e, "dead")
  /\ UNCHANGED <<dbVars, lock, files, nullFiles, blobs, todo>>

\* Between any two transactions.  A lock held lies in shared memory and stays.
Crash(e) ==
  /\ "crash" \in Faults
  /\ pc[e] # "dead"
  /\ sid' = [sid EXCEPT ![e] = None]
  /\ files' = [files EXCEPT ![e] = {}]
  /\ nullFiles' = [nullFiles EXCEPT ![e] = {}]
  /\ blobs' = [blobs EXCEPT ![e] = {}]
  /\ modified' = [modified EXCEPT ![e] = {}]
  /\ todo' = [todo EXCEPT ![e] = {}]
  /\ Goto(e, "dead")
  /\ UNCHANGED <<dbVars, lock>>

\* Mutant: a session that is ready is taken for finished.
HandleIsStaleOrReady(h) == h.session \notin session \ ready

HandleIsStale(h) == h.session \notin session

CleanSessions(e) ==
  /\ "clean" \in Commands
  /\ pc[e] = "idle"
  /\ handle' = { h \in handle : ~HandleIsStale(h) }
  /\ UNCHANGED <<file, blob, metadata, session, ready, journal, nextId, envVars>>

-----------------------------------------------------------------------------

Command(e) ==
  \/ StartSession(e)
  \/ CreateFile(e)
  \/ \E f \in 0 .. nextId["file"] - 1 : GetFile(e, f)
  \/ \E f \in files[e], n \in Name : GetBlob(e, f, n) \/ AddBlob(e, f, n)
  \/ \E b \in blobs[e] : RemoveBlob(e, b) \/ StoreBlob(e, b)
  \/ \E b \in blobs[e], object \in {None} \cup { c.id : c \in blobs[e] } :
       AddTriple(e, b, object)
  \/ \E level \in UseLevels : CommitPasses(e, level) \/ CommitRejected(e, level)
  \/ Rollback(e)
  \/ Exit(e)
  \/ CleanSessions(e)

\* What the code goes on to do by itself.
Continue(e) ==
  \/ CloseReplaced(e)
  \/ ApplySelect(e) \/ ApplyRow(e) \/ Publish(e) \/ Finish(e) \/ CommitEnd(e)
  \/ \E f \in files[e] : CloseFile(e, f)
  \/ \E b \in blobs[e] : CloseBlob(e, b)
  \/ RollbackRows(e)
  \/ ExitEnd(e)

\* What throws or dies.
Fault(e) ==
  \/ \E f \in 0 .. nextId["file"] - 1 : GetFileThrows(e, f)
  \/ \E b \in blobs[e] : StoreBlobThrows(e, b)
  \/ CommitThrows(e)
  \/ FinishThrows(e)
  \/ RollbackThrows(e)
  \/ Crash(e)

Next == \E e \in Env : Command(e) \/ Continue(e) \/ Fault(e)

Spec == Init /\ [][Next]_vars

\* A process that is inside a commit, a rollback or its exit keeps running.
FairSpec == Spec /\ \A e \in Env : WF_vars(Continue(e))
=============================================================================

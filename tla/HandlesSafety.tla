---------------------------- MODULE HandlesSafety ---------------------------
(***************************************************************************)
(* Objects, handles and the lock of commits: what the isolation checks of  *)
(* a commit rely on.  The invariants of SessionSafety are used throughout. *)
(***************************************************************************)
EXTENDS SessionSafety

\* Inside a commit a process has the lock.
LockHeld ==
  \A e \in Env : pc[e] \in {"select", "apply", "finish", "clear"} => lock = e

\* A process that is gone is in no session.
DeadGone == \A e \in Env : pc[e] = "dead" => sid[e] = None

LockInv == LockHeld /\ DeadGone

\* Whatever refers to a row by its id came after the row was created.
ReferencesDrawn ==
  /\ \A s \in SessionId, id \in Nat, op \in Operation :
       /\ Journaled(s, "Blob", id, op) => id < nextId["blob"]
       /\ Journaled(s, "Metadata", id, op) => id < nextId["metadata"]
  /\ \A m \in metadata :
       /\ m.id < nextId["metadata"]
       /\ m.blob < nextId["blob"]
       /\ m.object # None => m.object < nextId["blob"]
  /\ \A h \in handle : h.session < nextId["session"]
  /\ \A s \in session : s < nextId["session"]

\* A buffer has one object of a blob, with the file and the name in its row.
ObjectsKeyed(e) ==
  \A b \in blobs[e] :
    /\ \A c \in blobs[e] : b.id = c.id => b = c
    /\ \A r \in blob : r.id = b.id => r.file = b.file /\ r.name = b.name

\* An object is replaced only where its row is gone.
ReplacedGone(e) == \A b \in Replaced(e) : ~BlobExists(b.id)

\* The object of a blob is in the buffer of a File.
ObjectsInFiles(e) == ~Clearing(e) => \A b \in blobs[e] : b.file \in files[e]

ObjectInv == \A e \in Env : ObjectsKeyed(e) /\ ReplacedGone(e) /\ ObjectsInFiles(e)

HasObject(e, h) ==
  \/ h.relation = "File" /\ h.id \in files[e]
  \/ h.relation = "Blob" /\ \E b \in blobs[e] : b.id = h.id

\* The handles of the session a process is in are those of its objects.
HandlesOwned ==
  \A h \in handle, e \in Env : h.session = sid[e] => HasObject(e, h)

\* The row of a session stays until its commit or its rollback.
SessionsAlive ==
  \A e \in Env : Owner(e) \/ pc[e] = "rollback" => sid[e] \in session

\* Handles outlive the row of their session only while a commit ends, or when
\* its process has died with the lock.
StaleHandles ==
  \A h \in handle : h.session \notin session =>
    \E e \in Env : /\ lock = e
                   /\ \/ pc[e] = "dead"
                      \/ pc[e] \in {"finish", "clear"} /\ sid[e] = h.session

\* Where the end of a commit does not throw.
HandleInv ==
  "finish" \notin Faults =>
    SessionsAlive /\ JournalHasSession /\ ObjectsHaveHandles /\ StaleHandles

\* What a session has changed it still holds an object of, as long as there is
\* something left of it.
ChangesHaveObjects ==
  {"finish", "rollback"} \cap Faults = {} =>
    \A e \in Env : Owner(e) => \A r \in blob, op \in {"Store", "Remove"} :
      Journaled(sid[e], "Blob", r.id, op) => \E b \in blobs[e] : b.id = r.id

-----------------------------------------------------------------------------
(* What a step of one process leaves to the others. *)

Step(e) == Command(e) \/ Continue(e) \/ Fault(e)

OwnVariablesKept(d) ==
  /\ pc'[d] = pc[d] /\ sid'[d] = sid[d] /\ files'[d] = files[d]
  /\ blobs'[d] = blobs[d] /\ modified'[d] = modified[d] /\ todo'[d] = todo[d]

\* What a process holds in memory no other process touches.
LEMMA OthersKept ==
  ASSUME TypeInv, NEW e \in Env, Step(e), NEW d \in Env, d # e
  PROVE  OwnVariablesKept(d)
<1>0. /\ pc \in [Env -> Places] /\ sid \in [Env -> SessionId \cup {None}]
      /\ files \in [Env -> SUBSET Nat] /\ blobs \in [Env -> SUBSET BlobObject]
      /\ modified \in [Env -> SUBSET (Nat \X Name)] /\ todo \in [Env -> SUBSET Nat]
  BY DEF TypeInv, TypeOK, EnvTypeOK
<1> USE DEF OwnVariablesKept, Goto
<1>1. CASE Command(e)
  BY <1>0, <1>1 DEF Command, StartSession, CreateFile, GetFile, GetBlob, AddBlob,
     RemoveBlob, StoreBlob, AddTriple, CommitPasses, CommitRejected, Rollback, Exit,
     CleanSessions, envVars
<1>2. CASE Continue(e)
  BY <1>0, <1>2 DEF Continue, CloseReplaced, ApplySelect, ApplyRow, Publish, Finish,
     CommitEnd, CloseFile, CloseBlob, RollbackRows, ExitEnd
<1>3. CASE Fault(e)
  BY <1>0, <1>3 DEF Fault, GetFileThrows, StoreBlobThrows, CommitThrows, FinishThrows,
     RollbackThrows, Crash
<1> QED
  BY <1>1, <1>2, <1>3 DEF Step

-----------------------------------------------------------------------------
(* The lock. *)

\* A commit takes the free lock, and gives it back with its last step.
LEMMA LockNext ==
  ASSUME TypeInv, LockInv, NEW e \in Env, Step(e)
  PROVE  LockInv'
<1>0. /\ pc \in [Env -> Places] /\ sid \in [Env -> SessionId \cup {None}]
      /\ None \notin Env
  BY EnvironmentAssumption DEF TypeInv, TypeOK, EnvTypeOK
<1> USE DEF LockInv, LockHeld, DeadGone, Goto
<1>1. CASE Command(e)
  BY <1>0, <1>1 DEF Command, StartSession, CreateFile, GetFile, GetBlob, AddBlob,
     RemoveBlob, StoreBlob, AddTriple, CommitPasses, CommitRejected, Rollback, Exit,
     CleanSessions, envVars, LockFree, InSession
<1>2. CASE Continue(e)
  BY <1>0, <1>2 DEF Continue, CloseReplaced, ApplySelect, ApplyRow, Publish, Finish,
     CommitEnd, CloseFile, CloseBlob, RollbackRows, ExitEnd
<1>3. CASE Fault(e)
  BY <1>0, <1>3 DEF Fault, GetFileThrows, StoreBlobThrows, CommitThrows, FinishThrows,
     RollbackThrows, Crash
<1> QED
  BY <1>1, <1>2, <1>3 DEF Step

-----------------------------------------------------------------------------
(* The journal and the counters. *)

\* The rows a command of e can add to the journal of its session.
Journals(e, relation, id, op) ==
  /\ InSession(e)
  /\ \/ relation = "File" /\ op = "Add" /\ id = nextId["file"] /\ id < nextId'["file"]
     \/ relation = "Blob" /\ op = "Add" /\ id = nextId["blob"] /\ id < nextId'["blob"]
     \/ relation = "Metadata" /\ op = "Add"
          /\ id = nextId["metadata"] /\ id < nextId'["metadata"]
     \/ relation = "Blob" /\ op \in {"Store", "Remove"} /\ \E b \in blobs[e] : b.id = id

\* A step adds rows to the journal of its own session only.
LEMMA JournalGrows ==
  ASSUME TypeInv, NEW e \in Env, Step(e), NEW s \in SessionId,
         NEW r, NEW i, NEW o, Journaled(s, r, i, o)'
  PROVE  Journaled(s, r, i, o) \/ (s = sid[e] /\ Journals(e, r, i, o))
<1>0. /\ nextId \in [{"session", "file", "blob", "metadata"} -> Nat]
      /\ journal \in [SessionId -> Seq(JournalRow)]
      /\ InSession(e) => sid[e] \in SessionId
      /\ \A b \in blobs[e] : b.id \in Nat
  BY IdsAreNumbers, SessionIdOfInside DEF TypeInv, TypeOK, DatabaseTypeOK
<1>1. CASE journal' = journal
  BY <1>1, UnchangedJournal
<1>2. CASE CreateFile(e)
  <2>1. nextId["file"] < nextId'["file"] /\ InSession(e)
    BY <1>0, <1>2 DEF CreateFile, DrawId
  <2>2. Log(sid[e], "File", nextId["file"], "Add")
    BY <1>2 DEF CreateFile
  <2>3. Journaled(s, r, i, o) \/
          (s = sid[e] /\ r = "File" /\ i = nextId["file"] /\ o = "Add")
    BY <1>0, <2>1, <2>2, LogEffect DEF Relation, Operation
  <2> QED
    BY <2>1, <2>3 DEF Journals
<1>3. ASSUME NEW f, NEW n, AddBlob(e, f, n)
      PROVE  Journaled(s, r, i, o) \/ (s = sid[e] /\ Journals(e, r, i, o))
  <2>1. nextId["blob"] < nextId'["blob"] /\ InSession(e)
    BY <1>0, <1>3 DEF AddBlob, DrawId
  <2>2. Log(sid[e], "Blob", nextId["blob"], "Add")
    BY <1>3 DEF AddBlob
  <2>3. Journaled(s, r, i, o) \/
          (s = sid[e] /\ r = "Blob" /\ i = nextId["blob"] /\ o = "Add")
    BY <1>0, <2>1, <2>2, LogEffect DEF Relation, Operation
  <2> QED
    BY <2>1, <2>3 DEF Journals
<1>4. ASSUME NEW b \in blobs[e], RemoveBlob(e, b)
      PROVE  Journaled(s, r, i, o) \/ (s = sid[e] /\ Journals(e, r, i, o))
  <2>1. InSession(e) /\ Log(sid[e], "Blob", b.id, "Remove")
    BY <1>4 DEF RemoveBlob
  <2>2. Journaled(s, r, i, o) \/
          (s = sid[e] /\ r = "Blob" /\ i = b.id /\ o = "Remove")
    BY <1>0, <2>1, LogEffect DEF Relation, Operation
  <2> QED
    BY <2>1, <2>2 DEF Journals
<1>5. ASSUME NEW b \in blobs[e], StoreBlob(e, b)
      PROVE  Journaled(s, r, i, o) \/ (s = sid[e] /\ Journals(e, r, i, o))
  <2>1. InSession(e) /\ Log(sid[e], "Blob", b.id, "Store")
    BY <1>5 DEF StoreBlob
  <2>2. Journaled(s, r, i, o) \/
          (s = sid[e] /\ r = "Blob" /\ i = b.id /\ o = "Store")
    BY <1>0, <2>1, LogEffect DEF Relation, Operation
  <2> QED
    BY <2>1, <2>2 DEF Journals
<1>6. ASSUME NEW b, NEW object, AddTriple(e, b, object)
      PROVE  Journaled(s, r, i, o) \/ (s = sid[e] /\ Journals(e, r, i, o))
  <2>1. nextId["metadata"] < nextId'["metadata"] /\ InSession(e)
    BY <1>0, <1>6 DEF AddTriple, DrawId
  <2>2. Log(sid[e], "Metadata", nextId["metadata"], "Add")
    BY <1>6 DEF AddTriple
  <2>3. Journaled(s, r, i, o) \/
          (s = sid[e] /\ r = "Metadata" /\ i = nextId["metadata"] /\ o = "Add")
    BY <1>0, <2>1, <2>2, LogEffect DEF Relation, Operation
  <2> QED
    BY <2>1, <2>3 DEF Journals
<1>7. CASE ApplyRow(e)
  <2>1. PICK k \in todo[e] : journal' = [journal EXCEPT ![sid[e]][k].executed = TRUE]
    BY <1>7 DEF ApplyRow
  <2>2. sid[e] \in SessionId
    BY <1>7, SessionIdOfInside DEF ApplyRow
  <2> QED
    BY <1>0, <2>1, <2>2, ExecuteEffect
<1>8. CASE Publish(e) \/ RollbackRows(e)
  <2>1. sid[e] \in SessionId /\ journal' = FlushedJournal(sid[e])
    BY <1>8, SessionIdOfInside DEF Publish, RollbackRows
  <2> QED
    BY <1>0, <2>1, FlushEffect
<1>9. CASE Command(e)
  BY <1>1, <1>2, <1>3, <1>4, <1>5, <1>6, <1>9 DEF Command, StartSession, GetFile,
     GetBlob, CommitPasses, CommitRejected, Rollback, Exit, CleanSessions, dbVars
<1>10. CASE Continue(e)
  BY <1>1, <1>7, <1>8, <1>10 DEF Continue, CloseReplaced, ApplySelect, Finish,
     CommitEnd, CloseFile, CloseBlob, ExitEnd, dbVars
<1>11. CASE Fault(e)
  BY <1>1, <1>11 DEF Fault, GetFileThrows, StoreBlobThrows, CommitThrows, FinishThrows,
     RollbackThrows, Crash, dbVars
<1> QED
  BY <1>9, <1>10, <1>11 DEF Step

\* No counter is ever set back.
LEMMA CountersGrow ==
  ASSUME TypeInv, NEW e \in Env, Step(e)
  PROVE  \A t \in {"session", "file", "blob", "metadata"} :
           nextId[t] \in Nat /\ nextId'[t] \in Nat /\ nextId[t] <= nextId'[t]
<1>0. nextId \in [{"session", "file", "blob", "metadata"} -> Nat]
  BY DEF TypeInv, TypeOK, DatabaseTypeOK
<1> DEFINE Grow == \A t \in {"session", "file", "blob", "metadata"} :
                     nextId[t] \in Nat /\ nextId'[t] \in Nat /\ nextId[t] <= nextId'[t]
<1> SUFFICES Grow
  OBVIOUS
<1>d. /\ nextId' = nextId => Grow
      /\ \A u \in {"session", "file", "blob", "metadata"} : DrawId(u) => Grow
  BY <1>0 DEF DrawId
<1> HIDE DEF Grow
<1>1. CASE Command(e)
  BY <1>1, <1>d DEF Command, StartSession, CreateFile, GetFile, GetBlob, AddBlob,
     RemoveBlob, StoreBlob, AddTriple, CommitPasses, CommitRejected, Rollback, Exit,
     CleanSessions, dbVars
<1>2. CASE Continue(e)
  BY <1>d, <1>2 DEF Continue, CloseReplaced, ApplySelect, ApplyRow, Publish, Finish,
     CommitEnd, CloseFile, CloseBlob, RollbackRows, ExitEnd, dbVars
<1>3. CASE Fault(e)
  BY <1>d, <1>3 DEF Fault, GetFileThrows, StoreBlobThrows, CommitThrows, FinishThrows,
     RollbackThrows, Crash, dbVars
<1> QED
  BY <1>1, <1>2, <1>3 DEF Step

\* Rows keep what they are known by; a new one has an id just drawn.
LEMMA RowsStay ==
  ASSUME TypeInv, NEW e \in Env, Step(e)
  PROVE  /\ \A q \in blob' :
              \/ \E r \in blob : r.id = q.id /\ r.file = q.file /\ r.name = q.name
              \/ /\ q.id = nextId["blob"] /\ q.id < nextId'["blob"]
                 /\ \E f \in files[e], n \in Name : AddBlob(e, f, n) /\ q.file = f /\ q.name = n
         /\ \A q \in metadata' :
              \/ \E m \in metadata : m.id = q.id /\ m.blob = q.blob /\ m.object = q.object
              \/ /\ q.id = nextId["metadata"] /\ q.id < nextId'["metadata"]
                 /\ \E b \in blobs[e] : q.blob = b.id
                 /\ q.object # None => \E b \in blobs[e] : q.object = b.id
<1>0. /\ blob \in SUBSET BlobRow /\ metadata \in SUBSET MetadataRow
      /\ nextId \in [{"session", "file", "blob", "metadata"} -> Nat]
  BY DEF TypeInv, TypeOK, DatabaseTypeOK
<1> DEFINE
      BlobStays(q) == \E r \in blob : r.id = q.id /\ r.file = q.file /\ r.name = q.name
      TripleStays(q) ==
        \E m \in metadata : m.id = q.id /\ m.blob = q.blob /\ m.object = q.object
      Stay ==
        /\ \A q \in blob' :
             \/ BlobStays(q)
             \/ /\ q.id = nextId["blob"] /\ q.id < nextId'["blob"]
                /\ \E f \in files[e], n \in Name : AddBlob(e, f, n) /\ q.file = f /\ q.name = n
        /\ \A q \in metadata' :
             \/ TripleStays(q)
             \/ /\ q.id = nextId["metadata"] /\ q.id < nextId'["metadata"]
                /\ \E b \in blobs[e] : q.blob = b.id
                /\ q.object # None => \E b \in blobs[e] : q.object = b.id
<1> SUFFICES Stay
  OBVIOUS
<1>1. blob' \subseteq blob /\ metadata' = metadata => Stay
  OBVIOUS
<1>2. ASSUME NEW f \in files[e], NEW n \in Name, AddBlob(e, f, n)
      PROVE  Stay
  <2> DEFINE row == [id |-> nextId["blob"], file |-> f, name |-> n, visible |-> FALSE]
  <2>1. row.id = nextId["blob"] /\ row.file = f /\ row.name = n
    OBVIOUS
  <2>2. blob' = blob \cup {row} /\ nextId["blob"] < nextId'["blob"] /\ metadata' = metadata
    BY <1>0, <1>2 DEF AddBlob, DrawId
  <2> HIDE DEF row
  <2> QED
    BY <1>2, <2>1, <2>2
<1>3. ASSUME NEW b \in blobs[e], NEW object \in {None} \cup { c.id : c \in blobs[e] },
             AddTriple(e, b, object)
      PROVE  Stay
  <2> DEFINE row == [id |-> nextId["metadata"], blob |-> b.id, object |-> object,
                     visible |-> FALSE]
  <2>1. row.id = nextId["metadata"] /\ row.blob = b.id /\ row.object = object
    OBVIOUS
  <2>2. /\ metadata' = metadata \cup {row} /\ nextId["metadata"] < nextId'["metadata"]
        /\ blob' = blob
    BY <1>0, <1>3 DEF AddTriple, DrawId
  <2> HIDE DEF row
  <2> QED
    BY <2>1, <2>2
<1>4. ASSUME Publish(e)
      PROVE  Stay
  <2>1. \A r \in blob : LET q == [r EXCEPT !.visible = TRUE]
                        IN  q.id = r.id /\ q.file = r.file /\ q.name = r.name
    BY <1>0 DEF BlobRow
  <2>2. \A r \in metadata : LET q == [r EXCEPT !.visible = TRUE]
                            IN  q.id = r.id /\ q.blob = r.blob /\ q.object = r.object
    BY <1>0 DEF MetadataRow
  <2>3. \A q \in blob' : BlobStays(q)
    BY <1>4, <2>1 DEF Publish, MadeVisible
  <2>4. \A q \in metadata' : TripleStays(q)
    BY <1>4, <2>2 DEF Publish, MadeVisible
  <2> HIDE DEF BlobStays, TripleStays
  <2> QED
    BY <2>3, <2>4
<1> HIDE DEF Stay
<1>5. CASE Command(e)
  BY <1>1, <1>2, <1>3, <1>5 DEF Command, StartSession, CreateFile, GetFile, GetBlob,
     RemoveBlob, StoreBlob, CommitPasses, CommitRejected, Rollback, Exit,
     CleanSessions, dbVars
<1>6. CASE Continue(e)
  <2>1. CASE RollbackRows(e)
    BY <1>1, <2>1 DEF RollbackRows
  <2> QED
    BY <1>1, <1>4, <1>6, <2>1 DEF Continue, CloseReplaced, ApplySelect, ApplyRow, Finish,
       CommitEnd, CloseFile, CloseBlob, ExitEnd, dbVars
<1>7. CASE Fault(e)
  BY <1>1, <1>7 DEF Fault, GetFileThrows, StoreBlobThrows, CommitThrows, FinishThrows,
     RollbackThrows, Crash, dbVars
<1> QED
  BY <1>5, <1>6, <1>7 DEF Step

-----------------------------------------------------------------------------
(* Handles. *)

\* A handle is opened with its object, and closed by its session, or because
\* that is gone.
LEMMA HandlesStep ==
  ASSUME TypeInv, NEW e \in Env, Step(e)
  PROVE  /\ \A h \in handle' : h \in handle \/
              (InSession(e) /\ h.session = sid[e] /\ HasObject(e, h)')
         /\ \A h \in handle : h \in handle' \/ h.session \notin session \/
              /\ h.session = sid[e]
              /\ \/ Clearing(e)
                 \/ pc[e] = "replace" /\ h.relation = "Blob"
                      /\ \E b \in Replaced(e) : b.id = h.id
<1>0. /\ files \in [Env -> SUBSET Nat] /\ blobs \in [Env -> SUBSET BlobObject]
  BY DEF TypeInv, TypeOK, EnvTypeOK
<1> DEFINE Fine ==
      /\ \A h \in handle' : h \in handle \/
           (InSession(e) /\ h.session = sid[e] /\ HasObject(e, h)')
      /\ \A h \in handle : h \in handle' \/ h.session \notin session \/
           /\ h.session = sid[e]
           /\ \/ Clearing(e)
              \/ pc[e] = "replace" /\ h.relation = "Blob"
                   /\ \E b \in Replaced(e) : b.id = h.id
<1> SUFFICES Fine
  OBVIOUS
<1>1. handle' = handle => Fine
  OBVIOUS
<1>2. ASSUME NEW f, InSession(e), handle' = handle \cup {FileHandle(f, sid[e])},
             files' = [files EXCEPT ![e] = @ \cup {f}]
      PROVE  Fine
  BY <1>0, <1>2 DEF FileHandle, HasObject
<1>3. ASSUME NEW f, NEW i, NEW n, InSession(e),
             handle' = handle \cup {BlobHandle(i, sid[e])},
             blobs' = [blobs EXCEPT ![e] = @ \cup
                         {[file |-> f, id |-> i, name |-> n, removed |-> FALSE]}]
      PROVE  Fine
  <2> DEFINE o == [file |-> f, id |-> i, name |-> n, removed |-> FALSE]
  <2>1. o.id = i /\ blobs' = [blobs EXCEPT ![e] = @ \cup {o}]
    BY <1>3
  <2> HIDE DEF o
  <2>2. o \in blobs'[e]
    BY <1>0, <2>1
  <2> QED
    BY <1>3, <2>1, <2>2 DEF BlobHandle, HasObject
<1>4. CASE CleanSessions(e)
  BY <1>4 DEF CleanSessions, HandleIsStale
<1>5. CASE CloseReplaced(e)
  BY <1>5 DEF CloseReplaced, ReplacedHandles, BlobHandle
<1>6. ASSUME NEW f, CloseFile(e, f)
      PROVE  Fine
  BY <1>6 DEF CloseFile, FileHandle
<1>7. ASSUME NEW b, CloseBlob(e, b)
      PROVE  Fine
  BY <1>7 DEF CloseBlob, BlobHandle
<1> HIDE DEF Fine
<1>8. CASE Command(e)
  <2>1. CASE CreateFile(e) \/ \E f \in 0 .. nextId["file"] - 1 : GetFile(e, f)
    BY <1>2, <2>1 DEF CreateFile, GetFile
  <2>2. CASE \E f \in files[e], n \in Name : GetBlob(e, f, n) \/ AddBlob(e, f, n)
    BY <1>3, <2>2 DEF GetBlob, AddBlob
  <2> QED
    BY <1>1, <1>4, <1>8, <2>1, <2>2 DEF Command, StartSession, RemoveBlob, StoreBlob,
       AddTriple, CommitPasses, CommitRejected, Rollback, Exit, dbVars
<1>9. CASE Continue(e)
  BY <1>1, <1>5, <1>6, <1>7, <1>9 DEF Continue, ApplySelect, ApplyRow, Publish, Finish,
     CommitEnd, RollbackRows, ExitEnd, dbVars
<1>10. CASE Fault(e)
  BY <1>1, <1>10 DEF Fault, GetFileThrows, StoreBlobThrows, CommitThrows, FinishThrows,
     RollbackThrows, Crash, dbVars
<1> QED
  BY <1>8, <1>9, <1>10 DEF Step

\* As long as a process stays in its session, an object it lets go takes its
\* handle along.
LEMMA HandleClosedWithObject ==
  ASSUME TypeInv, NEW e \in Env, Step(e), sid'[e] = sid[e], sid[e] # None,
         NEW h \in handle, h \in handle', h.session = sid[e], HasObject(e, h)
  PROVE  HasObject(e, h)'
<1>0. /\ files \in [Env -> SUBSET Nat] /\ blobs \in [Env -> SUBSET BlobObject]
      /\ sid \in [Env -> SessionId \cup {None}] /\ handle \in SUBSET HandleRow
  BY DEF TypeInv, TypeOK, EnvTypeOK, DatabaseTypeOK
<1>1. files[e] \subseteq files'[e] /\ (\A b \in blobs[e] : \E c \in blobs'[e] : c.id = b.id)
        => HasObject(e, h)'
  BY DEF HasObject
<1>2. ASSUME NEW b \in blobs[e], RemoveBlob(e, b)
      PROVE  HasObject(e, h)'
  <2> DEFINE c == [b EXCEPT !.removed = TRUE]
  <2>1. c.id = b.id
    BY <1>0 DEF BlobObject
  <2> HIDE DEF c
  <2>2. blobs'[e] = (blobs[e] \ {b}) \cup {c} /\ files' = files
    BY <1>0, <1>2 DEF RemoveBlob, c
  <2> QED
    BY <1>1, <2>1, <2>2
<1>3. CASE CloseReplaced(e)
  <2>1. files' = files /\ blobs'[e] = blobs[e] \ Replaced(e)
    BY <1>0, <1>3 DEF CloseReplaced
  <2>2. h = [relation |-> h.relation, id |-> h.id, session |-> h.session]
    BY <1>0 DEF HandleRow
  <2>3. \A b \in Replaced(e) : ~(h.relation = "Blob" /\ h.id = b.id)
    BY <1>3, <2>2 DEF CloseReplaced, ReplacedHandles, BlobHandle
  <2> QED
    BY <2>1, <2>3 DEF HasObject
<1>4. ASSUME NEW f, CloseFile(e, f)
      PROVE  HasObject(e, h)'
  <2>1. files'[e] = files[e] \ {f} /\ blobs' = blobs
    BY <1>0, <1>4 DEF CloseFile
  <2>2. h = [relation |-> h.relation, id |-> h.id, session |-> h.session]
    BY <1>0 DEF HandleRow
  <2>3. ~(h.relation = "File" /\ h.id = f)
    BY <1>4, <2>2 DEF CloseFile, FileHandle
  <2> QED
    BY <2>1, <2>3 DEF HasObject
<1>5. ASSUME NEW b, CloseBlob(e, b)
      PROVE  HasObject(e, h)'
  <2>1. blobs'[e] = blobs[e] \ {b} /\ files' = files
    BY <1>0, <1>5 DEF CloseBlob
  <2>2. h = [relation |-> h.relation, id |-> h.id, session |-> h.session]
    BY <1>0 DEF HandleRow
  <2>3. ~(h.relation = "Blob" /\ h.id = b.id)
    BY <1>5, <2>2 DEF CloseBlob, BlobHandle
  <2> QED
    BY <2>1, <2>3 DEF HasObject
<1>6. blobs[e] \subseteq blobs'[e] /\ files[e] \subseteq files'[e] => HasObject(e, h)'
  BY <1>1
<1>7. CASE Command(e)
  <2>1. ASSUME NEW f, NEW n, GetBlob(e, f, n) \/ AddBlob(e, f, n)
        PROVE  blobs[e] \subseteq blobs'[e] /\ files[e] \subseteq files'[e]
    BY <1>0, <2>1 DEF GetBlob, AddBlob
  <2>2. ASSUME ~\E b \in blobs[e] : RemoveBlob(e, b),
               ~\E f \in files[e], n \in Name : GetBlob(e, f, n) \/ AddBlob(e, f, n)
        PROVE  blobs[e] \subseteq blobs'[e] /\ files[e] \subseteq files'[e]
    BY <1>0, <1>7, <2>2 DEF Command, StartSession, CreateFile, GetFile, StoreBlob, AddTriple,
       CommitPasses, CommitRejected, Rollback, Exit, CleanSessions, envVars
  <2> QED
    BY <1>2, <1>6, <2>1, <2>2
<1>8. CASE Continue(e)
  <2>1. ~CommitEnd(e) /\ ~RollbackRows(e) /\ ~ExitEnd(e)
    BY <1>0 DEF CommitEnd, RollbackRows, ExitEnd
  <2> QED
    BY <1>3, <1>4, <1>5, <1>6, <1>8, <2>1 DEF Continue, ApplySelect, ApplyRow,
       Publish, Finish
<1>9. CASE Fault(e)
  BY <1>0, <1>6, <1>9 DEF Fault, GetFileThrows, StoreBlobThrows, CommitThrows,
     FinishThrows, RollbackThrows, Crash
<1> QED
  BY <1>7, <1>8, <1>9 DEF Step

\* The row of a session is new under an id just drawn.
LEMMA NewSession ==
  ASSUME TypeInv, NEW e \in Env, Step(e), NEW s \in session', s \notin session
  PROVE  s = nextId["session"] /\ nextId'["session"] = nextId["session"] + 1
<1>0. nextId \in [{"session", "file", "blob", "metadata"} -> Nat]
  BY DEF TypeInv, TypeOK, DatabaseTypeOK
<1>1. CASE Command(e)
  BY <1>0, <1>1 DEF Command, StartSession, CreateFile, GetFile, GetBlob, AddBlob,
     RemoveBlob, StoreBlob, AddTriple, CommitPasses, CommitRejected, Rollback, Exit,
     CleanSessions, dbVars, DrawId
<1>2. CASE Continue(e)
  BY <1>2 DEF Continue, CloseReplaced, ApplySelect, ApplyRow, Publish, Finish,
     CommitEnd, CloseFile, CloseBlob, RollbackRows, ExitEnd, dbVars
<1>3. CASE Fault(e)
  BY <1>3 DEF Fault, GetFileThrows, StoreBlobThrows, CommitThrows, FinishThrows,
     RollbackThrows, Crash, dbVars
<1> QED
  BY <1>1, <1>2, <1>3 DEF Step

\* ReferencesDrawn by induction.
LEMMA ReferencesNext ==
  ASSUME TypeInv, IInv, ReferencesDrawn, NEW e \in Env, Step(e)
  PROVE  ReferencesDrawn'
<1>0. /\ nextId["blob"] <= nextId'["blob"] /\ nextId["blob"] \in Nat
      /\ nextId["metadata"] <= nextId'["metadata"] /\ nextId["metadata"] \in Nat
      /\ nextId["session"] <= nextId'["session"] /\ nextId["session"] \in Nat
      /\ nextId'["blob"] \in Nat /\ nextId'["metadata"] \in Nat /\ nextId'["session"] \in Nat
  BY CountersGrow
<1>1. ASSUME NEW s \in SessionId, NEW id \in Nat, NEW op \in Operation,
             Journaled(s, "Blob", id, op)'
      PROVE  id < nextId'["blob"]
  <2>1. CASE Journaled(s, "Blob", id, op)
    BY <1>0, <2>1 DEF ReferencesDrawn
  <2>2. CASE Journals(e, "Blob", id, op)
    BY <1>0, <2>2 DEF Journals, IInv, EnvInv, ObjectsSound
  <2> QED
    BY <1>1, <2>1, <2>2, JournalGrows
<1>2. ASSUME NEW s \in SessionId, NEW id \in Nat, NEW op \in Operation,
             Journaled(s, "Metadata", id, op)'
      PROVE  id < nextId'["metadata"]
  <2>1. CASE Journaled(s, "Metadata", id, op)
    BY <1>0, <2>1 DEF ReferencesDrawn
  <2>2. CASE Journals(e, "Metadata", id, op)
    BY <2>2 DEF Journals
  <2> QED
    BY <1>2, <2>1, <2>2, JournalGrows
<1>3. ASSUME NEW q \in metadata'
      PROVE  /\ q.id < nextId'["metadata"]
             /\ q.blob < nextId'["blob"]
             /\ q.object # None => q.object < nextId'["blob"]
  <2>1. CASE \E m \in metadata : m.id = q.id /\ m.blob = q.blob /\ m.object = q.object
    <3>1. \A m \in metadata : m.id \in Nat /\ m.blob \in Nat /\ (m.object # None => m.object \in Nat)
      BY DEF TypeInv, TypeOK, DatabaseTypeOK, MetadataRow
    <3> QED
      BY <1>0, <2>1, <3>1 DEF ReferencesDrawn
  <2>2. CASE /\ q.id < nextId'["metadata"]
             /\ \E b \in blobs[e] : q.blob = b.id
             /\ q.object # None => \E b \in blobs[e] : q.object = b.id
    BY <1>0, <2>2, IdsAreNumbers DEF IInv, EnvInv, ObjectsSound
  <2> QED
    BY <2>1, <2>2, RowsStay
<1>4. ASSUME NEW h \in handle'
      PROVE  h.session < nextId'["session"]
  <2>1. CASE h \in handle
    <3>1. h.session \in Nat
      BY <2>1, IdsAreNumbers DEF TypeInv, TypeOK, DatabaseTypeOK, HandleRow
    <3> QED
      BY <1>0, <2>1, <3>1 DEF ReferencesDrawn
  <2>2. CASE InSession(e) /\ h.session = sid[e]
    <3>1. sid[e] < nextId["session"] /\ sid[e] \in Nat
      BY <2>2, IdsAreNumbers DEF InSession, IInv, EnvInv, SessionsOwned
    <3> QED
      BY <1>0, <2>2, <3>1
  <2> QED
    BY <2>1, <2>2, HandlesStep
<1>5. ASSUME NEW s \in session'
      PROVE  s < nextId'["session"]
  <2>1. CASE s \in session
    <3>1. s \in Nat
      BY <2>1, IdsAreNumbers DEF TypeInv, TypeOK, DatabaseTypeOK
    <3> QED
      BY <1>0, <2>1, <3>1 DEF ReferencesDrawn
  <2>2. CASE s \notin session
    <3>1. s = nextId["session"] /\ nextId'["session"] = nextId["session"] + 1
      BY <1>5, <2>2, NewSession
    <3> QED
      BY <1>0, <3>1
  <2> QED
    BY <2>1, <2>2
<1> QED
  BY <1>1, <1>2, <1>3, <1>4, <1>5 DEF ReferencesDrawn

\* A process stays in its session, starts one under an id just drawn, or leaves.
LEMMA SidStep ==
  ASSUME TypeInv, NEW e \in Env, Step(e)
  PROVE  \/ sid'[e] = sid[e]
         \/ sid[e] = None /\ sid'[e] = nextId["session"] /\ StartSession(e)
         \/ sid'[e] = None
<1>0. sid \in [Env -> SessionId \cup {None}]
  BY DEF TypeInv, TypeOK, EnvTypeOK
<1>1. CASE Command(e)
  BY <1>0, <1>1 DEF Command, StartSession, CreateFile, GetFile, GetBlob, AddBlob,
     RemoveBlob, StoreBlob, AddTriple, CommitPasses, CommitRejected, Rollback, Exit,
     CleanSessions, envVars
<1>2. CASE Continue(e)
  BY <1>0, <1>2 DEF Continue, CloseReplaced, ApplySelect, ApplyRow, Publish, Finish,
     CommitEnd, CloseFile, CloseBlob, RollbackRows, ExitEnd
<1>3. CASE Fault(e)
  BY <1>0, <1>3 DEF Fault, GetFileThrows, StoreBlobThrows, CommitThrows, FinishThrows,
     RollbackThrows, Crash
<1> QED
  BY <1>1, <1>2, <1>3 DEF Step

\* HandlesOwned by induction.
LEMMA HandlesOwnedNext ==
  ASSUME TypeInv, IInv, ReferencesDrawn, HandlesOwned, NEW e \in Env, Step(e)
  PROVE  HandlesOwned'
<1> SUFFICES ASSUME NEW h \in handle', NEW d \in Env, h.session = sid'[d]
             PROVE  HasObject(d, h)'
  BY DEF HandlesOwned, HasObject
<1>0. h \in handle => h.session \in SessionId /\ h.session # None /\ h.session \in Nat
  BY NoneIsNoSession, IdsAreNumbers DEF TypeInv, TypeOK, DatabaseTypeOK, HandleRow
<1>1. CASE d # e
  <2>1. OwnVariablesKept(d)
    BY <1>1, OthersKept
  <2>2. h \in handle
    <3> SUFFICES ASSUME h \notin handle PROVE FALSE
      OBVIOUS
    <3>1. InSession(e) /\ h.session = sid[e]
      BY HandlesStep
    <3>2. sid[d] = sid[e] /\ sid[e] # None
      BY <2>1, <3>1 DEF OwnVariablesKept, InSession
    <3> QED
      BY <1>1, <3>2 DEF IInv, EnvInv, SessionsOwned
  <2>3. HasObject(d, h)
    BY <2>1, <2>2 DEF OwnVariablesKept, HandlesOwned
  <2> QED
    BY <2>1, <2>3 DEF OwnVariablesKept, HasObject
<1>2. CASE d = e
  <2>1. CASE h \notin handle
    BY <1>2, <2>1, HandlesStep
  <2>2. CASE h \in handle
    <3>1. sid'[e] = sid[e] /\ sid[e] # None
      <4>1. h.session < nextId["session"] /\ nextId["session"] \in Nat
        BY <2>2, IdsAreNumbers DEF ReferencesDrawn
      <4>2. sid'[e] # nextId["session"] /\ sid'[e] # None
        BY <1>0, <1>2, <2>2, <4>1
      <4> QED
        BY <4>2, SidStep
    <3>2. HasObject(e, h)
      BY <1>2, <2>2, <3>1 DEF HandlesOwned
    <3> QED
      BY <1>2, <2>2, <3>1, <3>2, HandleClosedWithObject
  <2> QED
    BY <2>1, <2>2
<1> QED
  BY <1>1, <1>2

-----------------------------------------------------------------------------
(* Objects. *)

\* No row appears under an id drawn before.
LEMMA NoRowComesBack ==
  ASSUME TypeInv, NEW e \in Env, Step(e), NEW q \in blob', q.id < nextId["blob"]
  PROVE  \E r \in blob : r.id = q.id /\ r.file = q.file /\ r.name = q.name
<1>1. nextId["blob"] \in Nat
  BY IdsAreNumbers
<1> QED
  BY <1>1, RowsStay

\* Letting objects go.
LEMMA FewerObjects ==
  ASSUME TypeInv, IInv, ObjectInv, NEW e \in Env, Step(e), NEW d \in Env,
         blobs'[d] \subseteq blobs[d],
         Clearing(d)' \/ blobs'[d] = {} \/ (~Clearing(d) /\ files[d] \subseteq files'[d])
  PROVE  (ObjectsKeyed(d) /\ ReplacedGone(d) /\ ObjectsInFiles(d))'
<1>1. \A b \in blobs[d] : b.id \in Nat /\ b.id < nextId["blob"]
  BY IdsAreNumbers DEF IInv, EnvInv, ObjectsSound
<1>2. ObjectsKeyed(d)'
  BY <1>1, NoRowComesBack DEF ObjectInv, ObjectsKeyed
<1>3. ReplacedGone(d)'
  <2> SUFFICES ASSUME NEW b \in Replaced(d)', NEW q \in blob', q.id = b.id
               PROVE  FALSE
    BY DEF ReplacedGone, BlobExists
  <2>1. b \in Replaced(d)
    BY DEF Replaced
  <2>2. \E r \in blob : r.id = b.id
    BY <1>1, <2>1, NoRowComesBack DEF Replaced
  <2> QED
    BY <2>1, <2>2 DEF ObjectInv, ReplacedGone, BlobExists
<1>4. ObjectsInFiles(d)'
  BY DEF ObjectInv, ObjectsInFiles
<1> QED
  BY <1>2, <1>3, <1>4

\* File::getBlob finds a row nobody has an object of in this buffer.
LEMMA GetBlobObjects ==
  ASSUME TypeInv, IInv, ObjectInv, NEW e \in Env, NEW f \in files[e], NEW n \in Name,
         GetBlob(e, f, n)
  PROVE  (ObjectsKeyed(e) /\ ReplacedGone(e) /\ ObjectsInFiles(e))'
<1>1. PICK r \in blob :
        /\ r.file = f /\ r.name = n
        /\ blobs' = [blobs EXCEPT ![e] = @ \cup
                       {[file |-> f, id |-> r.id, name |-> n, removed |-> FALSE]}]
  BY DEF GetBlob
<1> DEFINE o == [file |-> f, id |-> r.id, name |-> n, removed |-> FALSE]
<1>2. o.id = r.id /\ o.file = f /\ o.name = n
  OBVIOUS
<1>3. /\ blobs'[e] = blobs[e] \cup {o}
      /\ UNCHANGED <<blob, files, pc>> /\ pc[e] = "idle"
      /\ \A b \in blobs[e] : ~(b.file = f /\ b.name = n)
  BY <1>1 DEF GetBlob, InSession, BlobObjects, TypeInv, TypeOK, EnvTypeOK
<1> HIDE DEF o
<1>4. ObjectsKeyed(e)'
  <2>1. \A b \in blobs[e] : b.id # r.id
    BY <1>1, <1>3 DEF ObjectInv, ObjectsKeyed
  <2>2. \A q \in blob : q.id = r.id => q = r
    BY DEF IInv, DbInv, RowsKeyed
  <2> QED
    BY <1>1, <1>2, <1>3, <2>1, <2>2 DEF ObjectInv, ObjectsKeyed
<1>5. ReplacedGone(e)'
  <2>1. Replaced(e)' = Replaced(e)
    <3>1. \A b \in blobs[e] \cup {o} :
            (\E c \in blobs[e] \cup {o} : c.file = b.file /\ c.name = b.name /\ b.id < c.id)
              <=> (b \in blobs[e] /\ \E c \in blobs[e] : c.file = b.file /\ c.name = b.name /\ b.id < c.id)
      <4>1. r.id \in Nat
        BY IdsAreNumbers
      <4> QED
        BY <1>2, <1>3, <4>1
    <3> QED
      BY <1>3, <3>1 DEF Replaced
  <2> QED
    BY <1>3, <2>1 DEF ObjectInv, ReplacedGone, BlobExists
<1>6. ObjectsInFiles(e)'
  BY <1>2, <1>3 DEF ObjectInv, ObjectsInFiles, Clearing
<1> QED
  BY <1>4, <1>5, <1>6

\* File::addBlob draws an id that is larger than those of all objects.
LEMMA AddBlobObjects ==
  ASSUME TypeInv, IInv, ObjectInv, NEW e \in Env, NEW f \in files[e], NEW n \in Name,
         AddBlob(e, f, n)
  PROVE  (ObjectsKeyed(e) /\ ReplacedGone(e) /\ ObjectsInFiles(e))'
<1> DEFINE i == nextId["blob"]
           o == [file |-> f, id |-> i, name |-> n, removed |-> FALSE]
           row == [id |-> i, file |-> f, name |-> n, visible |-> FALSE]
<1>2. /\ o.id = i /\ o.file = f /\ o.name = n
      /\ row.id = i /\ row.file = f /\ row.name = n
      /\ i \in Nat
  BY IdsAreNumbers
<1>3. /\ blobs'[e] = blobs[e] \cup {o}
      /\ blob' = blob \cup {row}
      /\ UNCHANGED files /\ pc[e] = "idle" /\ ~Clearing(e)'
      /\ \A b \in blob : ~(b.file = f /\ b.name = n)
  BY DEF AddBlob, InSession, NameTaken, Goto, Clearing, TypeInv, TypeOK, EnvTypeOK
<1>4. /\ \A b \in blobs[e] : b.id \in Nat /\ b.id < i
      /\ \A r \in blob : r.id \in Nat /\ r.id < i
  BY IdsAreNumbers DEF IInv, EnvInv, ObjectsSound, DbInv, RowsKeyed
<1> HIDE DEF o, row, i
<1>5. ObjectsKeyed(e)'
  BY <1>2, <1>3, <1>4 DEF ObjectInv, ObjectsKeyed
\* An object of the same name is that of a row that is gone: the name is free.
<1>6. ReplacedGone(e)'
  <2> SUFFICES ASSUME NEW b \in Replaced(e)', NEW q \in blob', q.id = b.id
               PROVE  FALSE
    BY DEF ReplacedGone, BlobExists
  <2>1. b \in blobs[e] /\ q \in blob
    BY <1>2, <1>3, <1>4 DEF Replaced
  <2>2. q.file = b.file /\ q.name = b.name
    BY <2>1 DEF ObjectInv, ObjectsKeyed
  <2>3. b \in Replaced(e)
    BY <1>2, <1>3, <2>1, <2>2 DEF Replaced
  <2> QED
    BY <2>1, <2>3 DEF ObjectInv, ReplacedGone, BlobExists
<1>7. ObjectsInFiles(e)'
  BY <1>2, <1>3 DEF ObjectInv, ObjectsInFiles, Clearing
<1> QED
  BY <1>5, <1>6, <1>7

\* Blob::remove changes nothing an object is known by.
LEMMA RemoveBlobObjects ==
  ASSUME TypeInv, IInv, ObjectInv, NEW e \in Env, NEW b \in blobs[e], RemoveBlob(e, b)
  PROVE  (ObjectsKeyed(e) /\ ReplacedGone(e) /\ ObjectsInFiles(e))'
<1> DEFINE o == [b EXCEPT !.removed = TRUE]
<1>1. b \in BlobObject
  BY DEF TypeInv, TypeOK, EnvTypeOK
<1>2. o.id = b.id /\ o.file = b.file /\ o.name = b.name
  BY <1>1 DEF BlobObject
<1>3. /\ blobs'[e] = (blobs[e] \ {b}) \cup {o}
      /\ UNCHANGED <<blob, files, pc>>
  BY DEF RemoveBlob, TypeInv, TypeOK, EnvTypeOK
<1> HIDE DEF o
<1>4. ObjectsKeyed(e)'
  BY <1>2, <1>3 DEF ObjectInv, ObjectsKeyed
<1>5. ReplacedGone(e)'
  <2> SUFFICES ASSUME NEW c \in Replaced(e)', NEW q \in blob, q.id = c.id
               PROVE  FALSE
    BY <1>3 DEF ReplacedGone, BlobExists
  <2>1. \E a \in Replaced(e) : a.id = c.id
    BY <1>2, <1>3 DEF Replaced
  <2> QED
    BY <2>1 DEF ObjectInv, ReplacedGone, BlobExists
<1>6. ObjectsInFiles(e)'
  BY <1>2, <1>3 DEF ObjectInv, ObjectsInFiles, Clearing
<1> QED
  BY <1>4, <1>5, <1>6

\* ObjectInv by induction.
LEMMA ObjectNext ==
  ASSUME TypeInv, IInv, ObjectInv, NEW e \in Env, Step(e)
  PROVE  ObjectInv'
<1>0. /\ pc \in [Env -> Places] /\ files \in [Env -> SUBSET Nat]
      /\ blobs \in [Env -> SUBSET BlobObject]
  BY DEF TypeInv, TypeOK, EnvTypeOK
<1> DEFINE Good(d) == ObjectsKeyed(d) /\ ReplacedGone(d) /\ ObjectsInFiles(d)
           Fewer == /\ blobs'[e] \subseteq blobs[e]
                    /\ \/ Clearing(e)'
                       \/ blobs'[e] = {}
                       \/ ~Clearing(e) /\ files[e] \subseteq files'[e]
<1> SUFFICES ASSUME NEW d \in Env PROVE Good(d)'
  BY DEF ObjectInv
<1>1. CASE d # e
  <2>1. /\ blobs'[d] = blobs[d] /\ files'[d] = files[d] /\ pc'[d] = pc[d]
    BY <1>1, OthersKept DEF OwnVariablesKept
  <2> QED
    BY <2>1, FewerObjects DEF Clearing
<1>2. CASE Fewer
  BY <1>1, <1>2, FewerObjects
<1> USE DEF Goto, Clearing
<1>3. CASE Command(e)
  BY <1>0, <1>1, <1>2, <1>3, GetBlobObjects, AddBlobObjects, RemoveBlobObjects
     DEF Command, StartSession, CreateFile, GetFile, StoreBlob, AddTriple, CommitPasses,
     CommitRejected, Rollback, Exit, CleanSessions, envVars, InSession
<1>4. CASE Continue(e)
  BY <1>0, <1>1, <1>2, <1>4 DEF Continue, CloseReplaced, ApplySelect, ApplyRow, Publish,
     Finish, CommitEnd, CloseFile, CloseBlob, RollbackRows, ExitEnd
<1>5. CASE Fault(e)
  BY <1>0, <1>1, <1>2, <1>5 DEF Fault, GetFileThrows, StoreBlobThrows, CommitThrows,
     FinishThrows, RollbackThrows, Crash, InSession
<1> QED
  BY <1>3, <1>4, <1>5 DEF Step

-----------------------------------------------------------------------------
(* Sessions and their rows. *)

\* The row of a session goes with its journal, in the last transaction of its
\* commit or of its rollback.
LEMMA SessionsStep ==
  ASSUME TypeInv, NEW e \in Env, Step(e), NEW s \in session
  PROVE  s \in session' \/ (s = sid[e] /\ (Publish(e) \/ RollbackRows(e)))
<1>1. CASE Command(e)
  BY <1>1 DEF Command, StartSession, CreateFile, GetFile, GetBlob, AddBlob,
     RemoveBlob, StoreBlob, AddTriple, CommitPasses, CommitRejected, Rollback, Exit,
     CleanSessions, dbVars
<1>2. CASE Continue(e)
  BY <1>2 DEF Continue, CloseReplaced, ApplySelect, ApplyRow, Publish, Finish,
     CommitEnd, CloseFile, CloseBlob, RollbackRows, ExitEnd, dbVars
<1>3. CASE Fault(e)
  BY <1>3 DEF Fault, GetFileThrows, StoreBlobThrows, CommitThrows, FinishThrows,
     RollbackThrows, Crash, dbVars
<1> QED
  BY <1>1, <1>2, <1>3 DEF Step

\* Where a process in a session comes from.
LEMMA PlaceStep ==
  ASSUME TypeInv, "finish" \notin Faults, NEW e \in Env, Step(e),
         Owner(e)' \/ pc'[e] = "rollback"
  PROVE  \/ StartSession(e)
         \/ /\ sid'[e] = sid[e] /\ (Owner(e) \/ pc[e] = "rollback")
            /\ ~Publish(e) /\ ~RollbackRows(e)
<1>0. /\ pc \in [Env -> Places] /\ sid \in [Env -> SessionId \cup {None}]
      /\ pc[e] = "rollback" => sid[e] # None
  BY DEF TypeInv, TypeOK, EnvTypeOK, InsideSession
<1> USE DEF Goto, Owner
<1>1. CASE Command(e)
  BY <1>0, <1>1 DEF Command, StartSession, CreateFile, GetFile, GetBlob, AddBlob,
     RemoveBlob, StoreBlob, AddTriple, CommitPasses, CommitRejected, Rollback, Exit,
     CleanSessions, envVars, InSession, Publish, RollbackRows
<1>2. CASE Continue(e)
  BY <1>0, <1>2 DEF Continue, CloseReplaced, ApplySelect, ApplyRow, Publish, Finish,
     CommitEnd, CloseFile, CloseBlob, RollbackRows, ExitEnd, Clearing
<1>3. CASE Fault(e)
  BY <1>0, <1>3 DEF Fault, GetFileThrows, StoreBlobThrows, CommitThrows, FinishThrows,
     RollbackThrows, Crash, InSession, Publish, RollbackRows
<1> QED
  BY <1>1, <1>2, <1>3 DEF Step

\* SessionsAlive by induction.
LEMMA SessionsAliveNext ==
  ASSUME TypeInv, IInv, "finish" \notin Faults, SessionsAlive, NEW e \in Env, Step(e)
  PROVE  SessionsAlive'
<1> SUFFICES ASSUME NEW d \in Env, Owner(d)' \/ pc'[d] = "rollback"
             PROVE  sid'[d] \in session'
  BY DEF SessionsAlive, Owner
<1>1. CASE d # e
  <2>1. OwnVariablesKept(d)
    BY <1>1, OthersKept
  <2>2. sid[d] \in session /\ sid[d] # None
    <3>1. (Owner(d) \/ pc[d] = "rollback") /\ sid[d] # None
      BY <2>1 DEF OwnVariablesKept, Owner, TypeInv, InsideSession
    <3> QED
      BY <3>1 DEF SessionsAlive
  <2>3. sid[d] # sid[e]
    BY <1>1, <2>2 DEF IInv, EnvInv, SessionsOwned
  <2> QED
    BY <2>1, <2>2, <2>3, SessionsStep DEF OwnVariablesKept
<1>2. CASE d = e
  <2>1. CASE StartSession(e)
    BY <1>2, <2>1 DEF StartSession, TypeInv, TypeOK, EnvTypeOK
  <2>2. CASE ~StartSession(e)
    <3>1. /\ sid'[e] = sid[e] /\ (Owner(e) \/ pc[e] = "rollback")
          /\ ~Publish(e) /\ ~RollbackRows(e)
      BY <1>2, <2>2, PlaceStep
    <3> QED
      BY <1>2, <3>1, SessionsStep DEF SessionsAlive
  <2> QED
    BY <2>1, <2>2
<1> QED
  BY <1>1, <1>2

\* The journal of a session is not empty if some row is in it.
LEMMA JournalNotEmpty ==
  ASSUME journal \in [SessionId -> Seq(JournalRow)], NEW s \in SessionId
  PROVE  journal[s] # << >> <=> \E r, i, o : Journaled(s, r, i, o)
<1>1. journal[s] \in Seq(JournalRow)
  OBVIOUS
<1>2. ASSUME journal[s] # << >>
      PROVE  \E r, i, o : Journaled(s, r, i, o)
  <2>1. 1 \in DOMAIN journal[s]
    BY <1>1, <1>2, EmptySeq, LenProperties
  <2>2. Journaled(s, journal[s][1].relation, journal[s][1].relId, journal[s][1].op)
    BY <2>1 DEF Journaled
  <2> QED
    BY <2>2
<1>3. ASSUME NEW r, NEW i, NEW o, Journaled(s, r, i, o)
      PROVE  journal[s] # << >>
  <2>1. DOMAIN << >> = {}
    OBVIOUS
  <2> QED
    BY <1>3, <2>1 DEF Journaled
<1> QED
  BY <1>2, <1>3

\* JournalHasSession by induction.
LEMMA JournalHasSessionNext ==
  ASSUME TypeInv, TypeInv', IInv, "finish" \notin Faults, SessionsAlive, JournalHasSession,
         NEW e \in Env, Step(e)
  PROVE  JournalHasSession'
<1>0. /\ journal \in [SessionId -> Seq(JournalRow)]
      /\ journal' \in [SessionId -> Seq(JournalRow)]
  BY DEF TypeInv, TypeOK, DatabaseTypeOK
<1> SUFFICES ASSUME NEW s \in SessionId, journal'[s] # << >>
             PROVE  s \in session'
  BY DEF JournalHasSession
<1>1. journal'[s] \in Seq(JournalRow) /\ 1 \in DOMAIN journal'[s]
  BY <1>0, EmptySeq, LenProperties
<1>2. PICK r, i, o : Journaled(s, r, i, o)'
  BY <1>1 DEF Journaled
<1>3. s \in session
  <2>1. CASE Journaled(s, r, i, o)
    BY <1>0, <2>1, JournalNotEmpty DEF JournalHasSession
  <2>2. CASE s = sid[e] /\ Journals(e, r, i, o)
    BY <2>2 DEF Journals, InSession, SessionsAlive, Owner
  <2> QED
    BY <1>2, <2>1, <2>2, JournalGrows
<1>4. ~(s = sid[e] /\ (Publish(e) \/ RollbackRows(e)))
  <2> SUFFICES ASSUME s = sid[e], journal' = FlushedJournal(s)
               PROVE  FALSE
    BY DEF Publish, RollbackRows
  <2> QED
    BY <1>0, <1>2, FlushEffect
<1> QED
  BY <1>3, <1>4, SessionsStep

\* The objects a process has got in a step have their handles.
LEMMA OwnHandles ==
  ASSUME TypeInv, IInv, ObjectInv, "finish" \notin Faults, SessionsAlive,
         ObjectsHaveHandles, NEW e \in Env, Step(e), Owner(e)'
  PROVE  /\ \A f \in files'[e] : FileHandle(f, sid'[e]) \in handle'
         /\ \A b \in blobs'[e] : BlobHandle(b.id, sid'[e]) \in handle'
<1>0. /\ files \in [Env -> SUBSET Nat] /\ blobs \in [Env -> SUBSET BlobObject]
      /\ pc \in [Env -> Places] /\ sid \in [Env -> SessionId \cup {None}]
  BY DEF TypeInv, TypeOK, EnvTypeOK
<1> DEFINE Good == /\ \A f \in files'[e] : FileHandle(f, sid'[e]) \in handle'
                   /\ \A b \in blobs'[e] : BlobHandle(b.id, sid'[e]) \in handle'
<1> SUFFICES Good
  OBVIOUS
<1>1. files'[e] = {} /\ blobs'[e] = {} => Good
  OBVIOUS
<1>2. /\ Owner(e) /\ sid'[e] = sid[e] /\ handle' = handle
      /\ files'[e] = files[e] /\ blobs'[e] = blobs[e]
      => Good
  BY DEF ObjectsHaveHandles
<1>3. sid'[e] # None
  BY DEF Owner
<1>4. CASE StartSession(e)
  BY <1>1, <1>4 DEF StartSession, IInv, EnvInv, SessionsOwned
<1>5. CASE CreateFile(e) \/ \E f \in 0 .. nextId["file"] - 1 : GetFile(e, f)
  <2>1. PICK f : /\ files' = [files EXCEPT ![e] = @ \cup {f}] /\ UNCHANGED <<pc, sid, blobs>>
                 /\ handle' = handle \cup {FileHandle(f, sid[e])}
    BY <1>5 DEF CreateFile, GetFile
  <2>2. Owner(e)
    BY <2>1 DEF Owner
  <2> QED
    BY <1>0, <2>1, <2>2 DEF ObjectsHaveHandles
<1>6. CASE \E f \in files[e], n \in Name : GetBlob(e, f, n) \/ AddBlob(e, f, n)
  <2>1. PICK f, n, i :
          /\ blobs' = [blobs EXCEPT ![e] = @ \cup
                         {[file |-> f, id |-> i, name |-> n, removed |-> FALSE]}]
          /\ UNCHANGED <<sid, files>> /\ InSession(e)
          /\ handle' = handle \cup {BlobHandle(i, sid[e])}
    BY <1>6 DEF GetBlob, AddBlob
  <2> DEFINE o == [file |-> f, id |-> i, name |-> n, removed |-> FALSE]
  <2>2. o.id = i /\ blobs'[e] = blobs[e] \cup {o} /\ Owner(e)
    BY <1>0, <2>1 DEF Owner, InSession
  <2> HIDE DEF o
  <2> QED
    BY <2>1, <2>2 DEF ObjectsHaveHandles
<1>7. ASSUME NEW b \in blobs[e], RemoveBlob(e, b)
      PROVE  Good
  <2> DEFINE o == [b EXCEPT !.removed = TRUE]
  <2>1. o.id = b.id
    BY <1>0 DEF BlobObject
  <2>2. /\ blobs'[e] = (blobs[e] \ {b}) \cup {o}
        /\ UNCHANGED <<sid, files, handle>> /\ Owner(e)
    BY <1>0, <1>7 DEF RemoveBlob, InSession, Owner
  <2> HIDE DEF o
  <2> QED
    BY <2>1, <2>2 DEF ObjectsHaveHandles
<1>8. CASE CloseReplaced(e)
  <2>1. /\ blobs'[e] = blobs[e] \ Replaced(e) /\ UNCHANGED <<sid, files>>
        /\ handle' = handle \ ReplacedHandles(e)
        /\ pc[e] = "replace"
    BY <1>0, <1>8 DEF CloseReplaced
  <2>2. Owner(e)
    BY <2>1 DEF Owner
  <2>3. \A f, s : FileHandle(f, s) \notin ReplacedHandles(e)
    BY DEF FileHandle, BlobHandle, ReplacedHandles
  <2>4. ASSUME NEW b \in blobs'[e], BlobHandle(b.id, sid[e]) \in ReplacedHandles(e)
        PROVE  FALSE
    <3>1. PICK c \in Replaced(e) : BlobHandle(b.id, sid[e]) = BlobHandle(c.id, sid[e])
      BY <2>4 DEF ReplacedHandles
    <3>2. b.id = c.id
      BY <3>1 DEF BlobHandle
    <3>3. b = c
      BY <2>1, <3>2 DEF Replaced, ObjectInv, ObjectsKeyed
    <3> QED
      BY <2>1, <3>3
  <2> QED
    BY <2>1, <2>2, <2>3, <2>4 DEF ObjectsHaveHandles
<1>9. CASE CleanSessions(e)
  <2>1. UNCHANGED <<sid, files, blobs, pc>> /\ handle' = { h \in handle : h.session \in session }
    BY <1>9 DEF CleanSessions, envVars, HandleIsStale
  <2>2. Owner(e) /\ sid[e] \in session
    BY <2>1 DEF Owner, SessionsAlive
  <2> QED
    BY <2>1, <2>2 DEF ObjectsHaveHandles, FileHandle, BlobHandle
<1> HIDE DEF Good
<1> USE DEF Goto, Owner
<1>10. CASE Command(e)
  BY <1>0, <1>2, <1>4, <1>5, <1>6, <1>7, <1>9, <1>10 DEF Command, StoreBlob, AddTriple,
     CommitPasses, CommitRejected, Rollback, Exit, dbVars, envVars, InSession
<1>11. CASE Continue(e)
  BY <1>0, <1>2, <1>3, <1>8, <1>11 DEF Continue, ApplySelect, ApplyRow, Publish, Finish,
     CommitEnd, CloseFile, CloseBlob, RollbackRows, ExitEnd, Clearing, dbVars
<1>12. CASE Fault(e)
  BY <1>0, <1>1, <1>2, <1>3, <1>12 DEF Fault, GetFileThrows, StoreBlobThrows,
     CommitThrows, FinishThrows, RollbackThrows, Crash, InSession, dbVars
<1> QED
  BY <1>10, <1>11, <1>12 DEF Step

\* ObjectsHaveHandles by induction.
LEMMA ObjectsHaveHandlesNext ==
  ASSUME TypeInv, IInv, ObjectInv, "finish" \notin Faults, SessionsAlive,
         ObjectsHaveHandles, NEW e \in Env, Step(e)
  PROVE  ObjectsHaveHandles'
<1> SUFFICES ASSUME NEW d \in Env, Owner(d)'
             PROVE  /\ \A f \in files'[d] : FileHandle(f, sid'[d]) \in handle'
                    /\ \A b \in blobs'[d] : BlobHandle(b.id, sid'[d]) \in handle'
  BY DEF ObjectsHaveHandles, FileHandle, BlobHandle
<1>1. CASE d = e
  BY <1>1, OwnHandles
<1>2. CASE d # e
  <2>1. OwnVariablesKept(d)
    BY <1>2, OthersKept
  <2>2. Owner(d) /\ sid[d] \in session /\ sid[d] # sid[e]
    BY <1>2, <2>1 DEF OwnVariablesKept, Owner, SessionsAlive, IInv, EnvInv, SessionsOwned
  <2>3. \A h \in handle : h.session = sid[d] => h \in handle'
    BY <2>2, HandlesStep
  <2>4. \A i : FileHandle(i, sid[d]).session = sid[d] /\ BlobHandle(i, sid[d]).session = sid[d]
    BY DEF FileHandle, BlobHandle
  <2> QED
    BY <2>1, <2>2, <2>3, <2>4 DEF OwnVariablesKept, ObjectsHaveHandles
<1> QED
  BY <1>1, <1>2

\* Who gives the lock back, and who has died with it.
LEMMA LockStep ==
  ASSUME TypeInv, LockInv, "finish" \notin Faults, NEW e \in Env, Step(e), lock # None
  PROVE  \/ lock' = lock
         \/ lock = e /\ pc[e] \in {"select", "apply"}
         \/ CommitEnd(e)
<1>1. CASE Command(e)
  BY <1>1 DEF Command, StartSession, CreateFile, GetFile, GetBlob, AddBlob,
     RemoveBlob, StoreBlob, AddTriple, CommitPasses, CommitRejected, Rollback, Exit,
     CleanSessions, LockFree, envVars
<1>2. CASE Continue(e)
  BY <1>2 DEF Continue, CloseReplaced, ApplySelect, ApplyRow, Publish, Finish,
     CloseFile, CloseBlob, RollbackRows, ExitEnd
<1>3. CASE Fault(e)
  BY <1>3 DEF Fault, GetFileThrows, StoreBlobThrows, CommitThrows, FinishThrows,
     RollbackThrows, Crash, LockInv, LockHeld
<1> QED
  BY <1>1, <1>2, <1>3 DEF Step

\* StaleHandles by induction.
LEMMA StaleHandlesNext ==
  ASSUME TypeInv, IInv, LockInv, HandlesOwned, "finish" \notin Faults, SessionsAlive,
         StaleHandles, NEW e \in Env, Step(e)
  PROVE  StaleHandles'
<1>0. /\ pc \in [Env -> Places] /\ sid \in [Env -> SessionId \cup {None}]
      /\ None \notin Env
  BY EnvironmentAssumption DEF TypeInv, TypeOK, EnvTypeOK
<1> SUFFICES ASSUME NEW h \in handle', h.session \notin session'
             PROVE  \E d \in Env : /\ lock' = d
                                   /\ \/ pc'[d] = "dead"
                                      \/ pc'[d] \in {"finish", "clear"} /\ sid'[d] = h.session
  BY DEF StaleHandles
<1>1. h \in handle
  <2> SUFFICES ASSUME h \notin handle PROVE FALSE
    OBVIOUS
  <2>1. InSession(e) /\ h.session = sid[e] /\ sid[e] \in session
    BY HandlesStep DEF InSession, SessionsAlive, Owner
  <2> QED
    BY <2>1, SessionsStep DEF InSession, Publish, RollbackRows
<1>2. \A d \in Env : sid[d] = h.session => files[d] # {} \/ blobs[d] # {}
  BY <1>1 DEF HandlesOwned, HasObject
<1>3. CASE h.session \in session
  <2>1. h.session = sid[e] /\ (Publish(e) \/ RollbackRows(e))
    BY <1>3, SessionsStep
  <2>2. Publish(e) /\ lock = e
    BY <1>2, <2>1 DEF RollbackRows, Publish, LockInv, LockHeld
  <2> QED
    BY <1>0, <2>1, <2>2 DEF Publish, Goto
<1>4. CASE h.session \notin session
  <2>1. PICK d \in Env : /\ lock = d
                         /\ \/ pc[d] = "dead"
                            \/ pc[d] \in {"finish", "clear"} /\ sid[d] = h.session
    BY <1>1, <1>4 DEF StaleHandles
  <2>2. lock' = lock
    <3>1. ~CommitEnd(e)
      <4> SUFFICES ASSUME CommitEnd(e) PROVE FALSE
        OBVIOUS
      <4>1. lock = e /\ pc[e] = "clear"
        BY DEF CommitEnd, LockInv, LockHeld
      <4> QED
        BY <1>2, <2>1, <4>1 DEF CommitEnd
    <3> QED
      BY <1>0, <2>1, <3>1, LockStep
  <2>3. CASE d # e
    BY <2>1, <2>2, <2>3, OthersKept DEF OwnVariablesKept
  <2>4. CASE d = e /\ pc[e] = "dead"
    <3>1. ~Step(e)
      BY <2>4 DEF Step, Command, StartSession, CreateFile, GetFile, GetBlob, AddBlob,
         RemoveBlob, StoreBlob, AddTriple, CommitPasses, CommitRejected, Rollback, Exit,
         CleanSessions, Continue, CloseReplaced, ApplySelect, ApplyRow, Publish, Finish,
         CommitEnd, CloseFile, CloseBlob, RollbackRows, ExitEnd, Fault, GetFileThrows,
         StoreBlobThrows, CommitThrows, FinishThrows, RollbackThrows, Crash, InSession,
         Clearing
    <3> QED
      BY <3>1
  <2>5. CASE d = e /\ pc[e] \in {"finish", "clear"} /\ sid[e] = h.session
    <3>1. \/ pc'[e] \in {"finish", "clear"} /\ sid'[e] = sid[e]
          \/ pc'[e] = "dead"
      <4>1. ~Command(e)
        BY <2>5 DEF Command, StartSession, CreateFile, GetFile, GetBlob, AddBlob,
           RemoveBlob, StoreBlob, AddTriple, CommitPasses, CommitRejected, Rollback, Exit,
           CleanSessions, InSession
      <4>2. CASE Continue(e)
        BY <1>0, <1>2, <2>5, <4>2 DEF Continue, CloseReplaced, ApplySelect, ApplyRow,
           Publish, Finish, CommitEnd, CloseFile, CloseBlob, RollbackRows, ExitEnd, Goto
      <4>3. CASE Fault(e)
        BY <1>0, <2>5, <4>3 DEF Fault, GetFileThrows, StoreBlobThrows, CommitThrows,
           FinishThrows, RollbackThrows, Crash, InSession, Goto
      <4> QED
        BY <4>1, <4>2, <4>3 DEF Step
    <3> QED
      BY <2>1, <2>2, <2>5, <3>1
  <2> QED
    BY <2>1, <2>3, <2>4, <2>5
<1> QED
  BY <1>3, <1>4

-----------------------------------------------------------------------------
(* What a session has changed. *)

\* Where neither commit nor rollback throws at its end, nobody comes back from one.
LEMMA PlaceStays ==
  ASSUME TypeInv, {"finish", "rollback"} \cap Faults = {}, NEW e \in Env, Step(e),
         Owner(e)', ~StartSession(e)
  PROVE  Owner(e)
<1>0. /\ pc \in [Env -> Places] /\ sid \in [Env -> SessionId \cup {None}]
  BY DEF TypeInv, TypeOK, EnvTypeOK
<1>1. CASE pc[e] # "rollback"
  BY <1>1, PlaceStep
<1>2. CASE pc[e] = "rollback"
  <2> USE DEF Goto, Owner
  <2>1. ~Command(e)
    BY <1>0, <1>2 DEF Command, StartSession, CreateFile, GetFile, GetBlob, AddBlob,
       RemoveBlob, StoreBlob, AddTriple, CommitPasses, CommitRejected, Rollback, Exit,
       CleanSessions, InSession
  <2>2. ~Continue(e)
    BY <1>0, <1>2 DEF Continue, CloseReplaced, ApplySelect, ApplyRow, Publish,
       Finish, CommitEnd, CloseFile, CloseBlob, RollbackRows, ExitEnd
  <2>3. ~Fault(e)
    BY <1>0, <1>2 DEF Fault, GetFileThrows, StoreBlobThrows, CommitThrows,
       FinishThrows, RollbackThrows, Crash, InSession
  <2> QED
    BY <2>1, <2>2, <2>3 DEF Step
<1> QED
  BY <1>1, <1>2

\* A session loses an object only to a newer one of the same name.
LEMMA ObjectsStay ==
  ASSUME TypeInv, NEW e \in Env, Step(e),
         Owner(e)', ~StartSession(e), NEW b \in blobs[e], b \notin Replaced(e)
  PROVE  \E c \in blobs'[e] : c.id = b.id /\ c.file = b.file /\ c.name = b.name
<1>0. /\ pc \in [Env -> Places] /\ blobs \in [Env -> SUBSET BlobObject]
      /\ sid \in [Env -> SessionId \cup {None}]
  BY DEF TypeInv, TypeOK, EnvTypeOK
<1> DEFINE Kept == \E c \in blobs'[e] : c.id = b.id /\ c.file = b.file /\ c.name = b.name
<1> SUFFICES Kept
  OBVIOUS
<1>1. /\ b \in blobs'[e] => Kept
      /\ blobs' = blobs => Kept
      /\ \A B : blobs' = [blobs EXCEPT ![e] = blobs[e] \cup B] => Kept
  BY <1>0
<1>2. sid'[e] # None
  BY DEF Owner
<1>3. ASSUME NEW a \in blobs[e], RemoveBlob(e, a)
      PROVE  Kept
  <2> DEFINE o == [a EXCEPT !.removed = TRUE]
  <2>1. o.id = a.id /\ o.file = a.file /\ o.name = a.name
    BY <1>0 DEF BlobObject
  <2>2. blobs'[e] = (blobs[e] \ {a}) \cup {o}
    BY <1>0, <1>3 DEF RemoveBlob
  <2> HIDE DEF o
  <2> QED
    BY <2>1, <2>2
<1> HIDE DEF Kept
<1> USE DEF Goto, Owner
<1>4. CASE Command(e)
  BY <1>0, <1>1, <1>3, <1>4 DEF Command, CreateFile, GetFile, GetBlob, AddBlob,
     RemoveBlob, StoreBlob, AddTriple, CommitPasses, CommitRejected, Rollback, Exit,
     CleanSessions, envVars, InSession
<1>5. CASE Continue(e)
  BY <1>0, <1>1, <1>2, <1>5 DEF Continue, CloseReplaced, ApplySelect, ApplyRow, Publish,
     Finish, CommitEnd, CloseFile, CloseBlob, RollbackRows, ExitEnd, Clearing
<1>6. CASE Fault(e)
  BY <1>0, <1>1, <1>2, <1>6 DEF Fault, GetFileThrows, StoreBlobThrows, CommitThrows,
     FinishThrows, RollbackThrows, Crash, InSession
<1> QED
  BY <1>4, <1>5, <1>6 DEF Step

\* ChangesHaveObjects by induction.
LEMMA ChangesHaveObjectsNext ==
  ASSUME TypeInv, IInv, ReferencesDrawn, ObjectInv, HandleInv, ChangesHaveObjects,
         NEW e \in Env, Step(e)
  PROVE  ChangesHaveObjects'
<1> SUFFICES ASSUME {"finish", "rollback"} \cap Faults = {}, NEW d \in Env, Owner(d)',
                    NEW r \in blob', NEW op \in {"Store", "Remove"},
                    NEW s, s = sid'[d], Journaled(s, "Blob", r.id, op)'
             PROVE  \E b \in blobs'[d] : b.id = r.id
  BY DEF ChangesHaveObjects, Owner, Journaled
<1>0. /\ sid \in [Env -> SessionId \cup {None}]
      /\ op \in Operation
      /\ journal \in [SessionId -> Seq(JournalRow)]
  BY DEF TypeInv, TypeOK, EnvTypeOK, DatabaseTypeOK, Operation
<1>1. ASSUME NEW t \in SessionId, Journaled(t, "Blob", r.id, op)
      PROVE  \E q \in blob : q.id = r.id
  <2>1. r.id \in Nat
    BY <1>0, RowsStay, IdsAreNumbers
  <2>2. r.id < nextId["blob"]
    BY <1>0, <1>1, <2>1 DEF ReferencesDrawn
  <2> QED
    BY <2>2, NoRowComesBack
<1>2. CASE d # e
  <2>1. OwnVariablesKept(d)
    BY <1>2, OthersKept
  <2>2. Owner(d) /\ sid[d] \in SessionId /\ sid[d] # sid[e]
    BY <1>0, <1>2, <2>1 DEF OwnVariablesKept, Owner, IInv, EnvInv, SessionsOwned
  <2>3. Journaled(sid[d], "Blob", r.id, op)
    BY <2>1, <2>2, JournalGrows DEF OwnVariablesKept
  <2>4. \E b \in blobs[d] : b.id = r.id
    BY <1>1, <2>2, <2>3 DEF ChangesHaveObjects
  <2> QED
    BY <2>1, <2>4 DEF OwnVariablesKept
<1>3. CASE d = e /\ StartSession(e)
  <2>1. sid'[e] = nextId["session"] /\ sid[e] = None /\ sid'[e] \in SessionId
    BY <1>0, <1>3, IdsAreNumbers, BoundAssumption DEF StartSession, SessionId
  <2>2. Journaled(s, "Blob", r.id, op)
    BY <1>3, <2>1, JournalGrows DEF Journals, InSession
  <2>3. s \in SessionId /\ s = nextId["session"]
    BY <1>3, <2>1
  <2>4. journal[s] # << >>
    BY <1>0, <2>2, <2>3, JournalNotEmpty
  <2>5. s \in session
    BY <2>3, <2>4 DEF HandleInv, JournalHasSession
  <2> QED
    BY <2>3, <2>5, IdsAreNumbers DEF ReferencesDrawn
<1>4. CASE d = e /\ ~StartSession(e)
  <2>1. sid'[e] = sid[e] /\ sid[e] \in SessionId
    BY <1>0, <1>4, PlaceStep DEF Owner
  <2>2. CASE Journaled(sid[e], "Blob", r.id, op)
    <3>1. PICK q \in blob : q.id = r.id
      BY <1>1, <2>1, <2>2
    <3>2. Owner(e)
      BY <1>4, PlaceStays
    <3>3. PICK b \in blobs[e] : b.id = r.id
      BY <2>2, <3>1, <3>2 DEF ChangesHaveObjects
    <3>4. b \notin Replaced(e)
      BY <3>1, <3>3 DEF ObjectInv, ReplacedGone, BlobExists
    <3> QED
      BY <1>4, <3>3, <3>4, ObjectsStay
  <2>3. CASE Journals(e, "Blob", r.id, op)
    <3>1. PICK b \in blobs[e] : b.id = r.id
      BY <2>3 DEF Journals
    <3>2. r.id < nextId["blob"]
      BY <3>1 DEF IInv, EnvInv, ObjectsSound
    <3>3. \E q \in blob : q.id = r.id
      BY <3>2, NoRowComesBack
    <3>4. b \notin Replaced(e)
      BY <3>1, <3>3 DEF ObjectInv, ReplacedGone, BlobExists
    <3> QED
      BY <1>4, <3>1, <3>4, ObjectsStay
  <2> QED
    BY <1>4, <2>1, <2>2, <2>3, JournalGrows
<1> QED
  BY <1>2, <1>3, <1>4

-----------------------------------------------------------------------------
(* A handle stands for an object. *)

\* Who leaves its session has closed everything, unless it dies.
LEMMA LeaveStep ==
  ASSUME TypeInv, NEW e \in Env, Step(e), sid'[e] # sid[e], "crash" \notin Faults
  PROVE  sid[e] = None \/ (~InSession(e) /\ files[e] = {} /\ blobs[e] = {})
<1>0. sid \in [Env -> SessionId \cup {None}]
  BY DEF TypeInv, TypeOK, EnvTypeOK
<1>1. CASE Command(e)
  BY <1>0, <1>1 DEF Command, StartSession, CreateFile, GetFile, GetBlob, AddBlob,
     RemoveBlob, StoreBlob, AddTriple, CommitPasses, CommitRejected, Rollback, Exit,
     CleanSessions, envVars
<1>2. CASE Continue(e)
  BY <1>0, <1>2 DEF Continue, CloseReplaced, ApplySelect, ApplyRow, Publish, Finish,
     CommitEnd, CloseFile, CloseBlob, RollbackRows, ExitEnd, InSession
<1>3. CASE Fault(e)
  BY <1>0, <1>3 DEF Fault, GetFileThrows, StoreBlobThrows, CommitThrows, FinishThrows,
     RollbackThrows, Crash
<1> QED
  BY <1>1, <1>2, <1>3 DEF Step

\* HandlesHaveObjects by induction.
LEMMA HandlesHaveObjectsNext ==
  ASSUME TypeInv, HandlesHaveObjects, NEW e \in Env, Step(e)
  PROVE  HandlesHaveObjects'
<1> SUFFICES ASSUME "crash" \notin Faults, NEW h \in handle'
             PROVE  \E d \in Env : h.session = sid'[d] /\ HasObject(d, h)'
  BY DEF HandlesHaveObjects, HasObject
<1>1. CASE h \notin handle
  <2>1. InSession(e) /\ h.session = sid[e] /\ HasObject(e, h)'
    BY <1>1, HandlesStep
  <2>2. sid'[e] = sid[e]
    BY <2>1, LeaveStep DEF InSession
  <2> QED
    BY <2>1, <2>2
<1>2. CASE h \in handle
  <2>1. PICK d \in Env : h.session = sid[d] /\ HasObject(d, h)
    BY <1>2 DEF HandlesHaveObjects, HasObject
  <2>2. h.session # None
    BY <1>2, NoneIsNoSession DEF TypeInv, TypeOK, DatabaseTypeOK, HandleRow
  <2>3. CASE d # e
    BY <2>1, <2>3, OthersKept DEF OwnVariablesKept, HasObject
  <2>4. CASE d = e
    <3>1. sid'[e] = sid[e]
      BY <2>1, <2>2, <2>4, LeaveStep DEF HasObject
    <3> QED
      BY <1>2, <2>1, <2>2, <2>4, <3>1, HandleClosedWithObject
  <2> QED
    BY <2>3, <2>4
<1> QED
  BY <1>1, <1>2

-----------------------------------------------------------------------------
(* The invariant. *)

\* The inductive invariant, with that of SessionSafety.
SessionInv ==
  /\ LockInv /\ ReferencesDrawn
  /\ ObjectInv /\ HandlesOwned /\ HandlesHaveObjects
  /\ HandleInv /\ ChangesHaveObjects

\* The initial state has neither sessions nor objects.
LEMMA InitSession == Init => SessionInv
<1> SUFFICES ASSUME Init PROVE SessionInv
  OBVIOUS
<1> USE DEF Init, DatabaseInit
<1>1. LockInv
  BY DEF LockInv, LockHeld, DeadGone
<1>2. \A s \in SessionId : \A r, i, o : ~Journaled(s, r, i, o)
  BY DEF Journaled
<1>3. ReferencesDrawn
  BY <1>2 DEF ReferencesDrawn
<1>4. ObjectInv
  BY DEF ObjectInv, ObjectsKeyed, ReplacedGone, Replaced, ObjectsInFiles
<1>5. HandlesOwned /\ HandlesHaveObjects
  BY DEF HandlesOwned, HandlesHaveObjects
<1>6. HandleInv
  BY DEF HandleInv, SessionsAlive, Owner, JournalHasSession, ObjectsHaveHandles,
     StaleHandles
<1>7. ChangesHaveObjects
  BY DEF ChangesHaveObjects, Owner
<1> QED
  BY <1>1, <1>3, <1>4, <1>5, <1>6, <1>7 DEF SessionInv

\* Every step preserves the invariant.
LEMMA SessionInvNext ==
  ASSUME TypeInv, TypeInv', IInv, SessionInv, [Next]_vars
  PROVE  SessionInv'
<1>1. ASSUME NEW e \in Env, Step(e)
      PROVE  SessionInv'
  <2> USE <1>1 DEF SessionInv
  <2>1. LockInv' /\ ReferencesDrawn'
    BY LockNext, ReferencesNext
  <2>2. ObjectInv' /\ HandlesOwned' /\ HandlesHaveObjects'
    BY ObjectNext, HandlesOwnedNext, HandlesHaveObjectsNext
  <2>3. HandleInv'
    BY SessionsAliveNext, JournalHasSessionNext, ObjectsHaveHandlesNext, StaleHandlesNext
       DEF HandleInv
  <2>4. ChangesHaveObjects'
    BY ChangesHaveObjectsNext
  <2> QED
    BY <2>1, <2>2, <2>3, <2>4
<1>2. CASE UNCHANGED vars
  <2> USE <1>2 DEF vars, dbVars, envVars, SessionInv
  <2>1. \A s, r, i, o : Journaled(s, r, i, o)' <=> Journaled(s, r, i, o)
    BY UnchangedJournal
  <2>2. LockInv'
    BY DEF LockInv, LockHeld, DeadGone
  <2>3. ReferencesDrawn'
    BY <2>1 DEF ReferencesDrawn
  <2>4. ObjectInv'
    BY DEF ObjectInv, ObjectsKeyed, ReplacedGone, Replaced, ObjectsInFiles, BlobExists,
       Clearing
  <2>5. HandlesOwned' /\ HandlesHaveObjects'
    BY DEF HandlesOwned, HandlesHaveObjects, HasObject
  <2>6. HandleInv'
    BY DEF HandleInv, SessionsAlive, Owner, JournalHasSession, ObjectsHaveHandles,
       StaleHandles, FileHandle, BlobHandle
  <2>7. ChangesHaveObjects'
    BY <2>1 DEF ChangesHaveObjects, Owner
  <2> QED
    BY <2>2, <2>3, <2>4, <2>5, <2>6, <2>7
<1> QED
  BY <1>1, <1>2 DEF Next, Step

\* The invariant holds in every reachable state.
THEOREM SessionInvariant == Spec => [](TypeInv /\ IInv /\ SessionInv)
<1>1. TypeInv /\ TypeInv' /\ IInv /\ SessionInv /\ [Next]_vars => SessionInv'
  BY SessionInvNext
<1> QED
  BY <1>1, InitSession, Invariant, PTL DEF Spec

-----------------------------------------------------------------------------
(* What it is for. *)

\* A handle stands for an object of a process, whatever fails short of a crash:
\* nothing else keeps later commits from being isolated.
THEOREM HandlesHaveObjectsHolds == Spec => []HandlesHaveObjects
<1>1. SessionInv => HandlesHaveObjects
  BY DEF SessionInv
<1> QED
  BY <1>1, SessionInvariant, PTL

\* Journal rows always have the row of their session, unless the end of a commit
\* throws: commitSession and rollbackSession delete both in one transaction.
THEOREM JournalHasSessionHolds ==
  ASSUME "finish" \notin Faults
  PROVE  Spec => []JournalHasSession
<1>1. SessionInv => JournalHasSession
  BY DEF SessionInv, HandleInv
<1> QED
  BY <1>1, SessionInvariant, PTL

\* The objects of a session that can still commit have their handle rows, also
\* while others clean up, commit, roll back and replace objects.
THEOREM ObjectsHaveHandlesHolds ==
  ASSUME "finish" \notin Faults
  PROVE  Spec => []ObjectsHaveHandles
<1>1. SessionInv => ObjectsHaveHandles
  BY DEF SessionInv, HandleInv
<1> QED
  BY <1>1, SessionInvariant, PTL

\* An object of another session on a blob keeps every safe level from passing
\* for a session that has journaled a change of the blob.
LEMMA OpenBlocks ==
  ASSUME NEW s \in SessionId, NEW t \in session, t # s, NEW i, NEW op,
         Journaled(s, "Blob", i, op), BlobHandle(i, t) \in handle
  PROVE  \A level \in Levels \ {"unsafe"} : ~IsIsolated(level, s)
<1>1. OpenElsewhere(s, "Blob", i)
  BY DEF OpenElsewhere, BlobHandle
<1>2. ~FullIsolation(s)
  BY DEF FullIsolation
<1>3. ~AlmostFullIsolation(s)
  BY DEF AlmostFullIsolation, BlobHandle
<1>4. ~FileExclusiveIsolation(s)
  BY <1>1 DEF FileExclusiveIsolation, Journaled
<1>5. ~BlobExclusiveIsolation(s)
  BY <1>1 DEF BlobExclusiveIsolation, Journaled
<1> QED
  BY <1>2, <1>3, <1>4, <1>5 DEF Levels, IsIsolated

\* Two sessions with changes of one blob pending block each other at every safe
\* level, for any number of processes, blobs and journal rows.
THEOREM ConflictsBlockHolds ==
  ASSUME {"finish", "rollback"} \cap Faults = {}
  PROVE  Spec => []ConflictsBlock
<1>1. TypeInv /\ IInv /\ SessionInv => ConflictsBlock
  <2> SUFFICES ASSUME TypeInv, IInv, SessionInv,
                      NEW d \in Env, NEW e \in Env, d # e, Owner(d), Owner(e),
                      NEW b \in blob,
                      NEW op \in {"Store", "Remove"}, NEW oq \in {"Store", "Remove"},
                      Journaled(sid[d], "Blob", b.id, op),
                      Journaled(sid[e], "Blob", b.id, oq)
               PROVE  \A level \in Levels \ {"unsafe"} : ~IsIsolated(level, sid[d])
    BY DEF ConflictsBlock
  <2>1. sid[d] \in SessionId /\ sid[e] # sid[d]
    BY IdsAreNumbers DEF Owner, IInv, EnvInv, SessionsOwned
  <2>2. sid[e] \in session
    BY DEF SessionInv, HandleInv, SessionsAlive
  <2>3. PICK c \in blobs[e] : c.id = b.id
    BY DEF SessionInv, ChangesHaveObjects
  <2>4. BlobHandle(b.id, sid[e]) \in handle
    BY <2>3 DEF SessionInv, HandleInv, ObjectsHaveHandles
  <2> QED
    BY <2>1, <2>2, <2>4, OpenBlocks
<1> QED
  BY <1>1, SessionInvariant, PTL

\* Where no commit is under way and no buffer is being cleared, who has an object
\* of a blob has one of its file, with its handle.
LEMMA FileOpenWithBlob ==
  ASSUME TypeInv, IInv, SessionInv, "finish" \notin Faults, "crash" \notin Faults,
         LockFree, \A d \in Env : ~Clearing(d),
         NEW s, NEW b \in blob, OpenElsewhere(s, "Blob", b.id)
  PROVE  FileOfBlobOpenElsewhere(s, b)
<1>1. PICK h \in handle : h.relation = "Blob" /\ h.id = b.id /\ h.session # s
  BY DEF OpenElsewhere
<1>2. PICK d \in Env : h.session = sid[d] /\ \E c \in blobs[d] : c.id = b.id
  BY <1>1 DEF SessionInv, HandlesHaveObjects
<1>3. b.file \in files[d]
  BY <1>2 DEF SessionInv, ObjectInv, ObjectsKeyed, ObjectsInFiles
<1>4. sid[d] # None
  BY <1>1, <1>2, NoneIsNoSession DEF TypeInv, TypeOK, DatabaseTypeOK, HandleRow
<1>5. Owner(d)
  BY <1>4, EnvironmentAssumption DEF Owner, TypeInv, TypeOK, EnvTypeOK, Places, Clearing,
     SessionInv, LockInv, LockHeld, DeadGone, LockFree
<1>6. FileHandle(b.file, sid[d]) \in handle
  BY <1>3, <1>5 DEF SessionInv, HandleInv, ObjectsHaveHandles
<1>7. PICK f \in file : f.id = b.file
  BY DEF IInv, DbInv, BlobTableSound
<1> QED
  BY <1>1, <1>2, <1>6, <1>7 DEF FileOfBlobOpenElsewhere, OpenElsewhere, FileHandle

\* The levels of src/isolation are ordered wherever a commit can ask for them.
THEOREM LevelsOrderedHolds ==
  ASSUME "finish" \notin Faults
  PROVE  Spec => []LevelsOrdered
<1>1. TypeInv /\ IInv /\ SessionInv => LevelsOrdered
  <2> SUFFICES ASSUME TypeInv, IInv, SessionInv, LockFree, NEW e \in Env, InSession(e)
               PROVE  /\ FullIsolation(sid[e]) => AlmostFullIsolation(sid[e])
                      /\ AlmostFullIsolation(sid[e]) => FileExclusiveIsolation(sid[e])
                      /\ "crash" \notin Faults /\ (\A d \in Env : ~Clearing(d)) =>
                           (FileExclusiveIsolation(sid[e]) => BlobExclusiveIsolation(sid[e]))
    BY DEF LevelsOrdered
  <2>1. ASSUME FullIsolation(sid[e]) PROVE AlmostFullIsolation(sid[e])
    <3>1. \A h \in handle : h.session \in session
      BY EnvironmentAssumption DEF SessionInv, HandleInv, StaleHandles, LockFree
    <3> QED
      BY <2>1, <3>1 DEF FullIsolation, AlmostFullIsolation
  <2>2. ASSUME AlmostFullIsolation(sid[e]) PROVE FileExclusiveIsolation(sid[e])
    BY <2>2 DEF AlmostFullIsolation, FileExclusiveIsolation, OpenElsewhere,
       FileOfBlobOpenElsewhere
  <2>3. ASSUME "crash" \notin Faults, \A d \in Env : ~Clearing(d),
               FileExclusiveIsolation(sid[e])
        PROVE  BlobExclusiveIsolation(sid[e])
    BY <2>3, FileOpenWithBlob DEF FileExclusiveIsolation, BlobExclusiveIsolation
  <2> QED
    BY <2>1, <2>2, <2>3
<1> QED
  BY <1>1, SessionInvariant, PTL
=============================================================================

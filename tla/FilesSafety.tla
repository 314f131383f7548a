----------------------------- MODULE FilesSafety ----------------------------
(***************************************************************************)
(* The directory is written beside the tables without disturbing them:     *)
(* every step of FileStore is a step of Sessions or none.  And no content  *)
(* that a commit has left is ever lost, whatever throws and whoever dies.  *)
(***************************************************************************)
EXTENDS FileProperties, HandlesSafety, FiniteSetTheorems, WellFoundedInduction

\* Who is inside getBlobPath is in a session and does nothing else meanwhile:
\* the object it was called for is in the buffer, its temporary name is one.
CallSound ==
  /\ DOMAIN call = Env
  /\ \A e \in Env : call[e] # None =>
       /\ InSession(e)
       /\ call[e].blob \in blobs[e]
       /\ call[e].temp \in Nat \X Nat

\* There are finitely many temporary files, so that there is a name left.
TempFinite == IsFiniteSet(DOMAIN temp) /\ IsFiniteSet(DOMAIN backup)

\* The names in VFS::modified are names of temporary files.
PathsTyped ==
  /\ DOMAIN path = Env
  /\ \A e \in Env : \A k \in DOMAIN path[e] : path[e][k] \in Nat \X Nat

\* The file a journaled store comes from is known: the key of its blob is in
\* VFS::modified until the journal has been flushed.
StoresRemembered ==
  \A e \in Env : sid[e] # None => \A b \in blob :
    Journaled(sid[e], "Blob", b.id, "Store") =>
      Key(b) \in modified[e] /\ pc[e] \notin {"finish", "clear"}

\* Only sessions that have been started have stores journaled.
StoresStarted ==
  \A s \in SessionId, id \in Nat : Journaled(s, "Blob", id, "Store") => s < nextId["session"]

\* The loop of VFS::apply goes through rows that were selected, and between the
\* two renames of a store its key is free.
ApplySound ==
  \A e \in Env : pc[e] = "apply" =>
    /\ todo[e] \subseteq DOMAIN selected
    /\ step = "aside" =>
         ops # << >> /\ Last(ops) \in MoveOperation /\ Last(ops).key \notin DOMAIN disk

Asides == { ops[i].aside : i \in DOMAIN ops }

\* A content is there, or where this commit will not delete it.
Safe(k) ==
  \/ k \in DOMAIN disk /\ disk[k] = stored[k]
  \/ \E t \in DOMAIN backup \ Asides : backup[t] = stored[k]

\* This commit has replaced or removed what was there.
Touched(k) == \E i \in DOMAIN ops : ops[i].key = k

\* What this commit deletes when it finishes is what it has replaced.
ReplacedOnly ==
  \A e \in Env : pc[e] \in {"apply", "finish"} => \A k \in DOMAIN stored :
    Safe(k) \/ (pc[e] = "apply" /\ Touched(k))

\* A directory is nothing but what it maps its names to.
Directories ==
  /\ disk = [k \in DOMAIN disk |-> disk[k]]
  /\ backup = [t \in DOMAIN backup |-> backup[t]]

\* UndoPossible, between the two renames of a store as well: what undoes it does
\* not look at what the second one does.
UndoSound == \A e \in Env : pc[e] = "apply" => Undone.disk = before

\* The inductive invariant.
FileInv ==
  /\ FileTypeOK /\ CallSound /\ TempFinite /\ PathsTyped
  /\ StoresStarted /\ StoresRemembered /\ ApplySound /\ ContentKept /\ ReplacedOnly
  /\ Directories /\ UndoSound

-----------------------------------------------------------------------------
(* Names in temp. *)

\* Every set of numbers has a least one.
LEMMA LeastNumber ==
  ASSUME NEW T \in SUBSET Nat, T # {}
  PROVE  \E x \in T : \A y \in T : x <= y
<1>1. PICK x \in T : \A y \in T : <<y, x>> \notin OpToRel(<, Nat)
  BY NatLessThanWellFounded, WFMin
<1>2. ASSUME NEW y \in T
      PROVE  x <= y
  <2>1. <<y, x>> \in Nat \X Nat
    OBVIOUS
  <2> QED
    BY <1>1, <2>1 DEF OpToRel
<1> QED
  BY <1>2

\* getTempPath finds a name that grows from the seed and that is free.
LEMMA TempPathFree ==
  ASSUME NEW directory, IsFiniteSet(DOMAIN directory), NEW seed
  PROVE  /\ GetTempPath(directory, seed) \in {seed} \X Nat
         /\ GetTempPath(directory, seed) \notin DOMAIN directory
<1> DEFINE n == Cardinality(DOMAIN directory)
           free == { i \in 0 .. n : <<seed, i>> \notin DOMAIN directory }
<1>1. n \in Nat
  BY FS_CardinalityType
<1>2. ASSUME free = {}
      PROVE  FALSE
  <2> DEFINE f == [i \in 0 .. n |-> <<seed, i>>]
  <2>1. f \in [0 .. n -> DOMAIN directory]
    BY <1>2
  <2>2. IsFiniteSet(0 .. n) /\ Cardinality(0 .. n) = n + 1
    BY <1>1, FS_Interval
  <2>3. Cardinality(DOMAIN directory) < Cardinality(0 .. n)
    BY <1>1, <2>2
  <2>4. PICK i \in 0 .. n, k \in 0 .. n : i # k /\ f[i] = f[k]
    <3> HIDE DEF f, n
    <3> QED
      BY <2>1, <2>2, <2>3, FS_PigeonHole
  <2> QED
    BY <2>4
<1>3. PICK i \in free : \A k \in free : i <= k
  <2>1. free \in SUBSET Nat
    BY <1>1
  <2> HIDE DEF free
  <2> QED
    BY <1>2, <2>1, LeastNumber
<1>4. \A k \in 0 .. i - 1 : <<seed, k>> \in DOMAIN directory
  BY <1>1, <1>3
<1> DEFINE P(t) == /\ t \notin DOMAIN directory
                   /\ \A k \in 0 .. t[2] - 1 : <<seed, k>> \in DOMAIN directory
<1>5. \E t \in {seed} \X (0 .. n) : P(t)
  <2>1. <<seed, i>> \in {seed} \X (0 .. n) /\ P(<<seed, i>>)
    BY <1>3, <1>4
  <2> QED
    BY <2>1
<1>6. GetTempPath(directory, seed) = CHOOSE t \in {seed} \X (0 .. n) : P(t)
  BY DEF GetTempPath
<1>7. GetTempPath(directory, seed) \in {seed} \X (0 .. n) /\ P(GetTempPath(directory, seed))
  BY <1>5, <1>6
<1> QED
  BY <1>1, <1>7

\* Directories stay finite.
LEMMA FiniteWith ==
  ASSUME NEW f, NEW x, NEW y, NEW S, IsFiniteSet(DOMAIN f)
  PROVE  /\ DOMAIN With(f, x, y) = DOMAIN f \cup {x} /\ IsFiniteSet(DOMAIN With(f, x, y))
         /\ DOMAIN Without(f, S) = DOMAIN f \ S /\ IsFiniteSet(DOMAIN Without(f, S))
BY FS_AddElement, FS_Subset DEF With, Without

\* TempFinite by induction.
LEMMA TempFiniteNext ==
  ASSUME TempFinite, [FileNext]_allVars
  PROVE  TempFinite'
<1> USE DEF TempFinite, allVars, fileVars, duringCommit
<1>1. CASE UNCHANGED allVars
  BY <1>1
<1>2. ASSUME NEW e \in Env, MoveAside(e) \/ RemoveFile(e)
      PROVE  TempFinite'
  <2>1. PICK key, aside : MovedAside(key, aside) /\ temp' = temp
    BY <1>2 DEF MoveAside, RemoveFile
  <2> QED
    BY <2>1, FiniteWith DEF MovedAside
<1>3. ASSUME NEW e \in Env, MoveIn(e) \/ FinishFiles(e) \/ FinishFilesThrows(e)
      PROVE  TempFinite'
  <2>1. \/ backup' = backup /\ \E S : temp' = Without(temp, S)
        \/ temp' = temp /\ \E S : backup' = Without(backup, S)
    BY <1>3 DEF MoveIn, FinishFiles, FinishFilesThrows, Finished
  <2> QED
    BY <2>1, FiniteWith
<1>4. ASSUME NEW e \in Env, LeaveBlobPath(e) \/ \E b \in blobs[e] : WriteFile(e, b)
      PROVE  TempFinite'
  <2>1. /\ backup' = backup
        /\ temp' = Copied(call[e]) \/ \E b : temp' = With(temp, path[e][Key(b)], WrittenBy(sid[e]))
    BY <1>4 DEF LeaveBlobPath, WriteFile
  <2>2. \A t, x : IsFiniteSet(DOMAIN With(temp, t, x))
    BY FiniteWith
  <2>3. IsFiniteSet(DOMAIN Copied(call[e]))
    BY <2>2 DEF Copied
  <2> QED
    BY <2>1, <2>2, <2>3
<1> QED
  BY <1>1, <1>2, <1>3, <1>4 DEF FileNext, InTables, EnterBlobPath, BeginApply,
     MarkExecuted, ApplyThrows, PublishFiles, EndProcess

-----------------------------------------------------------------------------
(* The tables do not see the directory. *)

FileStep(e) ==
  \/ InTables(e)
  \/ \E b \in blobs[e], write \in BOOLEAN : EnterBlobPath(e, b, write)
  \/ LeaveBlobPath(e)
  \/ \E b \in blobs[e] : WriteFile(e, b)
  \/ BeginApply(e) \/ MoveAside(e) \/ MoveIn(e) \/ RemoveFile(e) \/ MarkExecuted(e)
  \/ ApplyThrows(e)
  \/ PublishFiles(e) \/ FinishFiles(e) \/ FinishFilesThrows(e)
  \/ EndProcess(e)

\* The initial state of the tables is that of Sessions, nobody is in getBlobPath
\* and there are no temporary files.
LEMMA InitFirst == FileInit => Init /\ CallSound /\ TempFinite
BY FS_EmptySet DEF FileInit, CallSound, TempFinite, Nothing

\* What a step of FileStore does to the tables and to the objects is a step of
\* Sessions, or nothing: a rename, a name taken, a file written.
LEMMA FileStepIsStep ==
  ASSUME CallSound, NEW e \in Env, FileStep(e)
  PROVE  Step(e) \/ UNCHANGED vars
<1>1. CASE InTables(e)
  BY <1>1 DEF InTables, Step, Command, Continue, Fault
<1>2. CASE LeaveBlobPath(e)
  BY <1>2 DEF LeaveBlobPath, CallSound, Step, Command, Fault
<1>3. CASE BeginApply(e) \/ MarkExecuted(e) \/ ApplyThrows(e)
  BY <1>3 DEF BeginApply, MarkExecuted, ApplyThrows, Step, Continue, Fault
<1>4. CASE PublishFiles(e) \/ FinishFiles(e) \/ FinishFilesThrows(e) \/ EndProcess(e)
  BY <1>4 DEF PublishFiles, FinishFiles, FinishFilesThrows, EndProcess, Step, Continue,
     Fault
<1>5. ASSUME NEW b, NEW write, EnterBlobPath(e, b, write)
      PROVE  UNCHANGED vars
  BY <1>5 DEF EnterBlobPath
<1>6. ASSUME NEW b, WriteFile(e, b)
      PROVE  UNCHANGED vars
  BY <1>6 DEF WriteFile
<1>7. CASE MoveAside(e) \/ MoveIn(e) \/ RemoveFile(e)
  BY <1>7 DEF MoveAside, MoveIn, RemoveFile
<1> QED
  BY <1>1, <1>2, <1>3, <1>4, <1>5, <1>6, <1>7 DEF FileStep

\* A process that is in a commit is not in getBlobPath.
LEMMA CommitNotInCall ==
  ASSUME CallSound, NEW e \in Env, pc[e] # "idle"
  PROVE  call[e] = None
BY DEF CallSound, InSession

\* CallSound by induction.
LEMMA CallSoundNext ==
  ASSUME TypeInv, CallSound, TempFinite, NEW e \in Env, FileStep(e)
  PROVE  CallSound'
<1>0. pc \in [Env -> Places] /\ blobs \in [Env -> SUBSET BlobObject]
  BY DEF TypeInv, TypeOK, EnvTypeOK
<1>1. ASSUME NEW d \in Env, d # e, call'[d] = call[d]
      PROVE  call'[d] # None => /\ InSession(d)'
                                /\ call'[d].blob \in blobs'[d]
                                /\ call'[d].temp \in Nat \X Nat
  <2>1. OwnVariablesKept(d)
    BY <1>1, FileStepIsStep, OthersKept DEF OwnVariablesKept, vars, envVars
  <2> QED
    BY <1>1, <2>1 DEF OwnVariablesKept, CallSound, InSession
<1>2. ASSUME NEW b \in blobs[e], NEW write, EnterBlobPath(e, b, write)
      PROVE  CallSound'
  <2> DEFINE c == [blob |-> b, temp |-> GetTempPath(temp, b.file),
                   copy |-> write /\ Key(b) \in DOMAIN disk]
  <2>1. call' = [call EXCEPT ![e] = c] /\ UNCHANGED vars /\ InSession(e)
    BY <1>2 DEF EnterBlobPath
  <2>2. c.blob = b /\ c.temp \in Nat \X Nat
    BY <1>0, TempPathFree DEF BlobObject, TempFinite
  <2> HIDE DEF c
  <2> QED
    BY <2>1, <2>2 DEF CallSound, InSession, vars, envVars
<1>3. ASSUME LeaveBlobPath(e) \/ EndProcess(e)
      PROVE  CallSound'
  <2>1. call' = [call EXCEPT ![e] = None]
    BY <1>3 DEF LeaveBlobPath, EndProcess
  <2> QED
    BY <1>1, <2>1 DEF CallSound
<1>4. ASSUME call' = call, call[e] = None
      PROVE  CallSound'
  BY <1>1, <1>4 DEF CallSound
<1>5. ASSUME pc[e] \in {"select", "apply", "finish"}, call' = call
      PROVE  CallSound'
  BY <1>4, <1>5, CommitNotInCall
<1>6. ASSUME \/ BeginApply(e) \/ MoveAside(e) \/ MoveIn(e) \/ RemoveFile(e)
             \/ MarkExecuted(e) \/ ApplyThrows(e)
             \/ PublishFiles(e) \/ FinishFiles(e) \/ FinishFilesThrows(e)
      PROVE  pc[e] \in {"select", "apply", "finish"} /\ call' = call
  BY <1>6 DEF BeginApply, ApplySelect, MoveAside, AtRow, MoveIn, RemoveFile, MarkExecuted,
     ApplyRow, ApplyThrows, CommitThrows, PublishFiles, Publish, FinishFiles, Finish,
     FinishFilesThrows, FinishThrows
<1>7. ASSUME InTables(e) \/ \E b \in blobs[e] : WriteFile(e, b)
      PROVE  call' = call /\ call[e] = None
  BY <1>7 DEF InTables, fileVars, WriteFile
<1> QED
  BY <1>2, <1>3, <1>4, <1>5, <1>6, <1>7 DEF FileStep

\* The types of Sessions and who is in getBlobPath, in every reachable state.
LEMMA FirstInvariant == FileSpec => [](TypeInv /\ CallSound /\ TempFinite)
<1>1. FileInit => TypeInv /\ CallSound /\ TempFinite
  BY InitFirst, InitType
<1>2. TypeInv /\ CallSound /\ TempFinite /\ [FileNext]_allVars
        => (TypeInv /\ CallSound /\ TempFinite)'
  <2> SUFFICES ASSUME TypeInv, CallSound, TempFinite, [FileNext]_allVars
               PROVE  (TypeInv /\ CallSound /\ TempFinite)'
    OBVIOUS
  <2>1. TempFinite'
    BY TempFiniteNext
  <2>2. ASSUME NEW e \in Env, FileStep(e)
        PROVE  TypeInv' /\ CallSound'
    BY <2>2, CallSoundNext, FileStepIsStep, TypeNext DEF Next, Step
  <2>3. CASE UNCHANGED allVars
    <3>1. TypeInv'
      BY <2>3, TypeNext DEF allVars
    <3>2. CallSound'
      BY <2>3 DEF allVars, fileVars, CallSound, InSession, vars, envVars
    <3> QED
      BY <2>1, <3>1, <3>2
  <2> QED
    BY <2>1, <2>2, <2>3 DEF FileNext, FileStep
<1> QED
  BY <1>1, <1>2, PTL DEF FileSpec

\* The directory is written without any effect on the tables: every behaviour
\* of FileStore is, as to tables and objects, one of Sessions, so that what is
\* proved of sessions holds here.
THEOREM ImplementsSessions == FileSpec => Spec
<1>1. FileInit => Init
  BY InitFirst
<1>2. CallSound /\ [FileNext]_allVars => [Next]_vars
  <2> SUFFICES ASSUME CallSound, [FileNext]_allVars PROVE [Next]_vars
    OBVIOUS
  <2>1. ASSUME NEW e \in Env, FileStep(e)
        PROVE  [Next]_vars
    BY <2>1, FileStepIsStep DEF Next, Step
  <2> QED
    BY <2>1 DEF FileNext, FileStep, allVars
<1> QED
  BY <1>1, <1>2, FirstInvariant, PTL DEF FileSpec, Spec

-----------------------------------------------------------------------------
(* Stores that are journaled. *)

\* A store is journaled by getBlobPath only, for an object in the buffer.
LEMMA StoreStep ==
  ASSUME TypeInv, NEW e \in Env, Step(e), NEW s \in SessionId, NEW id \in Nat,
         Journaled(s, "Blob", id, "Store")'
  PROVE  \/ /\ Journaled(s, "Blob", id, "Store")
            /\ s = sid[e] => ~Publish(e)
         \/ s = sid[e] /\ \E b \in blobs[e] : b.id = id /\ StoreBlob(e, b)
<1>0. /\ nextId \in [{"session", "file", "blob", "metadata"} -> Nat]
      /\ journal \in [SessionId -> Seq(JournalRow)]
      /\ InSession(e) => sid[e] \in SessionId
      /\ \A b \in blobs[e] : b.id \in Nat
  BY IdsAreNumbers, SessionIdOfInside DEF TypeInv, TypeOK, DatabaseTypeOK
<1> DEFINE Old == Journaled(s, "Blob", id, "Store")
           New == \E b \in blobs[e] : b.id = id /\ StoreBlob(e, b)
<1>1. journal' = journal => Old
  BY UnchangedJournal
<1>2. ASSUME NEW rel \in Relation, NEW i \in Nat, NEW op \in {"Add", "Remove"},
             InSession(e), Log(sid[e], rel, i, op)
      PROVE  Old
  BY <1>0, <1>2, LogEffect DEF Operation
<1>3. ASSUME NEW b \in blobs[e], StoreBlob(e, b)
      PROVE  Old \/ (s = sid[e] /\ New)
  <2>1. InSession(e) /\ Log(sid[e], "Blob", b.id, "Store")
    BY <1>3 DEF StoreBlob
  <2>2. Old \/ (s = sid[e] /\ id = b.id)
    BY <1>0, <2>1, LogEffect DEF Relation, Operation
  <2> QED
    BY <1>3, <2>2
<1>4. CASE ApplyRow(e)
  <2>1. PICK k \in todo[e] : journal' = [journal EXCEPT ![sid[e]][k].executed = TRUE]
    BY <1>4 DEF ApplyRow
  <2>2. sid[e] \in SessionId
    BY <1>4, SessionIdOfInside DEF ApplyRow
  <2> QED
    BY <1>0, <1>4, <2>1, <2>2, ExecuteEffect DEF ApplyRow, Publish
<1>5. CASE Publish(e) \/ RollbackRows(e)
  <2>1. sid[e] \in SessionId /\ journal' = FlushedJournal(sid[e])
    BY <1>5, SessionIdOfInside DEF Publish, RollbackRows
  <2> QED
    BY <1>0, <2>1, FlushEffect
<1>6. ~Publish(e) => Old \/ (s = sid[e] /\ New)
  <2>1. ApplyRow(e) \/ RollbackRows(e) => Old \/ (s = sid[e] /\ New)
    BY <1>4, <1>5
  <2> HIDE DEF Old, New
  <2>2. CASE Command(e)
    BY <1>0, <1>1, <1>2, <1>3, <2>2 DEF Command, StartSession, CreateFile, GetFile, GetBlob,
       AddBlob, RemoveBlob, AddTriple, CommitPasses, CommitRejected, Rollback, Exit,
       CleanSessions, dbVars, Relation
  <2>3. CASE Continue(e)
    BY <1>1, <2>1, <2>3 DEF Continue, CloseReplaced, ApplySelect, Finish, CommitEnd,
       CloseFile, CloseBlob, ExitEnd, dbVars
  <2>4. CASE Fault(e)
    BY <1>1, <2>4 DEF Fault, GetFileThrows, StoreBlobThrows, CommitThrows, FinishThrows,
       RollbackThrows, Crash, dbVars
  <2> QED
    BY <2>2, <2>3, <2>4 DEF Step
<1> QED
  BY <1>5, <1>6

\* A process forgets what it has stored with the end of its session only.
LEMMA ModifiedStays ==
  ASSUME TypeInv, NEW e \in Env, Step(e), ~Publish(e), sid'[e] # None,
         pc[e] \notin {"finish", "clear"}
  PROVE  modified[e] \subseteq modified'[e] /\ pc'[e] \notin {"finish", "clear"}
<1>0. /\ pc \in [Env -> Places] /\ sid \in [Env -> SessionId \cup {None}]
      /\ modified \in [Env -> SUBSET (Nat \X Name)]
  BY DEF TypeInv, TypeOK, EnvTypeOK
<1> USE DEF Goto
<1>1. CASE Command(e)
  BY <1>0, <1>1 DEF Command, StartSession, CreateFile, GetFile, GetBlob, AddBlob,
     RemoveBlob, StoreBlob, AddTriple, CommitPasses, CommitRejected, Rollback, Exit,
     CleanSessions, envVars
<1>2. CASE Continue(e)
  BY <1>0, <1>2 DEF Continue, CloseReplaced, ApplySelect, ApplyRow, Finish, CommitEnd,
     CloseFile, CloseBlob, RollbackRows, ExitEnd
<1>3. CASE Fault(e)
  BY <1>0, <1>3 DEF Fault, GetFileThrows, StoreBlobThrows, CommitThrows, FinishThrows,
     RollbackThrows, Crash
<1> QED
  BY <1>1, <1>2, <1>3 DEF Step

\* StoresStarted by induction.
LEMMA StoresStartedNext ==
  ASSUME TypeInv, IInv, StoresStarted, NEW e \in Env, Step(e)
  PROVE  StoresStarted'
<1>1. nextId["session"] \in Nat /\ nextId'["session"] \in Nat
      /\ nextId["session"] <= nextId'["session"]
  BY CountersGrow
<1>2. ASSUME NEW s \in SessionId, NEW id \in Nat, Journaled(s, "Blob", id, "Store")'
      PROVE  s < nextId["session"] /\ s \in Nat
  <2>1. s \in Nat
    BY BoundAssumption DEF SessionId
  <2>2. CASE Journaled(s, "Blob", id, "Store")
    BY <2>1, <2>2 DEF StoresStarted
  <2>3. CASE s = sid[e]
    BY <2>1, <2>3, NoneIsNoSession DEF IInv, EnvInv, SessionsOwned
  <2> QED
    BY <1>2, <2>2, <2>3, StoreStep
<1>3. ASSUME NEW s \in SessionId, NEW id \in Nat, Journaled(s, "Blob", id, "Store")'
      PROVE  s < nextId'["session"]
  BY <1>1, <1>2, <1>3
<1> QED
  BY <1>3 DEF StoresStarted

\* StoresRemembered by induction.
LEMMA StoresRememberedNext ==
  ASSUME TypeInv, IInv, SessionInv, StoresStarted, StoresRemembered,
         NEW e \in Env, Step(e)
  PROVE  StoresRemembered'
<1> SUFFICES ASSUME NEW d \in Env, NEW s, s = sid'[d], s # None, NEW q \in blob',
                    Journaled(s, "Blob", q.id, "Store")'
             PROVE  Key(q) \in modified'[d] /\ pc'[d] \notin {"finish", "clear"}
  BY DEF StoresRemembered, Journaled
<1>0. /\ sid \in [Env -> SessionId \cup {None}] /\ q.id \in Nat
      /\ nextId["session"] \in Nat
      /\ pc \in [Env -> Places] /\ modified \in [Env -> SUBSET (Nat \X Name)]
  BY RowsStay, IdsAreNumbers DEF TypeInv, TypeOK, EnvTypeOK
<1>1. s \in SessionId
  <2>1. StartSession(e) => nextId["session"] \in SessionId
    BY <1>0, BoundAssumption DEF StartSession, SessionId
  <2> QED
    BY <1>0, <2>1, SidStep, OthersKept DEF OwnVariablesKept
<1>2. ASSUME Journaled(s, "Blob", q.id, "Store")
      PROVE  \E r \in blob : r.id = q.id /\ Key(r) = Key(q)
  <2>1. q.id < nextId["blob"]
    BY <1>0, <1>1, <1>2 DEF SessionInv, ReferencesDrawn, Operation
  <2> QED
    BY <2>1, NoRowComesBack DEF Key
<1>3. CASE d # e
  <2>1. OwnVariablesKept(d)
    BY <1>3, OthersKept
  <2>2. s = sid[d] /\ s # sid[e]
    BY <1>3, <2>1 DEF OwnVariablesKept, IInv, EnvInv, SessionsOwned
  <2>3. Journaled(s, "Blob", q.id, "Store")
    BY <1>0, <1>1, <2>2, StoreStep
  <2> QED
    BY <1>2, <2>1, <2>2, <2>3 DEF StoresRemembered, OwnVariablesKept
<1>4. CASE d = e /\ StartSession(e)
  <2>1. sid[e] = None /\ s = nextId["session"]
    BY <1>0, <1>4 DEF StartSession
  <2>2. Journaled(s, "Blob", q.id, "Store")
    BY <1>0, <1>1, <2>1, StoreStep
  <2> QED
    BY <1>0, <1>1, <2>1, <2>2 DEF StoresStarted
<1>5. CASE d = e /\ ~StartSession(e)
  <2>1. s = sid[e]
    BY <1>5, SidStep
  <2>2. CASE Journaled(s, "Blob", q.id, "Store") /\ ~Publish(e)
    <3>1. PICK r \in blob : r.id = q.id /\ Key(r) = Key(q)
      BY <1>2, <2>2
    <3>2. Key(r) \in modified[e] /\ pc[e] \notin {"finish", "clear"}
      BY <2>1, <2>2, <3>1 DEF StoresRemembered
    <3> QED
      BY <1>5, <2>2, <3>1, <3>2, ModifiedStays
  <2>3. ASSUME NEW b \in blobs[e], b.id = q.id, StoreBlob(e, b)
        PROVE  Key(q) \in modified'[d] /\ pc'[d] \notin {"finish", "clear"}
    <3>1. q.file = b.file /\ q.name = b.name
      BY <2>3 DEF StoreBlob, SessionInv, ObjectInv, ObjectsKeyed
    <3> QED
      BY <1>0, <1>5, <2>3, <3>1 DEF StoreBlob, InSession, Key
  <2> QED
    BY <1>0, <1>1, <2>1, <2>2, <2>3, StoreStep
<1> QED
  BY <1>3, <1>4, <1>5

-----------------------------------------------------------------------------
(* Types. *)

\* A path is remembered for each key in modified, step by step.
LEMMA PathsNext ==
  ASSUME TypeInv, FileTypeOK, CallSound, PathsTyped, NEW e \in Env, FileStep(e)
  PROVE  PathsTyped' /\ \A d \in Env : DOMAIN path'[d] = modified'[d]
<1>0. modified \in [Env -> SUBSET (Nat \X Name)]
  BY DEF TypeInv, TypeOK, EnvTypeOK
<1> DEFINE Sound == PathsTyped' /\ \A d \in Env : DOMAIN path'[d] = modified'[d]
<1>1. modified' = modified /\ path' = path => Sound
  BY DEF PathsTyped, FileTypeOK
<1>2. modified' = [modified EXCEPT ![e] = {}] /\ path' = [path EXCEPT ![e] = Nothing] => Sound
  BY <1>0 DEF PathsTyped, FileTypeOK, Nothing
<1>3. CASE LeaveBlobPath(e)
  <2> DEFINE key == Key(call[e].blob)
             old == path[e]
  <2>1. /\ modified' = [modified EXCEPT ![e] = modified[e] \cup {key}]
        /\ path' = [path EXCEPT ![e] = With(path[e], key, call[e].temp)]
        /\ call[e].temp \in Nat \X Nat
    BY <1>3 DEF LeaveBlobPath, StoreBlob, StoreBlobThrows, Remembered, Key, CallSound
  <2> HIDE DEF key
  <2>2. /\ path'[e] = With(path[e], key, call[e].temp)
        /\ \A d \in Env : d # e => path'[d] = path[d]
    BY <2>1 DEF PathsTyped
  <2>3. DOMAIN path'[e] = modified'[e]
    BY <1>0, <2>1, <2>2 DEF With, FileTypeOK
  <2>4. \A k \in DOMAIN path'[e] : path'[e][k] \in Nat \X Nat
    BY <2>1, <2>2 DEF With, PathsTyped
  <2> QED
    BY <1>0, <2>1, <2>2, <2>3, <2>4 DEF PathsTyped, FileTypeOK
<1> HIDE DEF Sound
<1>4. CASE InTables(e)
  <2>1. modified' = modified
    BY <1>4 DEF InTables, StartSession, CreateFile, GetFile, GetFileThrows, GetBlob, AddBlob,
       CloseReplaced, RemoveBlob, AddTriple, CommitPasses, CommitRejected, CommitEnd,
       CloseFile, CloseBlob, Rollback, RollbackRows, RollbackThrows, Exit, CleanSessions,
       envVars
  <2> QED
    BY <1>1, <1>4, <2>1 DEF InTables, fileVars, Sound
<1>5. ASSUME \/ BeginApply(e) \/ MoveAside(e) \/ MoveIn(e) \/ RemoveFile(e)
             \/ MarkExecuted(e) \/ ApplyThrows(e) \/ PublishFiles(e) \/ FinishFilesThrows(e)
      PROVE  Sound
  BY <1>1, <1>5 DEF BeginApply, ApplySelect, MoveAside, MoveIn, RemoveFile, MarkExecuted,
     ApplyRow, ApplyThrows, CommitThrows, PublishFiles, Publish, FinishFilesThrows,
     FinishThrows, vars, envVars
<1>6. ASSUME FinishFiles(e) \/ EndProcess(e)
      PROVE  Sound
  BY <1>2, <1>6 DEF FinishFiles, Finish, EndProcess, ExitEnd, Crash, Forgotten
<1>7. ASSUME NEW b, (\E write : EnterBlobPath(e, b, write)) \/ WriteFile(e, b)
      PROVE  Sound
  BY <1>1, <1>7 DEF EnterBlobPath, WriteFile, vars, envVars
<1> QED
  BY <1>3, <1>4, <1>5, <1>6, <1>7 DEF FileStep, Sound

\* What a directory maps to what.
DirectoryTyped(directory, names) ==
  DOMAIN directory \subseteq names /\ \A t \in DOMAIN directory : directory[t] \in Content

\* Files are added and removed.
LEMMA DirectoryWith ==
  ASSUME NEW directory, NEW names, DirectoryTyped(directory, names)
  PROVE  /\ \A t \in names, c \in Content : DirectoryTyped(With(directory, t, c), names)
         /\ \A S : DirectoryTyped(Without(directory, S), names)
BY DEF DirectoryTyped, With, Without

\* The row the loop of VFS::apply is at is one that was selected.
LEMMA NextRowSelected ==
  ASSUME TypeInv, FileTypeOK, ApplySound, NEW e \in Env, NEW op, AtRow(e, op)
  PROVE  NextRow(e) \in SelectedRow /\ NextRow(e).op = op
<1>1. todo[e] \in SUBSET Nat /\ todo[e] # {} /\ todo[e] \subseteq DOMAIN selected
  BY DEF AtRow, ApplySound, TypeInv, TypeOK, EnvTypeOK
<1>2. \E i \in todo[e] : \A k \in todo[e] : i <= k
  BY <1>1, LeastNumber
<1>3. (CHOOSE i \in todo[e] : \A k \in todo[e] : i <= k) \in todo[e]
  BY <1>2
<1> QED
  BY <1>1, <1>3 DEF AtRow, NextRow, FileTypeOK

\* Both kinds of operation put what is under their key under a free name in
\* temp, if there is anything, and remember where.
MadeRoom(m) ==
  /\ m \in MoveOperation \cup RemoveOperation
  /\ ops' = Append(ops, m)
  /\ m.aside \notin DOMAIN backup
  /\ disk' = Without(disk, {m.key})
  /\ m.key \in DOMAIN disk =>
       m.aside \in Name \X Nat /\ backup' = With(backup, m.aside, disk[m.key])
  /\ m.key \notin DOMAIN disk => backup' = backup
  /\ step' = "done" \/ (step' = "aside" /\ m \in MoveOperation)

LEMMA RoomMade ==
  ASSUME TypeInv, FileTypeOK, TempFinite, ApplySound, NEW e \in Env,
         MoveAside(e) \/ RemoveFile(e)
  PROVE  \E m : MadeRoom(m)
<1> DEFINE row == NextRow(e)
           key == row.key
           free == GetTempPath(backup, key[2])
<1>0. None \notin DOMAIN backup
  BY BackupAssumption DEF FileTypeOK
<1>1. \E op \in {"Store", "Remove"} : AtRow(e, op)
  BY DEF MoveAside, RemoveFile
<1>2. row \in SelectedRow
  BY <1>1, NextRowSelected
<1>3. key \in Nat \X Name /\ (row.op = "Store" => row.target \in Nat \X Nat)
  BY <1>2 DEF SelectedRow
<1>4. free \in Name \X Nat /\ free \notin DOMAIN backup
  BY <1>3, TempPathFree DEF TempFinite
<1>5. CASE MoveAside(e)
  <2> DEFINE aside == IF key \in DOMAIN disk THEN free ELSE None
             m == [kind |-> "Move", key |-> key, src |-> row.target, aside |-> aside]
  <2>1. row.target \in Nat \X Nat
    BY <1>3, <1>5 DEF MoveAside, AtRow
  <2>2. m \in MoveOperation
    BY <1>3, <1>4, <2>1 DEF MoveOperation
  <2>3. /\ ops' = Append(ops, m) /\ MovedAside(key, aside) /\ step' = "aside"
        /\ m.key = key /\ m.aside = aside
    BY <1>5 DEF MoveAside
  <2>4. aside \notin DOMAIN backup /\ (key \in DOMAIN disk => aside = free)
    BY <1>0, <1>4
  <2> HIDE DEF m, aside, free, key
  <2>5. MadeRoom(m)
    BY <1>4, <2>2, <2>3, <2>4 DEF MadeRoom, MovedAside
  <2> QED
    BY <2>5
<1>6. CASE RemoveFile(e)
  <2> DEFINE m == [kind |-> "Remove", key |-> key, aside |-> free]
  <2>1. m \in RemoveOperation
    BY <1>3, <1>4 DEF RemoveOperation
  <2>2. /\ ops' = Append(ops, m) /\ MovedAside(key, free) /\ step' = "done"
        /\ m.key = key /\ m.aside = free
    BY <1>6 DEF RemoveFile
  <2> HIDE DEF m, free, key
  <2>3. MadeRoom(m)
    BY <1>4, <2>1, <2>2 DEF MadeRoom, MovedAside
  <2> QED
    BY <2>3
<1> QED
  BY <1>5, <1>6

\* What VFS::apply selects is a store with its file in temp, or a removal.
LEMMA SelectedTyped ==
  ASSUME TypeInv, FileTypeOK, PathsTyped, StoresRemembered, NEW e \in Env, pc[e] = "select",
         NEW i \in Unexecuted(sid[e])
  PROVE  i \in Nat /\ SelectedRows(e)[i] \in SelectedRow
<1> DEFINE row == journal[sid[e]][i]
           b == CHOOSE b \in blob : b.id = row.relId
           target == IF row.op = "Store" THEN path[e][Key(b)] ELSE None
<1>1. sid[e] # None /\ sid[e] \in SessionId /\ journal[sid[e]] \in Seq(JournalRow)
  BY SessionIdOfInside DEF TypeInv, InsideSession, TypeOK, DatabaseTypeOK
<1>2. /\ i \in DOMAIN journal[sid[e]] /\ row.relation = "Blob" /\ row.op \in {"Store", "Remove"}
      /\ \E c \in blob : c.id = row.relId
  BY DEF Unexecuted
<1>3. i \in Nat
  BY <1>1, <1>2
<1>4. b \in blob /\ b.id = row.relId
  BY <1>2
<1>5. Key(b) \in Nat \X Name
  BY <1>4 DEF TypeInv, TypeOK, DatabaseTypeOK, BlobRow, Key
<1>6. row.op = "Store" => target \in Nat \X Nat
  <2> SUFFICES ASSUME row.op = "Store" PROVE path[e][Key(b)] \in Nat \X Nat
    OBVIOUS
  <2>1. Journaled(sid[e], "Blob", b.id, "Store")
    BY <1>2, <1>4 DEF Journaled
  <2>2. Key(b) \in modified[e]
    BY <1>1, <1>4, <2>1 DEF StoresRemembered
  <2> QED
    BY <2>2 DEF PathsTyped, FileTypeOK
<1>7. SelectedRows(e)[i] = [op |-> row.op, key |-> Key(b), target |-> target]
  BY DEF SelectedRows
<1>8. row.op # "Store" => row.op = "Remove" /\ target = None
  BY <1>2
<1> HIDE DEF row, b, target
<1> QED
  BY <1>3, <1>5, <1>6, <1>7, <1>8 DEF SelectedRow

\* FileTypeOK by induction.
LEMMA FileTypeNext ==
  ASSUME TypeInv, FileTypeOK, CallSound, TempFinite, PathsTyped, StoresRemembered, ApplySound,
         NEW e \in Env, FileStep(e)
  PROVE  FileTypeOK'
<1> DEFINE Contents == /\ DirectoryTyped(disk, Nat \X Name)
                       /\ DirectoryTyped(temp, Nat \X Nat)
                       /\ DirectoryTyped(backup, Name \X Nat)
           Rows == /\ DOMAIN selected \subseteq Nat
                   /\ \A i \in DOMAIN selected : selected[i] \in SelectedRow
           Operations == /\ ops \in Seq(MoveOperation \cup RemoveOperation)
                         /\ step \in {"begin", "aside", "done"}
<1>0. /\ Contents /\ Rows /\ Operations
      /\ Nothing = [x \in {} |-> None] /\ << >> \in Seq(MoveOperation \cup RemoveOperation)
      /\ None \in Content
  BY DEF FileTypeOK, DirectoryTyped, Nothing, Content
<1> SUFFICES Contents' /\ Rows' /\ Operations'
  BY PathsNext DEF FileTypeOK, DirectoryTyped
<1>1. UNCHANGED <<disk, temp, backup>> => Contents'
  BY <1>0
<1>2. CASE MoveAside(e) \/ RemoveFile(e)
  <2>1. PICK m : MadeRoom(m)
    BY <1>2, RoomMade
  <2>2. UNCHANGED <<temp, selected>>
    BY <1>2 DEF MoveAside, RemoveFile
  <2>3. m.key \in DOMAIN disk => disk[m.key] \in Content
    BY <1>0 DEF DirectoryTyped
  <2>4. Contents'
    <3>1. DirectoryTyped(disk', Nat \X Name)
      <4>1. disk' = Without(disk, {m.key})
        BY <2>1 DEF MadeRoom
      <4>2. DirectoryTyped(Without(disk, {m.key}), Nat \X Name)
        BY <1>0, DirectoryWith
      <4> QED
        BY <4>1, <4>2
    <3>2. DirectoryTyped(backup', Name \X Nat)
      <4>1. CASE m.key \in DOMAIN disk
        <5>1. m.aside \in Name \X Nat /\ backup' = With(backup, m.aside, disk[m.key])
          BY <2>1, <4>1 DEF MadeRoom
        <5>2. DirectoryTyped(With(backup, m.aside, disk[m.key]), Name \X Nat)
          BY <1>0, <2>3, <4>1, <5>1, DirectoryWith
        <5> QED
          BY <5>1, <5>2
      <4>2. CASE m.key \notin DOMAIN disk
        BY <1>0, <2>1, <4>2 DEF MadeRoom
      <4> QED
        BY <4>1, <4>2
    <3> QED
      BY <1>0, <2>2, <3>1, <3>2
  <2>5. Operations'
    BY <1>0, <2>1 DEF MadeRoom
  <2> QED
    BY <1>0, <2>2, <2>4, <2>5
<1>3. CASE MoveIn(e)
  <2>1. Last(ops).key \in Nat \X Name
    BY <1>3 DEF MoveIn, ApplySound, MoveOperation
  <2>2. temp[Last(ops).src] \in Content
    BY <1>0, <1>3 DEF MoveIn, DirectoryTyped
  <2> QED
    BY <1>0, <1>3, <2>1, <2>2, DirectoryWith DEF MoveIn
<1>4. CASE BeginApply(e)
  <2>1. pc[e] = "select" /\ UNCHANGED <<disk, temp, backup>> /\ step' = "begin" /\ ops' = << >>
    BY <1>4 DEF BeginApply, ApplySelect
  <2>2. DOMAIN SelectedRows(e) = Unexecuted(sid[e])
    BY DEF SelectedRows
  <2>3. Rows'
    BY <1>4, <2>1, <2>2, SelectedTyped DEF BeginApply
  <2> QED
    BY <1>0, <1>1, <2>1, <2>3
<1>5. CASE LeaveBlobPath(e)
  <2>1. call[e].temp \in Nat \X Nat
    BY <1>5 DEF LeaveBlobPath, CallSound
  <2>2. \A k \in DOMAIN disk : disk[k] \in Content
    BY <1>0 DEF DirectoryTyped
  <2>3. DirectoryTyped(Copied(call[e]), Nat \X Nat)
    BY <1>0, <2>1, <2>2, DirectoryWith DEF Copied
  <2> QED
    BY <1>0, <1>5, <2>3 DEF LeaveBlobPath, duringCommit
<1>6. ASSUME NEW b \in blobs[e], WriteFile(e, b)
      PROVE  Contents' /\ Rows' /\ Operations'
  <2>1. path[e][Key(b)] \in Nat \X Nat
    BY <1>6 DEF WriteFile, PathsTyped, FileTypeOK
  <2>2. sid[e] \in Nat
    BY <1>6, SessionIdOfInside, BoundAssumption DEF WriteFile, SessionId
  <2>3. WrittenBy(sid[e]) \in Content
    BY <2>2 DEF WrittenBy, Content
  <2> QED
    BY <1>0, <1>6, <2>1, <2>3, DirectoryWith DEF WriteFile, duringCommit
<1>7. CASE FinishFiles(e) \/ FinishFilesThrows(e)
  <2>1. /\ \E S : backup' = Without(backup, S)
        /\ ops' = << >> /\ UNCHANGED <<disk, temp, step, selected>>
    BY <1>7 DEF FinishFiles, FinishFilesThrows, Finished
  <2> QED
    BY <1>0, <2>1, DirectoryWith
<1>8. CASE ApplyThrows(e) \/ PublishFiles(e)
  <2>1. /\ UNCHANGED <<disk, temp, backup>> /\ selected' = Nothing
        /\ \/ ops' = << >> /\ step' = "begin"
           \/ UNCHANGED <<ops, step>>
    BY <1>8 DEF ApplyThrows, PublishFiles
  <2> QED
    BY <1>0, <1>1, <2>1
<1>9. CASE InTables(e) \/ MarkExecuted(e) \/ EndProcess(e)
           \/ \E b \in blobs[e], write \in BOOLEAN : EnterBlobPath(e, b, write)
  <2>1. UNCHANGED <<disk, temp, backup, ops, selected>> /\ step' \in {step, "begin"}
    BY <1>9 DEF InTables, fileVars, MarkExecuted, EndProcess, EnterBlobPath, duringCommit
  <2> QED
    BY <1>0, <1>1, <2>1
<1> QED
  BY <1>2, <1>3, <1>4, <1>5, <1>6, <1>7, <1>8, <1>9 DEF FileStep

-----------------------------------------------------------------------------
(* One commit at a time. *)

\* Where another process is in the loop of VFS::apply or about to finish, this
\* one is not in a commit.
LEMMA OnlyCommitter ==
  ASSUME TypeInv, LockInv, CallSound, NEW e \in Env, FileStep(e),
         pc[e] \in {"select", "apply", "finish"}, NEW d \in Env, d # e
  PROVE  pc'[d] \notin {"apply", "finish"}
<1>1. pc[d] \notin {"apply", "finish"}
  BY DEF LockInv, LockHeld
<1>2. pc'[d] = pc[d]
  BY FileStepIsStep, OthersKept DEF OwnVariablesKept, vars, envVars
<1> QED
  BY <1>1, <1>2

\* Steps outside of a commit do not lead into one, and leave the directory blobs
\* and what belongs to the commit of another process.
LEMMA OutsideCommits ==
  ASSUME TypeInv, NEW e \in Env,
         \/ InTables(e) \/ LeaveBlobPath(e) \/ EndProcess(e)
         \/ \E b \in blobs[e], write \in BOOLEAN : EnterBlobPath(e, b, write)
         \/ \E b \in blobs[e] : WriteFile(e, b)
  PROVE  /\ pc'[e] \notin {"apply", "finish"}
         /\ UNCHANGED <<disk, backup, duringCommit>>
<1>0. pc \in [Env -> Places]
  BY DEF TypeInv, TypeOK, EnvTypeOK
<1> USE DEF Goto, InSession
<1>1. CASE InTables(e)
  BY <1>0, <1>1 DEF InTables, StartSession, CreateFile, GetFile, GetFileThrows, GetBlob,
     AddBlob, CloseReplaced, RemoveBlob, AddTriple, CommitPasses, CommitRejected, CommitEnd,
     CloseFile, CloseBlob, Clearing, Rollback, RollbackRows, RollbackThrows, Exit,
     CleanSessions, envVars, fileVars
<1>2. CASE LeaveBlobPath(e)
  BY <1>0, <1>2 DEF LeaveBlobPath, StoreBlob, StoreBlobThrows
<1>3. CASE EndProcess(e)
  BY <1>0, <1>3 DEF EndProcess, ExitEnd, Crash
<1>4. ASSUME NEW b, (\E write : EnterBlobPath(e, b, write)) \/ WriteFile(e, b)
      PROVE  pc'[e] \notin {"apply", "finish"} /\ UNCHANGED <<disk, backup, duringCommit>>
  BY <1>4 DEF EnterBlobPath, WriteFile, vars, envVars
<1> QED
  BY <1>1, <1>2, <1>3, <1>4

\* The steps of a commit that move files or end it.
CommitStep(e) ==
  \/ BeginApply(e) \/ MoveAside(e) \/ MoveIn(e) \/ RemoveFile(e) \/ MarkExecuted(e)
  \/ ApplyThrows(e)
  \/ PublishFiles(e) \/ FinishFiles(e) \/ FinishFilesThrows(e)

\* A step is one of a commit, or leaves everything that commits care for.
LEMMA TwoKinds ==
  ASSUME TypeInv, NEW e \in Env, FileStep(e)
  PROVE  \/ CommitStep(e) /\ pc[e] \in {"select", "apply", "finish"}
         \/ /\ pc'[e] \notin {"apply", "finish"}
            /\ UNCHANGED <<disk, backup, duringCommit>>
<1>1. CommitStep(e) => pc[e] \in {"select", "apply", "finish"}
  BY DEF CommitStep, BeginApply, ApplySelect, MoveAside, AtRow, MoveIn, RemoveFile,
     MarkExecuted, ApplyRow, ApplyThrows, CommitThrows, PublishFiles, Publish, FinishFiles,
     Finish, FinishFilesThrows, FinishThrows
<1>2. \/ CommitStep(e)
      \/ InTables(e) \/ LeaveBlobPath(e) \/ EndProcess(e)
      \/ \E b \in blobs[e], write \in BOOLEAN : EnterBlobPath(e, b, write)
      \/ \E b \in blobs[e] : WriteFile(e, b)
  BY DEF FileStep, CommitStep
<1> QED
  BY <1>1, <1>2, OutsideCommits

\* ApplySound by induction.
LEMMA ApplySoundNext ==
  ASSUME TypeInv, LockInv, FileTypeOK, CallSound, TempFinite, ApplySound,
         NEW e \in Env, FileStep(e)
  PROVE  ApplySound'
<1>0. /\ pc \in [Env -> Places] /\ todo \in [Env -> SUBSET Nat]
      /\ ops \in Seq(MoveOperation \cup RemoveOperation)
  BY DEF TypeInv, TypeOK, EnvTypeOK, FileTypeOK
<1> DEFINE Sound(d) ==
             pc[d] = "apply" =>
               /\ todo[d] \subseteq DOMAIN selected
               /\ step = "aside" => /\ ops # << >> /\ Last(ops) \in MoveOperation
                                    /\ Last(ops).key \notin DOMAIN disk
<1> SUFFICES ASSUME NEW d \in Env PROVE Sound(d)'
  BY DEF ApplySound
<1>1. Sound(d)
  BY DEF ApplySound
<1>2. CASE /\ pc'[e] \notin {"apply", "finish"}
           /\ UNCHANGED <<disk, backup, duringCommit>>
  <2>1. d # e => pc'[d] = pc[d] /\ todo'[d] = todo[d]
    BY FileStepIsStep, OthersKept DEF OwnVariablesKept, vars, envVars
  <2> QED
    BY <1>1, <1>2, <2>1 DEF duringCommit
<1>3. CASE pc[e] \in {"select", "apply", "finish"} /\ d # e
  BY <1>3, OnlyCommitter
<1>4. CASE d = e /\ BeginApply(e)
  <2>1. todo'[e] = Unexecuted(sid[e]) /\ DOMAIN selected' = Unexecuted(sid[e])
    BY <1>0, <1>4 DEF BeginApply, ApplySelect, SelectedRows
  <2> QED
    BY <1>4, <2>1 DEF BeginApply
<1>5. CASE d = e /\ (MoveAside(e) \/ RemoveFile(e))
  <2>1. PICK m : MadeRoom(m)
    BY <1>5, RoomMade
  <2>2. pc[e] = "apply" /\ UNCHANGED <<pc, todo, selected>>
    BY <1>5 DEF MoveAside, RemoveFile, AtRow, vars, envVars
  <2>3. ops' # << >> /\ Last(ops') = m
    BY <1>0, <2>1, AppendProperties DEF MadeRoom, Last
  <2>4. m.key \notin DOMAIN disk'
    BY <2>1 DEF MadeRoom, Without
  <2> QED
    BY <1>1, <1>5, <2>1, <2>2, <2>3, <2>4 DEF MadeRoom
<1>6. CASE d = e /\ MoveIn(e)
  BY <1>1, <1>6 DEF MoveIn, vars, envVars
<1>7. CASE d = e /\ MarkExecuted(e)
  BY <1>0, <1>1, <1>7 DEF MarkExecuted, ApplyRow
<1>8. CASE d = e /\ (ApplyThrows(e) \/ PublishFiles(e) \/ FinishFiles(e) \/ FinishFilesThrows(e))
  BY <1>0, <1>8 DEF ApplyThrows, CommitThrows, PublishFiles, Publish, FinishFiles, Finish,
     FinishFilesThrows, FinishThrows, Goto
<1>9. CASE CommitStep(e) /\ d = e
  BY <1>4, <1>5, <1>6, <1>7, <1>8, <1>9 DEF CommitStep
<1> QED
  BY <1>2, <1>3, <1>9, TwoKinds

-----------------------------------------------------------------------------
(* No content is lost. *)

Kept(k) ==
  \/ k \in DOMAIN disk /\ disk[k] = stored[k]
  \/ \E t \in DOMAIN backup : backup[t] = stored[k]

\* Moving something aside keeps it, and what is under other keys stays safe.
LEMMA MadeRoomKeeps ==
  ASSUME FileTypeOK, NEW m, MadeRoom(m), stored' = stored, NEW k, Kept(k)
  PROVE  /\ Kept(k)'
         /\ Safe(k) \/ Touched(k) => Safe(k)' \/ Touched(k)'
<1>1. /\ ops \in Seq(MoveOperation \cup RemoveOperation)
      /\ m \in MoveOperation \cup RemoveOperation /\ ops' = Append(ops, m)
  BY DEF FileTypeOK, MadeRoom
<1>2. /\ DOMAIN ops = 1 .. Len(ops) /\ DOMAIN ops' = 1 .. Len(ops) + 1 /\ Len(ops) \in Nat
      /\ \A i \in DOMAIN ops : i \in DOMAIN ops' /\ ops'[i] = ops[i]
      /\ Len(ops) + 1 \in DOMAIN ops' /\ ops'[Len(ops) + 1] = m
  BY <1>1, AppendProperties
<1>3. \A t \in DOMAIN backup : t # m.aside /\ t \in DOMAIN backup' /\ backup'[t] = backup[t]
  BY DEF MadeRoom, With
<1>4. k # m.key /\ k \in DOMAIN disk => k \in DOMAIN disk' /\ disk'[k] = disk[k]
  BY DEF MadeRoom, Without
<1>5. Kept(k)'
  <2>1. CASE \E t \in DOMAIN backup : backup[t] = stored[k]
    BY <1>3, <2>1 DEF Kept
  <2>2. CASE k \in DOMAIN disk /\ disk[k] = stored[k] /\ k # m.key
    BY <1>4, <2>2 DEF Kept
  <2>3. CASE k \in DOMAIN disk /\ disk[k] = stored[k] /\ k = m.key
    <3>1. backup' = With(backup, m.aside, disk[k])
      BY <2>3 DEF MadeRoom
    <3>2. m.aside \in DOMAIN backup' /\ backup'[m.aside] = disk[k]
      BY <3>1 DEF With
    <3> QED
      BY <2>3, <3>2 DEF Kept
  <2> QED
    BY <2>1, <2>2, <2>3 DEF Kept
<1>6. ASSUME Touched(k)
      PROVE  Touched(k)'
  BY <1>2, <1>6 DEF Touched
<1>7. ASSUME Safe(k)
      PROVE  Safe(k)' \/ Touched(k)'
  <2>1. CASE k = m.key
    BY <1>2, <2>1 DEF Touched
  <2>2. CASE k # m.key /\ k \in DOMAIN disk /\ disk[k] = stored[k]
    BY <1>4, <2>2 DEF Safe
  <2>3. ASSUME NEW t \in DOMAIN backup \ Asides, backup[t] = stored[k]
        PROVE  Safe(k)'
    <3>1. t \notin Asides'
      BY <1>2, <1>3, <2>3 DEF Asides
    <3> QED
      BY <1>3, <2>3, <3>1 DEF Safe
  <2> QED
    BY <1>7, <2>1, <2>2, <2>3 DEF Safe
<1> QED
  BY <1>5, <1>6, <1>7

\* So does the second rename of a store: its key was free.
LEMMA MoveInKeeps ==
  ASSUME FileTypeOK, ApplySound, NEW e \in Env, MoveIn(e), NEW k, Kept(k)
  PROVE  /\ Kept(k)'
         /\ Safe(k) \/ Touched(k) => Safe(k)' \/ Touched(k)'
<1> DEFINE m == Last(ops)
<1>1. m.key \notin DOMAIN disk /\ ops # << >>
  BY DEF MoveIn, ApplySound
<1>2. disk' = With(disk, m.key, temp[m.src]) /\ UNCHANGED <<backup, ops, stored>>
  BY DEF MoveIn
<1>3. k \in DOMAIN disk => k \in DOMAIN disk' /\ disk'[k] = disk[k]
  <2> HIDE DEF m
  <2> QED
    BY <1>1, <1>2 DEF With
<1> QED
  BY <1>2, <1>3 DEF Kept, Safe, Touched, Asides

\* Where the journal has been executed, what is below "blobs" counts.
LEMMA PublishKeeps ==
  ASSUME NEW e \in Env, PublishFiles(e), NEW k \in DOMAIN stored',
         k \in DOMAIN stored => Safe(k) \/ Touched(k)
  PROVE  Safe(k)'
<1>1. /\ DOMAIN stored' = (DOMAIN stored \ ChangedKeys(e)) \cup (DOMAIN disk \cap ChangedKeys(e))
      /\ stored'[k] = IF k \in ChangedKeys(e) THEN disk[k] ELSE stored[k]
      /\ UNCHANGED <<disk, backup, ops>>
  BY DEF PublishFiles
<1>2. CASE k \in ChangedKeys(e)
  BY <1>1, <1>2 DEF Safe
<1>3. CASE k \notin ChangedKeys(e)
  <2>1. ~Touched(k)
    BY <1>3 DEF ChangedKeys, Touched
  <2> QED
    BY <1>1, <1>3, <2>1 DEF Safe, Asides
<1> QED
  BY <1>2, <1>3

\* What is deleted at the end is nothing else.
LEMMA FinishKeeps ==
  ASSUME FileTypeOK, NEW n \in 0 .. Len(ops), Finished(n), UNCHANGED <<disk, stored>>, NEW k, Safe(k)
  PROVE  Kept(k)'
<1>1. CASE k \in DOMAIN disk /\ disk[k] = stored[k]
  BY <1>1 DEF Kept
<1>2. ASSUME NEW t \in DOMAIN backup \ Asides, backup[t] = stored[k]
      PROVE  Kept(k)'
  <2> DEFINE S == { ops[i].aside : i \in 1 .. n }
  <2>1. t \notin S
    BY DEF FileTypeOK, Asides
  <2>2. backup' = Without(backup, S)
    BY DEF Finished
  <2> HIDE DEF S
  <2>3. t \in DOMAIN backup' /\ backup'[t] = backup[t]
    BY <2>1, <2>2 DEF Without
  <2> QED
    BY <1>2, <2>3 DEF Kept
<1> QED
  BY <1>1, <1>2 DEF Safe

\* ContentKept and ReplacedOnly by induction.
LEMMA KeptNext ==
  ASSUME TypeInv, LockInv, FileTypeOK, CallSound, TempFinite, ApplySound,
         ContentKept, ReplacedOnly, NEW e \in Env, FileStep(e)
  PROVE  ContentKept' /\ ReplacedOnly'
<1> DEFINE SafeOf(d) == pc[d] \in {"apply", "finish"} => \A k \in DOMAIN stored :
                          Safe(k) \/ (pc[d] = "apply" /\ Touched(k))
           KeptAll == \A k \in DOMAIN stored : Kept(k)
<1> SUFFICES KeptAll' /\ \A d \in Env : SafeOf(d)'
  BY DEF ContentKept, ReplacedOnly, Kept
<1>0. /\ KeptAll /\ \A d \in Env : SafeOf(d)
      /\ pc \in [Env -> Places]
  BY DEF ContentKept, ReplacedOnly, Kept, TypeInv, TypeOK, EnvTypeOK
<1>1. CASE /\ pc'[e] \notin {"apply", "finish"}
           /\ UNCHANGED <<disk, backup, duringCommit>>
  <2>1. \A d \in Env : d # e => pc'[d] = pc[d]
    BY FileStepIsStep, OthersKept DEF OwnVariablesKept, vars, envVars
  <2> QED
    BY <1>0, <1>1, <2>1 DEF Kept, Safe, Touched, Asides, duringCommit
<1>2. CASE pc[e] \in {"select", "apply", "finish"} /\ CommitStep(e)
  <2> SUFFICES KeptAll' /\ SafeOf(e)'
    BY <1>2, OnlyCommitter
  <2>1. CASE BeginApply(e)
    <3>1. ops' = << >> /\ UNCHANGED <<disk, backup, stored>>
      BY <2>1 DEF BeginApply
    <3>2. Asides' = {}
      BY <3>1 DEF Asides
    <3> QED
      BY <1>0, <3>1, <3>2 DEF Kept, Safe
  <2>2. ASSUME UNCHANGED stored, pc[e] = "apply", UNCHANGED pc,
               \A k : Kept(k) => Kept(k)' /\ (Safe(k) \/ Touched(k) => Safe(k)' \/ Touched(k)')
        PROVE  KeptAll' /\ SafeOf(e)'
    BY <1>0, <2>2
  <2>3. CASE MoveAside(e) \/ RemoveFile(e)
    <3>1. PICK m : MadeRoom(m)
      BY <2>3, RoomMade
    <3>2. UNCHANGED <<stored, pc>> /\ pc[e] = "apply"
      BY <2>3 DEF MoveAside, RemoveFile, AtRow, vars, envVars
    <3> QED
      BY <2>2, <3>1, <3>2, MadeRoomKeeps
  <2>4. CASE MoveIn(e)
    <3>1. UNCHANGED <<stored, pc>> /\ pc[e] = "apply"
      BY <2>4 DEF MoveIn, vars, envVars
    <3> QED
      BY <2>2, <2>4, <3>1, MoveInKeeps
  <2>5. CASE MarkExecuted(e)
    <3>1. UNCHANGED <<disk, backup, ops, stored, pc>> /\ pc[e] = "apply"
      BY <2>5 DEF MarkExecuted, ApplyRow
    <3> QED
      BY <2>2, <3>1 DEF Kept, Safe, Touched, Asides
  <2>6. CASE ApplyThrows(e)
    <3>1. UNCHANGED <<disk, backup, stored>> /\ pc'[e] = "idle"
      BY <1>0, <2>6 DEF ApplyThrows, CommitThrows, Goto
    <3> QED
      BY <1>0, <3>1 DEF Kept
  <2>7. CASE PublishFiles(e)
    <3>1. pc[e] = "apply"
      BY <2>7 DEF PublishFiles, Publish
    <3>2. \A k \in DOMAIN stored' : Safe(k)'
      BY <1>0, <2>7, <3>1, PublishKeeps
    <3> QED
      BY <3>2 DEF Safe, Kept
  <2>8. CASE FinishFiles(e) \/ FinishFilesThrows(e)
    <3>1. Len(ops) \in Nat
      BY DEF FileTypeOK
    <3>2. PICK n \in 0 .. Len(ops) : Finished(n)
      BY <2>8, <3>1 DEF FinishFiles, FinishFilesThrows
    <3>3. /\ UNCHANGED <<disk, stored>> /\ pc[e] = "finish"
          /\ pc'[e] \notin {"apply", "finish"}
      BY <1>0, <2>8 DEF FinishFiles, FinishFilesThrows, Finish, FinishThrows, Goto
    <3>4. \A k \in DOMAIN stored : Kept(k)'
      BY <1>0, <3>2, <3>3, FinishKeeps
    <3> QED
      BY <3>3, <3>4
  <2> QED
    BY <1>2, <2>1, <2>3, <2>4, <2>5, <2>6, <2>7, <2>8 DEF CommitStep
<1> QED
  BY <1>1, <1>2, TwoKinds

-----------------------------------------------------------------------------
(* Undoing a commit. *)

\* Undone, step by step: f[n] is where undoing the newest n operations leads to.
IsUndo(f, s, dirs) ==
  f = [n \in 0 .. Len(s) |->
         IF n = 0 THEN dirs ELSE Unapply(s[Len(s) - n + 1], f[n - 1])]

\* What holds at first and passes on from one number to the next holds for all.
LEMMA PassesOn ==
  ASSUME NEW T \in SUBSET Nat, 0 \in T, \A n \in T : n + 1 \in T
  PROVE  T = Nat
<1> SUFFICES ASSUME Nat \ T # {} PROVE FALSE
  OBVIOUS
<1>1. PICK x \in Nat \ T : \A y \in Nat \ T : x <= y
  <2>1. Nat \ T \in SUBSET Nat
    OBVIOUS
  <2> QED
    BY <2>1, LeastNumber
<1>2. x # 0 /\ x - 1 \in Nat /\ (x - 1) + 1 = x
  BY <1>1
<1>3. x - 1 \in T
  BY <1>1, <1>2
<1> QED
  BY <1>1, <1>2, <1>3

\* There is such a function.
LEMMA UndoExists ==
  ASSUME NEW s, Len(s) \in Nat, NEW dirs
  PROVE  \E f : IsUndo(f, s, dirs)
<1> DEFINE Undo(n, d) == Unapply(s[Len(s) - n + 1], d)
           UpTo(g, k) == g = [n \in 0 .. k |-> IF n = 0 THEN dirs ELSE Undo(n, g[n - 1])]
           T == { k \in Nat : \E g : UpTo(g, k) }
<1> HIDE DEF Undo
<1>1. 0 \in T
  <2> DEFINE g == [n \in 0 .. 0 |-> dirs]
  <2>1. DOMAIN g = 0 .. 0 /\ \A n \in 0 .. 0 : n = 0 /\ g[n] = dirs
    OBVIOUS
  <2>2. UpTo(g, 0)
    OBVIOUS
  <2> QED
    BY <2>2
<1>2. ASSUME NEW k \in T
      PROVE  k + 1 \in T
  <2>0. k \in Nat
    OBVIOUS
  <2>1. PICK g : UpTo(g, k)
    OBVIOUS
  <2> DEFINE last == Undo(k + 1, g[k])
             h == [n \in 0 .. k + 1 |-> IF n = k + 1 THEN last ELSE g[n]]
  <2> HIDE DEF last
  <2>2. DOMAIN h = 0 .. k + 1 /\ h[k + 1] = last /\ \A n \in 0 .. k : h[n] = g[n]
    BY <2>0
  <2>3. h = [n \in 0 .. k + 1 |-> h[n]]
    OBVIOUS
  <2> HIDE DEF h
  <2>4. \A n \in 0 .. k : g[n] = IF n = 0 THEN dirs ELSE Undo(n, g[n - 1])
    BY <2>1
  <2>5. ASSUME NEW n \in 0 .. k + 1
        PROVE  h[n] = IF n = 0 THEN dirs ELSE Undo(n, h[n - 1])
    <3>1. CASE n = k + 1
      <4>1. n # 0 /\ n - 1 = k /\ k \in 0 .. k
        BY <2>0, <3>1
      <4>2. h[n - 1] = g[k]
        BY <2>2, <4>1
      <4> QED
        BY <2>2, <3>1, <4>1, <4>2 DEF last
    <3>2. CASE n = 0
      BY <2>0, <2>2, <2>4, <3>2
    <3>3. CASE n \in 1 .. k
      <4>1. n - 1 \in 0 .. k /\ n \in 0 .. k /\ n # 0
        BY <2>0, <3>3
      <4> QED
        BY <2>2, <2>4, <4>1
    <3> QED
      BY <2>0, <3>1, <3>2, <3>3
  <2>6. UpTo(h, k + 1)
    BY <2>3, <2>5
  <2> HIDE DEF UpTo
  <2> QED
    BY <2>0, <2>6
<1>3. T = Nat
  BY <1>1, <1>2, PassesOn
<1>4. PICK f : UpTo(f, Len(s))
  BY <1>3
<1> QED
  BY <1>4 DEF IsUndo, Undo

\* And Undone is its last value.
LEMMA UndoneIs ==
  ASSUME FileTypeOK
  PROVE  \E f : /\ IsUndo(f, ops, [disk |-> disk, backup |-> backup])
                /\ Undone = f[Len(ops)]
<1> DEFINE now == [disk |-> disk, backup |-> backup]
           u == CHOOSE f : IsUndo(f, ops, now)
<1>1. Len(ops) \in Nat
  BY DEF FileTypeOK
<1>2. IsUndo(u, ops, now)
  BY <1>1, UndoExists
<1>3. Undone = u[Len(ops)]
  BY DEF Undone, IsUndo
<1> QED
  BY <1>2, <1>3

\* An operation more that is undone to where it was made from changes nothing.
LEMMA UndoOneMore ==
  ASSUME NEW S, NEW s \in Seq(S), NEW m \in S, NEW dirs, NEW after, Unapply(m, after) = dirs,
         NEW f, IsUndo(f, s, dirs), NEW g, IsUndo(g, Append(s, m), after)
  PROVE  g[Len(s) + 1] = f[Len(s)]
<1> DEFINE k == Len(s)
           t == Append(s, m)
<1>1. /\ k \in Nat /\ Len(t) = k + 1 /\ t[k + 1] = m
      /\ \A i \in 1 .. k : t[i] = s[i]
  BY AppendProperties
<1> HIDE DEF t, k
<1>2. \A n \in 0 .. k : f[n] = IF n = 0 THEN dirs ELSE Unapply(s[k - n + 1], f[n - 1])
  BY DEF IsUndo, k
<1>3. \A n \in 0 .. k + 1 :
        g[n] = IF n = 0 THEN after ELSE Unapply(t[(k + 1) - n + 1], g[n - 1])
  <2>1. g = [n \in 0 .. Len(t) |->
               IF n = 0 THEN after ELSE Unapply(t[Len(t) - n + 1], g[n - 1])]
    BY DEF IsUndo, t
  <2> QED
    BY <1>1, <2>1
<1> DEFINE T == { n \in Nat : n <= k => g[n + 1] = f[n] }
<1>4. 0 \in T
  <2>1. 0 \in 0 .. k /\ 0 + 1 \in 0 .. k + 1 /\ 0 + 1 # 0
        /\ (k + 1) - (0 + 1) + 1 = k + 1 /\ (0 + 1) - 1 = 0 /\ 0 \in 0 .. k + 1
    BY <1>1
  <2>2. g[0 + 1] = Unapply(m, g[0]) /\ g[0] = after /\ f[0] = dirs
    BY <1>1, <1>2, <1>3, <2>1
  <2> QED
    BY <2>2
<1>5. ASSUME NEW n \in T
      PROVE  n + 1 \in T
  <2>1. CASE n + 1 <= k
    <3>1. /\ n \in Nat /\ n + 1 \in 0 .. k /\ n + 1 # 0 /\ (n + 1) - 1 = n
          /\ (n + 1) + 1 \in 0 .. k + 1 /\ (n + 1) + 1 # 0 /\ ((n + 1) + 1) - 1 = n + 1
          /\ (k + 1) - ((n + 1) + 1) + 1 = k - (n + 1) + 1
          /\ k - (n + 1) + 1 \in 1 .. k
      BY <1>1, <2>1
    <3>2. g[(n + 1) + 1] = Unapply(t[k - (n + 1) + 1], g[n + 1])
      BY <1>3, <3>1
    <3>3. f[n + 1] = Unapply(s[k - (n + 1) + 1], f[n])
      BY <1>2, <3>1
    <3>4. g[n + 1] = f[n]
      BY <1>1, <2>1
    <3> QED
      BY <1>1, <3>1, <3>2, <3>3, <3>4
  <2> QED
    BY <2>1
<1>6. T = Nat
  <2> HIDE DEF T
  <2>1. T \in SUBSET Nat
    BY DEF T
  <2> QED
    BY <1>4, <1>5, <2>1, PassesOn
<1>7. k \in T /\ k <= k
  BY <1>1, <1>6
<1> QED
  BY <1>7 DEF k

\* Nor does what the newest operation is undone from in either case.
LEMMA UndoSame ==
  ASSUME NEW s, Len(s) \in Nat \ {0}, NEW dirs, NEW after,
         Unapply(s[Len(s)], after) = Unapply(s[Len(s)], dirs),
         NEW f, IsUndo(f, s, dirs), NEW g, IsUndo(g, s, after)
  PROVE  g[Len(s)] = f[Len(s)]
<1> DEFINE k == Len(s)
<1>1. k \in Nat /\ k >= 1
  OBVIOUS
<1> HIDE DEF k
<1>2. \A n \in 0 .. k : f[n] = IF n = 0 THEN dirs ELSE Unapply(s[k - n + 1], f[n - 1])
  BY DEF IsUndo, k
<1>3. \A n \in 0 .. k : g[n] = IF n = 0 THEN after ELSE Unapply(s[k - n + 1], g[n - 1])
  BY DEF IsUndo, k
<1> DEFINE T == { n \in Nat : n + 1 <= k => g[n + 1] = f[n + 1] }
<1>4. 0 \in T
  <2>1. /\ 0 \in 0 .. k /\ 0 + 1 \in 0 .. k /\ 0 + 1 # 0 /\ (0 + 1) - 1 = 0
        /\ k - (0 + 1) + 1 = k
    BY <1>1
  <2>2. /\ g[0 + 1] = Unapply(s[k], g[0]) /\ g[0] = after
        /\ f[0 + 1] = Unapply(s[k], f[0]) /\ f[0] = dirs
    BY <1>2, <1>3, <2>1
  <2> QED
    BY <2>2 DEF k
<1>5. ASSUME NEW n \in T
      PROVE  n + 1 \in T
  <2>1. CASE (n + 1) + 1 <= k
    <3>1. /\ n \in Nat /\ n + 1 <= k
          /\ (n + 1) + 1 \in 0 .. k /\ (n + 1) + 1 # 0 /\ ((n + 1) + 1) - 1 = n + 1
      BY <1>1, <2>1
    <3> QED
      BY <1>2, <1>3, <3>1
  <2> QED
    BY <2>1
<1>6. T = Nat
  <2> HIDE DEF T
  <2>1. T \in SUBSET Nat
    BY DEF T
  <2> QED
    BY <1>4, <1>5, <2>1, PassesOn
<1>7. k - 1 \in Nat /\ (k - 1) + 1 = k /\ k <= k
  BY <1>1
<1>8. k - 1 \in T
  BY <1>6, <1>7
<1>9. g[(k - 1) + 1] = f[(k - 1) + 1]
  BY <1>7, <1>8
<1> QED
  <2>1. g[k] = f[k]
    BY <1>7, <1>9
  <2> QED
    BY <2>1 DEF k

\* Undoing an operation that has only made room leads back to where it was made.
LEMMA MadeRoomUndone ==
  ASSUME Directories, NEW m, MadeRoom(m)
  PROVE  Unapply(m, [disk |-> disk', backup |-> backup']) = [disk |-> disk, backup |-> backup]
<1> DEFINE after == [disk |-> disk', backup |-> backup']
<1>1. after.disk = disk' /\ after.backup = backup'
  OBVIOUS
<1>2. /\ disk = [z \in DOMAIN disk |-> disk[z]] /\ backup = [z \in DOMAIN backup |-> backup[z]]
      /\ disk' = Without(disk, {m.key}) /\ m.aside \notin DOMAIN backup
  BY DEF Directories, MadeRoom
<1>3. CASE m.key \in DOMAIN disk
  <2>1. backup' = With(backup, m.aside, disk[m.key])
    BY <1>3 DEF MadeRoom
  <2>2. m.aside \in DOMAIN backup' /\ backup'[m.aside] = disk[m.key]
    BY <2>1 DEF With
  <2>3. Without(backup', {m.aside}) = backup
    BY <1>2, <2>1 DEF With, Without
  <2>4. With(disk', m.key, disk[m.key]) = disk
    BY <1>2, <1>3 DEF With, Without
  <2> HIDE DEF after
  <2> QED
    BY <1>1, <2>2, <2>3, <2>4 DEF Unapply, after
<1>4. CASE m.key \notin DOMAIN disk
  <2>1. backup' = backup /\ disk' = disk /\ Without(disk', {m.key}) = disk
    <3>1. backup' = backup
      BY <1>4 DEF MadeRoom
    <3>2. DOMAIN disk \ {m.key} = DOMAIN disk
      BY <1>4
    <3>3. Without(disk, {m.key}) = disk
      BY <1>2, <3>2 DEF Without
    <3> QED
      BY <1>2, <3>1, <3>3
  <2>2. m.aside \notin DOMAIN after.backup
    BY <1>1, <1>2, <2>1
  <2>3. Unapply(m, after) = IF m.kind = "Move"
                            THEN [after EXCEPT !.disk = Without(@, {m.key})] ELSE after
    BY <2>2 DEF Unapply
  <2> QED
    BY <2>1, <2>3
<1> QED
  BY <1>3, <1>4

\* The second rename of a store puts something under its key only, which is
\* what undoing the store takes away again, whatever it is.
LEMMA MoveInUndone ==
  ASSUME Directories, ApplySound, NEW e \in Env, MoveIn(e)
  PROVE  Unapply(Last(ops), [disk |-> disk', backup |-> backup'])
           = Unapply(Last(ops), [disk |-> disk, backup |-> backup])
<1> DEFINE m == Last(ops)
           old == [disk |-> disk, backup |-> backup]
           new == [disk |-> disk', backup |-> backup']
<1>1. disk' = With(disk, m.key, temp[m.src]) /\ backup' = backup /\ m.kind = "Move"
  BY DEF MoveIn, ApplySound, MoveOperation
<1>2. /\ old.disk = disk /\ new.disk = disk' /\ old.backup = backup /\ new.backup = backup
      /\ \A d : [old EXCEPT !.disk = d] = [new EXCEPT !.disk = d]
  BY <1>1
<1> HIDE DEF m
<1>3. \A c : With(disk', m.key, c) = With(disk, m.key, c)
  BY <1>1 DEF With
<1>4. Without(disk', {m.key}) = Without(disk, {m.key})
  BY <1>1 DEF With, Without
<1>5. [old EXCEPT !.disk = Without(@, {m.key})] = [new EXCEPT !.disk = Without(@, {m.key})]
  BY <1>2, <1>4
<1>6. Unapply(m, new) = Unapply(m, old)
  <2> HIDE DEF old, new
  <2> QED
    BY <1>1, <1>2, <1>3, <1>5 DEF Unapply
<1> QED
  BY <1>6 DEF m

\* Undone, where the operations go on.
LEMMA UndoneMoved ==
  ASSUME FileTypeOK, FileTypeOK', Directories, ApplySound, NEW e \in Env,
         (\E m : MadeRoom(m)) \/ MoveIn(e)
  PROVE  Undone' = Undone
<1> DEFINE now == [disk |-> disk, backup |-> backup]
           next == [disk |-> disk', backup |-> backup']
           S == MoveOperation \cup RemoveOperation
<1>1. PICK f : IsUndo(f, ops, now) /\ Undone = f[Len(ops)]
  BY UndoneIs
<1>2. PICK s, d : s = ops' /\ d = next
  OBVIOUS
<1>3. PICK g : IsUndo(g, s, d) /\ Undone' = g[Len(s)]
  <2>1. Len(s) \in Nat
    BY <1>2 DEF FileTypeOK
  <2> DEFINE u == CHOOSE h : IsUndo(h, s, d)
  <2>2. IsUndo(u, s, d)
    BY <2>1, UndoExists
  <2>3. Undone' = u[Len(s)]
    BY <1>2 DEF Undone, IsUndo
  <2> QED
    BY <2>2, <2>3
<1>4. ops \in Seq(S)
  BY DEF FileTypeOK
<1>5. ASSUME NEW m, MadeRoom(m)
      PROVE  Undone' = Undone
  <2>1. m \in S /\ s = Append(ops, m)
    BY <1>2, <1>5 DEF MadeRoom
  <2>2. Unapply(m, d) = now
    BY <1>2, <1>5, MadeRoomUndone
  <2>3. Len(s) = Len(ops) + 1
    BY <1>4, <2>1, AppendProperties
  <2> HIDE DEF S, now
  <2>4. g[Len(ops) + 1] = f[Len(ops)]
    BY <1>1, <1>3, <1>4, <2>1, <2>2, UndoOneMore
  <2> QED
    BY <1>1, <1>3, <2>3, <2>4
<1>6. CASE MoveIn(e)
  <2>1. s = ops /\ ops # << >>
    BY <1>2, <1>6 DEF MoveIn, ApplySound
  <2>2. Len(ops) \in Nat \ {0} /\ Last(ops) = ops[Len(ops)]
    BY <1>4, <2>1, EmptySeq DEF Last
  <2>3. Unapply(ops[Len(ops)], d) = Unapply(ops[Len(ops)], now)
    BY <1>2, <1>6, <2>2, MoveInUndone
  <2> HIDE DEF now
  <2> QED
    BY <1>1, <1>3, <2>1, <2>2, <2>3, UndoSame
<1> QED
  BY <1>5, <1>6

\* Without operations there is nothing to undo.
LEMMA UndoneNothing ==
  ASSUME ops' = << >>
  PROVE  Undone'.disk = disk'
<1>1. Len(ops') = 0 /\ 0 \in 0 .. 0
  OBVIOUS
<1>2. PICK d : d = [disk |-> disk', backup |-> backup']
  OBVIOUS
<1>3. PICK s : s = ops'
  OBVIOUS
<1>4. PICK f : IsUndo(f, s, d)
  BY <1>1, <1>3, UndoExists
<1>5. \A h : IsUndo(h, s, d) => h[0] = d
  BY <1>1, <1>3 DEF IsUndo
<1> DEFINE u == CHOOSE h : IsUndo(h, s, d)
<1>6. IsUndo(u, s, d)
  BY <1>4
<1>7. Undone' = u[Len(s)]
  BY <1>2, <1>3 DEF Undone, IsUndo
<1>8. Undone' = d
  BY <1>1, <1>3, <1>5, <1>6, <1>7
<1> QED
  BY <1>2, <1>8

\* UndoSound by induction.
LEMMA UndoSoundNext ==
  ASSUME TypeInv, LockInv, FileTypeOK, FileTypeOK', CallSound, TempFinite, ApplySound,
         Directories, UndoSound, NEW e \in Env, FileStep(e)
  PROVE  Directories' /\ UndoSound'
<1>0. pc \in [Env -> Places] /\ \A d \in Env : pc[d] = "apply" => Undone.disk = before
  BY DEF TypeInv, TypeOK, EnvTypeOK, UndoSound
<1> USE DEF Directories
<1>1. CASE /\ pc'[e] \notin {"apply", "finish"}
           /\ UNCHANGED <<disk, backup, duringCommit>>
  <2>1. \A d \in Env : d # e => pc'[d] = pc[d]
    BY FileStepIsStep, OthersKept DEF OwnVariablesKept, vars, envVars
  <2>2. Undone' = Undone /\ before' = before
    BY <1>1 DEF Undone, duringCommit
  <2> QED
    BY <1>0, <1>1, <2>1, <2>2 DEF UndoSound
<1>2. CASE pc[e] \in {"select", "apply", "finish"} /\ CommitStep(e)
  <2> SUFFICES Directories' /\ (pc'[e] = "apply" => Undone'.disk = before')
    BY <1>2, OnlyCommitter DEF UndoSound
  <2>1. CASE BeginApply(e)
    <3>1. ops' = << >> /\ before' = disk /\ UNCHANGED <<disk, backup>>
      BY <2>1 DEF BeginApply
    <3> QED
      BY <3>1, UndoneNothing
  <2>2. CASE MoveAside(e) \/ RemoveFile(e) \/ MoveIn(e)
    <3>1. (\E m : MadeRoom(m)) \/ MoveIn(e)
      BY <2>2, RoomMade
    <3>2. Undone' = Undone
      BY <3>1, UndoneMoved
    <3>3. UNCHANGED <<before, pc>> /\ pc[e] = "apply"
      BY <2>2 DEF MoveAside, RemoveFile, MoveIn, AtRow, vars, envVars
    <3>4. Directories'
      BY <2>2 DEF MoveAside, RemoveFile, MoveIn, MovedAside, With, Without
    <3> QED
      BY <1>0, <3>2, <3>3, <3>4
  <2>3. CASE MarkExecuted(e)
    <3>1. UNCHANGED <<disk, backup, ops, before, pc>> /\ pc[e] = "apply"
      BY <2>3 DEF MarkExecuted, ApplyRow
    <3>2. Undone' = Undone
      BY <3>1 DEF Undone
    <3> QED
      BY <1>0, <3>1, <3>2
  <2>4. CASE ApplyThrows(e) \/ PublishFiles(e) \/ FinishFiles(e) \/ FinishFilesThrows(e)
    <3>1. pc'[e] # "apply"
      BY <1>0, <2>4 DEF ApplyThrows, CommitThrows, PublishFiles, Publish, FinishFiles, Finish,
         FinishFilesThrows, FinishThrows, Goto
    <3>2. Directories'
      BY <2>4 DEF ApplyThrows, PublishFiles, FinishFiles, FinishFilesThrows, Finished, Without
    <3> QED
      BY <3>1, <3>2
  <2> QED
    BY <1>2, <2>1, <2>2, <2>3, <2>4 DEF CommitStep
<1> QED
  BY <1>1, <1>2, TwoKinds

-----------------------------------------------------------------------------
(* All together. *)

\* In the beginning nothing is journaled, what is below "blobs" was committed
\* before and nothing has been moved aside.
LEMMA InitFile == FileInit => FileInv
<1> SUFFICES ASSUME FileInit PROVE FileInv
  OBVIOUS
<1>1. TypeInv /\ Init /\ CallSound /\ TempFinite
  BY InitFirst, InitType
<1>2. PICK K \in SUBSET { Key(b) : b \in blob } : disk = [k \in K |-> k]
  BY DEF FileInit
<1>3. \A b \in blob : Key(b) \in Nat \X Name
  BY <1>1 DEF TypeInv, TypeOK, DatabaseTypeOK, BlobRow, Key
<1>4. DirectoryTyped(disk, Nat \X Name)
  <2>1. \A k \in K : k \in Nat \X Name /\ k \in Content
    BY <1>2, <1>3 DEF Content
  <2> QED
    BY <1>2, <2>1 DEF DirectoryTyped
<1>5. /\ temp = Nothing /\ backup = Nothing /\ selected = Nothing /\ ops = << >>
      /\ step = "begin" /\ stored = disk /\ path = [e \in Env |-> Nothing]
      /\ DOMAIN Nothing = {}
  BY DEF FileInit, Nothing
<1>6. /\ modified = [e \in Env |-> {}] /\ pc = [e \in Env |-> "idle"]
      /\ sid = [e \in Env |-> None] /\ journal = [s \in SessionId |-> << >>]
  BY <1>1 DEF Init, DatabaseInit
<1>7. FileTypeOK
  BY <1>4, <1>5, <1>6 DEF FileTypeOK, DirectoryTyped
<1>8. PathsTyped /\ ContentKept
  BY <1>5 DEF PathsTyped, ContentKept
<1>9. StoresRemembered /\ ApplySound /\ ReplacedOnly
  BY <1>6 DEF StoresRemembered, ApplySound, ReplacedOnly
<1>10. StoresStarted
  BY <1>6 DEF StoresStarted, Journaled
<1>11. Directories
  BY <1>2, <1>5 DEF Directories
<1>12. UndoSound
  BY <1>6 DEF UndoSound
<1> QED
  BY <1>1, <1>7, <1>8, <1>9, <1>10, <1>11, <1>12 DEF FileInv

\* FileInv by induction.
LEMMA FileInvNext ==
  ASSUME TypeInv, IInv, SessionInv, FileInv, [FileNext]_allVars
  PROVE  FileInv'
<1> USE DEF FileInv
<1>1. TempFinite'
  BY TempFiniteNext
<1>2. LockInv
  BY DEF SessionInv
<1>3. ASSUME UNCHANGED vars
      PROVE  StoresStarted' /\ StoresRemembered'
  BY <1>3 DEF vars, dbVars, envVars, StoresStarted, StoresRemembered, Journaled
<1>4. ASSUME NEW e \in Env, FileStep(e)
      PROVE  FileInv'
  <2>1. StoresStarted' /\ StoresRemembered'
    BY <1>3, <1>4, FileStepIsStep, StoresStartedNext, StoresRememberedNext
  <2>2. CallSound' /\ PathsTyped' /\ FileTypeOK'
    BY <1>4, CallSoundNext, PathsNext, FileTypeNext
  <2>3. ApplySound'
    BY <1>2, <1>4, ApplySoundNext
  <2>4. ContentKept' /\ ReplacedOnly'
    BY <1>2, <1>4, KeptNext
  <2>5. Directories' /\ UndoSound'
    BY <1>2, <1>4, <2>2, UndoSoundNext
  <2> QED
    BY <1>1, <2>1, <2>2, <2>3, <2>4, <2>5
<1>5. CASE UNCHANGED allVars
  <2>1. StoresStarted' /\ StoresRemembered'
    BY <1>3, <1>5 DEF allVars
  <2>2. UNCHANGED <<disk, temp, backup, path, call, ops, step, selected, stored, modified, pc>>
    BY <1>5 DEF allVars, fileVars, duringCommit, vars, envVars
  <2>3. FileTypeOK' /\ PathsTyped' /\ ContentKept'
    BY <2>2 DEF FileTypeOK, PathsTyped, ContentKept
  <2>4. CallSound'
    BY <1>5, <2>2 DEF allVars, vars, envVars, CallSound, InSession
  <2>5. ApplySound' /\ ReplacedOnly'
    BY <1>5, <2>2 DEF allVars, vars, envVars, ApplySound, ReplacedOnly, Safe, Touched, Asides
  <2>6. Directories' /\ UndoSound'
    <3>1. UNCHANGED <<disk, backup, ops, before, pc>>
      BY <1>5 DEF allVars, fileVars, duringCommit, vars, envVars
    <3>2. Undone' = Undone
      BY <3>1 DEF Undone
    <3> QED
      BY <3>1, <3>2 DEF Directories, UndoSound
  <2> QED
    BY <1>1, <2>1, <2>3, <2>4, <2>5, <2>6
<1> QED
  BY <1>4, <1>5 DEF FileNext, FileStep

\* The invariant holds in every reachable state.
THEOREM FileInvariant == FileSpec => []FileInv
<1>1. TypeInv /\ IInv /\ SessionInv /\ FileInv /\ [FileNext]_allVars => FileInv'
  BY FileInvNext
<1> QED
  BY <1>1, InitFile, ImplementsSessions, SessionInvariant, PTL DEF FileSpec

\* The files below a database and in its "temp" and the operations of a commit
\* have the types of vfs.hpp, and VFS::modified has a path for each of its keys.
THEOREM FileTypeOKHolds == FileSpec => []FileTypeOK
<1>1. FileInv => FileTypeOK
  BY DEF FileInv
<1> QED
  BY <1>1, FileInvariant, PTL

\* Whatever throws and whoever dies, in whatever step of whatever commit, what
\* the last successful commit has left under a key is below "blobs" or in "temp".
THEOREM ContentKeptHolds == FileSpec => []ContentKept
<1>1. FileInv => ContentKept
  BY DEF FileInv
<1> QED
  BY <1>1, FileInvariant, PTL

\* Between two operations of a commit, undoing those made, the newest first,
\* leads back to what was below "blobs" when VFS::apply began, whatever was
\* stored and removed before and however names in "temp" are given out again.
THEOREM UndoPossibleHolds == FileSpec => []UndoPossible
<1>1. FileInv => UndoPossible
  BY DEF FileInv, UndoSound, UndoPossible
<1> QED
  BY <1>1, FileInvariant, PTL
=============================================================================

---------------------------- MODULE SessionSafety ---------------------------
(***************************************************************************)
(* Type correctness of Sessions; then that the tables stay sound and no    *)
(* session reads what another has not committed, for any number of         *)
(* processes, files and blobs and under every fault: the inductive         *)
(* invariants and their proofs.                                            *)
(***************************************************************************)
EXTENDS SessionProperties, SequenceTheorems, TLAPS

-----------------------------------------------------------------------------
(* The journal. *)

\* Appending a row (every "insert into journal") makes exactly the query for
\* that row true, and leaves those of the other sessions as they were.
LEMMA LogEffect ==
  ASSUME journal \in [SessionId -> Seq(JournalRow)],
         NEW s \in SessionId, NEW relation \in Relation, NEW id \in Nat,
         NEW op \in Operation, Log(s, relation, id, op)
  PROVE  /\ journal' \in [SessionId -> Seq(JournalRow)]
         /\ \A t \in SessionId : \A r, i, o :
              Journaled(t, r, i, o)' <=>
                \/ Journaled(t, r, i, o)
                \/ t = s /\ r = relation /\ i = id /\ o = op
<1> DEFINE row == [relation |-> relation, relId |-> id, op |-> op, executed |-> FALSE]
<1>1. row \in JournalRow
  BY DEF JournalRow
<1>2. journal' = [journal EXCEPT ![s] = Append(@, row)]
  BY DEF Log
<1>3. journal[s] \in Seq(JournalRow)
  OBVIOUS
<1>4. /\ Append(journal[s], row) \in Seq(JournalRow)
      /\ Len(Append(journal[s], row)) = Len(journal[s]) + 1
      /\ DOMAIN Append(journal[s], row) = 1 .. Len(journal[s]) + 1
      /\ \A i \in 1 .. Len(journal[s]) : Append(journal[s], row)[i] = journal[s][i]
      /\ Append(journal[s], row)[Len(journal[s]) + 1] = row
  BY <1>1, <1>3, AppendProperties
<1>5. DOMAIN journal[s] = 1 .. Len(journal[s]) /\ Len(journal[s]) \in Nat
  BY <1>3
<1>6. journal' \in [SessionId -> Seq(JournalRow)]
  BY <1>2, <1>4
<1>7. ASSUME NEW t \in SessionId, NEW r, NEW i, NEW o
      PROVE  Journaled(t, r, i, o)' <=>
               \/ Journaled(t, r, i, o)
               \/ t = s /\ r = relation /\ i = id /\ o = op
  <2>1. CASE t # s
    <3>1. journal'[t] = journal[t]
      BY <1>2, <2>1
    <3> QED
      BY <2>1, <3>1 DEF Journaled
  <2>2. CASE t = s
    <3>1. journal'[t] = Append(journal[s], row)
      BY <1>2, <2>2
    <3>2. Journaled(t, r, i, o)' <=>
            \E k \in 1 .. Len(journal[s]) + 1 :
              /\ Append(journal[s], row)[k].relation = r
              /\ Append(journal[s], row)[k].relId = i
              /\ Append(journal[s], row)[k].op = o
      BY <1>4, <3>1 DEF Journaled
    <3>3. Journaled(t, r, i, o) <=>
            \E k \in 1 .. Len(journal[s]) :
              /\ journal[s][k].relation = r
              /\ journal[s][k].relId = i
              /\ journal[s][k].op = o
      BY <1>5, <2>2 DEF Journaled
    <3>4. row.relation = relation /\ row.relId = id /\ row.op = op
      OBVIOUS
    <3> HIDE DEF row
    <3> QED
      BY <1>4, <1>5, <2>2, <3>2, <3>3, <3>4
  <2> QED
    BY <2>1, <2>2
<1> QED
  BY <1>6, <1>7

\* Flushing the journal of a session (commit step 6, the end of a rollback)
\* leaves nothing journaled by it and everything by the others.
LEMMA FlushEffect ==
  ASSUME journal \in [SessionId -> Seq(JournalRow)],
         NEW s \in SessionId, journal' = FlushedJournal(s)
  PROVE  /\ journal' \in [SessionId -> Seq(JournalRow)]
         /\ \A t \in SessionId : \A r, i, o :
              Journaled(t, r, i, o)' <=> t # s /\ Journaled(t, r, i, o)
<1>1. journal' = [journal EXCEPT ![s] = << >>]
  BY DEF FlushedJournal
<1>2. << >> \in Seq(JournalRow)
  OBVIOUS
<1>3. journal' \in [SessionId -> Seq(JournalRow)]
  BY <1>1, <1>2
<1>4. ASSUME NEW t \in SessionId, NEW r, NEW i, NEW o
      PROVE  Journaled(t, r, i, o)' <=> t # s /\ Journaled(t, r, i, o)
  <2>1. CASE t # s
    <3>1. journal'[t] = journal[t]
      BY <1>1, <2>1
    <3> QED
      BY <2>1, <3>1 DEF Journaled
  <2>2. CASE t = s
    <3>1. journal'[t] = << >> /\ DOMAIN << >> = {}
      BY <1>1, <2>2
    <3> QED
      BY <2>2, <3>1 DEF Journaled
  <2> QED
    BY <2>1, <2>2
<1> QED
  BY <1>3, <1>4

\* Marking a row executed changes no query for relation, object and operation.
LEMMA ExecuteEffect ==
  ASSUME journal \in [SessionId -> Seq(JournalRow)],
         NEW s \in SessionId, NEW i,
         journal' = [journal EXCEPT ![s][i].executed = TRUE]
  PROVE  /\ journal' \in [SessionId -> Seq(JournalRow)]
         /\ \A t \in SessionId : \A r, k, o :
              Journaled(t, r, k, o)' <=> Journaled(t, r, k, o)
<1> DEFINE row == [journal[s][i] EXCEPT !.executed = TRUE]
           rows == [journal[s] EXCEPT ![i] = row]
<1>1. journal[s] \in Seq(JournalRow) /\ DOMAIN journal[s] = 1 .. Len(journal[s])
  OBVIOUS
<1>2. journal' = [journal EXCEPT ![s] = rows]
  OBVIOUS
<1>3. /\ rows \in Seq(JournalRow)
      /\ DOMAIN rows = DOMAIN journal[s]
      /\ \A j \in DOMAIN rows :
           /\ rows[j].relation = journal[s][j].relation
           /\ rows[j].relId = journal[s][j].relId
           /\ rows[j].op = journal[s][j].op
  <2>1. CASE i \in DOMAIN journal[s]
    <3>1. journal[s][i] \in JournalRow
      BY <1>1, <2>1
    <3>2. /\ row \in JournalRow
          /\ row.relation = journal[s][i].relation
          /\ row.relId = journal[s][i].relId
          /\ row.op = journal[s][i].op
      BY <3>1 DEF JournalRow
    <3>3. /\ rows \in Seq(JournalRow)
          /\ Len(rows) = Len(journal[s])
          /\ \A j \in 1 .. Len(journal[s]) :
               rows[j] = IF j = i THEN row ELSE journal[s][j]
      BY <1>1, <2>1, <3>2, ExceptSeq
    <3> QED
      BY <1>1, <3>2, <3>3
  <2>2. CASE i \notin DOMAIN journal[s]
    <3>1. rows = journal[s]
      BY <1>1, <2>2
    <3> QED
      BY <1>1, <3>1
  <2> QED
    BY <2>1, <2>2
<1> HIDE DEF rows
<1>4. journal' \in [SessionId -> Seq(JournalRow)]
  BY <1>2, <1>3
<1>5. ASSUME NEW t \in SessionId, NEW r, NEW k, NEW o
      PROVE  Journaled(t, r, k, o)' <=> Journaled(t, r, k, o)
  <2>1. CASE t # s
    <3>1. journal'[t] = journal[t]
      BY <1>2, <2>1
    <3> QED
      BY <3>1 DEF Journaled
  <2>2. CASE t = s
    <3>1. journal'[t] = rows
      BY <1>2, <2>2
    <3> QED
      BY <1>3, <2>2, <3>1 DEF Journaled
  <2> QED
    BY <2>1, <2>2
<1> QED
  BY <1>4, <1>5

-----------------------------------------------------------------------------
(* Types. *)

\* A process that is inside a commit or a rollback is in a session.
InsideSession ==
  \A e \in Env : pc[e] \in {"select", "apply", "finish", "clear", "rollback"} =>
    sid[e] # None

TypeInv == TypeOK /\ InsideSession

LEMMA NoneIsNoSession == None \notin SessionId
BY NoneAssumption DEF SessionId

LEMMA SessionIdOfInside ==
  ASSUME TypeInv, NEW e \in Env,
         InSession(e) \/ pc[e] \in {"select", "apply", "finish", "clear", "rollback"}
  PROVE  sid[e] \in SessionId
BY DEF TypeInv, TypeOK, EnvTypeOK, InsideSession, InSession

LEMMA MadeVisibleType ==
  ASSUME NEW s, NEW relation
  PROVE  /\ \A rows \in SUBSET FileRow :
              MadeVisible(s, relation, rows) \in SUBSET FileRow
         /\ \A rows \in SUBSET BlobRow :
              MadeVisible(s, relation, rows) \in SUBSET BlobRow
         /\ \A rows \in SUBSET MetadataRow :
              MadeVisible(s, relation, rows) \in SUBSET MetadataRow
<1>1. \A r \in FileRow : [r EXCEPT !.visible = TRUE] \in FileRow
  BY DEF FileRow
<1>2. \A r \in BlobRow : [r EXCEPT !.visible = TRUE] \in BlobRow
  BY DEF BlobRow
<1>3. \A r \in MetadataRow : [r EXCEPT !.visible = TRUE] \in MetadataRow
  BY DEF MetadataRow
<1> QED
  BY <1>1, <1>2, <1>3 DEF MadeVisible

LEMMA SeedTyped ==
  /\ Len(SeedBlobs) \in Nat /\ DOMAIN SeedBlobs = 1 .. Len(SeedBlobs)
  /\ \A i \in DOMAIN SeedBlobs :
       SeedBlobs[i] \in [file : 0 .. SeedFiles - 1, name : Name]
<1> DEFINE Seed == [file : 0 .. SeedFiles - 1, name : Name]
<1>1. SeedBlobs \in Seq(Seed)
  BY SeedAssumption
<1> HIDE DEF Seed
<1>2. Len(SeedBlobs) \in Nat /\ DOMAIN SeedBlobs = 1 .. Len(SeedBlobs)
  BY <1>1, LenProperties
<1>3. \A i \in DOMAIN SeedBlobs : SeedBlobs[i] \in Seed
  BY <1>1, <1>2, ElementOfSeq
<1> USE DEF Seed
<1> QED
  BY <1>2, <1>3

LEMMA InitType == Init => TypeInv
<1> SUFFICES ASSUME Init PROVE TypeInv
  OBVIOUS
<1> USE DEF Init, DatabaseInit
<1>0. SeedFiles \in Nat
  BY SeedAssumption
<1>1. file \in SUBSET FileRow
  <2>1. file = [id : 0 .. SeedFiles - 1, visible : {TRUE}]
    OBVIOUS
  <2>2. 0 .. SeedFiles - 1 \subseteq Nat
    BY <1>0
  <2> QED
    BY <2>1, <2>2 DEF FileRow
<1>2. blob \in SUBSET BlobRow
  <2>1. ASSUME NEW i \in DOMAIN SeedBlobs
        PROVE  /\ i - 1 \in Nat
               /\ SeedBlobs[i].file \in Nat
               /\ SeedBlobs[i].name \in Name
    <3>1. i \in 1 .. Len(SeedBlobs) /\ Len(SeedBlobs) \in Nat
      BY SeedTyped
    <3>4. SeedBlobs[i].file \in 0 .. SeedFiles - 1 /\ SeedBlobs[i].name \in Name
      <4> HIDE DEF Init, DatabaseInit
      <4> QED
        BY SeedTyped
    <3>5. 0 .. SeedFiles - 1 \subseteq Nat
      BY <1>0
    <3>6. i - 1 \in Nat
      BY <3>1
    <3> QED
      BY <3>4, <3>5, <3>6
  <2>2. \A i \in DOMAIN SeedBlobs :
          [id |-> i - 1, file |-> SeedBlobs[i].file,
           name |-> SeedBlobs[i].name, visible |-> TRUE] \in BlobRow
    BY <2>1 DEF BlobRow
  <2>3. blob = { [id |-> i - 1, file |-> SeedBlobs[i].file,
                  name |-> SeedBlobs[i].name, visible |-> TRUE] :
                 i \in DOMAIN SeedBlobs }
    OBVIOUS
  <2> HIDE DEF Init, DatabaseInit
  <2> QED
    BY <2>2, <2>3
<1>3. /\ metadata \in SUBSET MetadataRow /\ handle \in SUBSET HandleRow
      /\ session \in SUBSET SessionId /\ ready \in SUBSET session
  OBVIOUS
<1>4. journal \in [SessionId -> Seq(JournalRow)]
  OBVIOUS
<1>5. nextId \in [{"session", "file", "blob", "metadata"} -> Nat]
  BY SeedAssumption, LenProperties
<1>6. EnvTypeOK
  BY DEF EnvTypeOK, Places
<1>7. InsideSession
  BY DEF InsideSession
<1> QED
  BY <1>1, <1>2, <1>3, <1>4, <1>5, <1>6, <1>7 DEF TypeInv, TypeOK, DatabaseTypeOK

-----------------------------------------------------------------------------
(* Every step keeps the types. *)

LEMMA CommandType ==
  ASSUME TypeInv, NEW e \in Env, Command(e)
  PROVE  TypeInv'
<1> USE DEF TypeInv, TypeOK, DatabaseTypeOK, EnvTypeOK, InsideSession, Goto
<1>0. InSession(e) => sid[e] \in SessionId
  BY SessionIdOfInside
<1>1. CASE StartSession(e)
  <2>1. nextId["session"] \in SessionId
    BY <1>1, BoundAssumption DEF StartSession, SessionId
  <2> QED
    BY <1>1, <2>1, NoneIsNoSession DEF StartSession, DrawId
<1>2. CASE CreateFile(e)
  <2> DEFINE f == nextId["file"]
  <2>1. f \in Nat /\ sid[e] \in SessionId
    BY <1>0, <1>2 DEF CreateFile
  <2>2. journal' \in [SessionId -> Seq(JournalRow)]
    BY <1>2, <2>1, LogEffect DEF CreateFile, Relation, Operation
  <2>r. [id |-> f, visible |-> FALSE] \in FileRow
    BY <2>1 DEF FileRow
  <2>3. file' \in SUBSET FileRow
    BY <1>2, <2>r DEF CreateFile
  <2>4. handle' \in SUBSET HandleRow
    BY <1>2, <2>1 DEF CreateFile, FileHandle, HandleRow
  <2> QED
    BY <1>2, <2>1, <2>2, <2>3, <2>4 DEF CreateFile, DrawId
<1>3. ASSUME NEW f \in 0 .. nextId["file"] - 1, GetFile(e, f)
      PROVE  TypeInv'
  <2>1. f \in Nat /\ sid[e] \in SessionId
    BY <1>0, <1>3 DEF GetFile
  <2>2. handle' \in SUBSET HandleRow
    BY <1>3, <2>1 DEF GetFile, FileHandle, HandleRow
  <2> QED
    BY <1>3, <2>1, <2>2 DEF GetFile
<1>4. ASSUME NEW f \in files[e], NEW n \in Name, GetBlob(e, f, n)
      PROVE  TypeInv'
  <2>1. PICK b \in blob :
          /\ handle' = handle \cup {BlobHandle(b.id, sid[e])}
          /\ blobs' = [blobs EXCEPT ![e] = @ \cup
               {[file |-> f, id |-> b.id, name |-> n, removed |-> FALSE]}]
    BY <1>4 DEF GetBlob
  <2>2. b.id \in Nat /\ f \in Nat /\ sid[e] \in SessionId
    BY <1>0, <1>4 DEF GetBlob, BlobRow
  <2>3. handle' \in SUBSET HandleRow
    BY <2>1, <2>2 DEF BlobHandle, HandleRow
  <2>4. [file |-> f, id |-> b.id, name |-> n, removed |-> FALSE] \in BlobObject
    BY <2>2 DEF BlobObject
  <2>5. blobs' \in [Env -> SUBSET BlobObject]
    BY <2>1, <2>4
  <2> QED
    BY <1>4, <2>3, <2>5 DEF GetBlob
<1>5. ASSUME NEW f \in files[e], NEW n \in Name, AddBlob(e, f, n)
      PROVE  TypeInv'
  <2> DEFINE id == nextId["blob"]
  <2>1. id \in Nat /\ f \in Nat /\ sid[e] \in SessionId
    BY <1>0, <1>5 DEF AddBlob
  <2>2. journal' \in [SessionId -> Seq(JournalRow)]
    BY <1>5, <2>1, LogEffect DEF AddBlob, Relation, Operation
  <2>r. [id |-> id, file |-> f, name |-> n, visible |-> FALSE] \in BlobRow
    BY <2>1 DEF BlobRow
  <2>3. blob' \in SUBSET BlobRow
    BY <1>5, <2>r DEF AddBlob
  <2>4. handle' \in SUBSET HandleRow
    BY <1>5, <2>1 DEF AddBlob, BlobHandle, HandleRow
  <2>5. [file |-> f, id |-> id, name |-> n, removed |-> FALSE] \in BlobObject
    BY <2>1 DEF BlobObject
  <2>6. blobs' \in [Env -> SUBSET BlobObject]
    BY <1>5, <2>5 DEF AddBlob
  <2> QED
    BY <1>5, <2>1, <2>2, <2>3, <2>4, <2>6 DEF AddBlob, DrawId, Places, InSession
<1>6. ASSUME NEW b \in blobs[e], RemoveBlob(e, b)
      PROVE  TypeInv'
  <2>1. b \in BlobObject /\ b.id \in Nat /\ sid[e] \in SessionId
    BY <1>0, <1>6 DEF RemoveBlob, BlobObject
  <2>2. journal' \in [SessionId -> Seq(JournalRow)]
    BY <1>6, <2>1, LogEffect DEF RemoveBlob, Relation, Operation
  <2>3. [b EXCEPT !.removed = TRUE] \in BlobObject
    BY <2>1 DEF BlobObject
  <2>4. blobs' \in [Env -> SUBSET BlobObject]
    BY <1>6, <2>3 DEF RemoveBlob
  <2> QED
    BY <1>6, <2>2, <2>4 DEF RemoveBlob
<1>7. ASSUME NEW b \in blobs[e], StoreBlob(e, b)
      PROVE  TypeInv'
  <2>1. /\ b.id \in Nat /\ b.file \in Nat /\ b.name \in Name
        /\ sid[e] \in SessionId
    BY <1>0, <1>7 DEF StoreBlob, BlobObject
  <2>2. journal' \in [SessionId -> Seq(JournalRow)]
    BY <1>7, <2>1, LogEffect DEF StoreBlob, Relation, Operation
  <2>3. modified' \in [Env -> SUBSET (Nat \X Name)]
    BY <1>7, <2>1 DEF StoreBlob
  <2> QED
    BY <1>7, <2>2, <2>3 DEF StoreBlob
<1>8. ASSUME NEW b \in blobs[e], NEW object \in {None} \cup {c.id : c \in blobs[e]},
             AddTriple(e, b, object)
      PROVE  TypeInv'
  <2>1. /\ b.id \in Nat /\ object \in Nat \cup {None}
        /\ nextId["metadata"] \in Nat /\ sid[e] \in SessionId
    BY <1>0, <1>8 DEF AddTriple, BlobObject
  <2>2. journal' \in [SessionId -> Seq(JournalRow)]
    BY <1>8, <2>1, LogEffect DEF AddTriple, Relation, Operation
  <2>r. [id |-> nextId["metadata"], blob |-> b.id, object |-> object,
         visible |-> FALSE] \in MetadataRow
    BY <2>1 DEF MetadataRow
  <2>3. metadata' \in SUBSET MetadataRow
    BY <1>8, <2>r DEF AddTriple
  <2> QED
    BY <1>8, <2>1, <2>2, <2>3 DEF AddTriple, DrawId
<1>9. ASSUME NEW level \in UseLevels, CommitPasses(e, level)
      PROVE  TypeInv'
  BY <1>9 DEF CommitPasses, MarkedReady, Places, InSession
<1>10. ASSUME NEW level \in UseLevels, CommitRejected(e, level)
       PROVE  TypeInv'
  BY <1>10 DEF CommitRejected, MarkedReady, envVars
<1>11. CASE Rollback(e)
  BY <1>11 DEF Rollback, dbVars, Places, InSession
<1>12. CASE Exit(e)
  BY <1>12 DEF Exit, dbVars, Places
<1>13. CASE CleanSessions(e)
  BY <1>13 DEF CleanSessions, envVars
<1> QED
  BY <1>1, <1>2, <1>3, <1>4, <1>5, <1>6, <1>7, <1>8, <1>9, <1>10, <1>11, <1>12,
     <1>13 DEF Command

LEMMA ContinueType ==
  ASSUME TypeInv, NEW e \in Env, Continue(e)
  PROVE  TypeInv'
<1> USE DEF TypeInv, TypeOK, DatabaseTypeOK, EnvTypeOK, InsideSession, Goto
<1>1. CASE ApplySelect(e)
  <2>1. sid[e] \in SessionId
    BY <1>1, SessionIdOfInside DEF ApplySelect
  <2>2. DOMAIN journal[sid[e]] \subseteq Nat
    BY <2>1
  <2>3. Unexecuted(sid[e]) \in SUBSET Nat
    BY <2>2 DEF Unexecuted
  <2> QED
    BY <1>1, <2>3 DEF ApplySelect, dbVars, Places
<1>2. CASE ApplyRow(e)
  <2>1. sid[e] \in SessionId
    BY <1>2, SessionIdOfInside DEF ApplyRow
  <2>2. PICK i \in todo[e] :
          /\ journal' = [journal EXCEPT ![sid[e]][i].executed = TRUE]
          /\ todo' = [todo EXCEPT ![e] = @ \ {i}]
    BY <1>2 DEF ApplyRow
  <2>3. journal' \in [SessionId -> Seq(JournalRow)]
    BY <2>1, <2>2, ExecuteEffect
  <2> QED
    BY <1>2, <2>2, <2>3 DEF ApplyRow
<1>3. CASE Publish(e)
  <2> DEFINE s == sid[e]
  <2>1. s \in SessionId
    BY <1>3, SessionIdOfInside DEF Publish
  <2>2. journal' \in [SessionId -> Seq(JournalRow)]
    BY <1>3, <2>1, FlushEffect DEF Publish
  <2>3. /\ file' \in SUBSET FileRow
        /\ blob' \in SUBSET BlobRow
        /\ metadata' \in SUBSET MetadataRow
    BY <1>3, MadeVisibleType DEF Publish
  <2> QED
    BY <1>3, <2>2, <2>3 DEF Publish, Places
<1>4. CASE Finish(e)
  BY <1>4 DEF Finish, dbVars, Places
<1>5. CASE CommitEnd(e)
  BY <1>5 DEF CommitEnd, dbVars, Places
<1>6. ASSUME NEW f \in files[e], CloseFile(e, f)
      PROVE  TypeInv'
  BY <1>6 DEF CloseFile
<1>7. ASSUME NEW b \in blobs[e], CloseBlob(e, b)
      PROVE  TypeInv'
  BY <1>7 DEF CloseBlob
<1>8. CASE RollbackRows(e)
  <2>1. sid[e] \in SessionId
    BY <1>8, SessionIdOfInside DEF RollbackRows
  <2>2. journal' \in [SessionId -> Seq(JournalRow)]
    BY <1>8, <2>1, FlushEffect DEF RollbackRows
  <2> QED
    BY <1>8, <2>2 DEF RollbackRows, Places
<1>9. CASE ExitEnd(e)
  BY <1>9 DEF ExitEnd, dbVars, Places
<1>10. CASE CloseReplaced(e)
  BY <1>10 DEF CloseReplaced, Places
<1> QED
  BY <1>1, <1>2, <1>3, <1>4, <1>5, <1>6, <1>7, <1>8, <1>9, <1>10 DEF Continue

LEMMA FaultType ==
  ASSUME TypeInv, NEW e \in Env, Fault(e)
  PROVE  TypeInv'
<1> USE DEF TypeInv, TypeOK, EnvTypeOK, InsideSession, Goto
<1>0. (UNCHANGED dbVars) => DatabaseTypeOK'
  BY DEF DatabaseTypeOK, dbVars
<1>1. ASSUME NEW f \in 0 .. nextId["file"] - 1, GetFileThrows(e, f)
      PROVE  TypeInv'
  <2>1. nextId["file"] \in Nat
    BY DEF DatabaseTypeOK
  <2>2. f \in Nat
    BY <2>1
  <2> QED
    BY <1>0, <1>1, <2>2 DEF GetFileThrows
<1>2. ASSUME NEW b \in blobs[e], StoreBlobThrows(e, b)
      PROVE  TypeInv'
  <2>1. b.file \in Nat /\ b.name \in Name
    BY DEF BlobObject
  <2> QED
    BY <1>0, <1>2, <2>1 DEF StoreBlobThrows
<1>3. CASE CommitThrows(e)
  BY <1>0, <1>3 DEF CommitThrows, Places
<1>4. CASE FinishThrows(e)
  BY <1>0, <1>4 DEF FinishThrows, Places
<1>5. CASE RollbackThrows(e)
  BY <1>0, <1>5 DEF RollbackThrows, Places
<1>6. CASE Crash(e)
  BY <1>0, <1>6 DEF Crash, Places
<1> QED
  BY <1>1, <1>2, <1>3, <1>4, <1>5, <1>6 DEF Fault

\* Every step preserves the types.
LEMMA TypeNext == TypeInv /\ [Next]_vars => TypeInv'
<1> SUFFICES ASSUME TypeInv, [Next]_vars PROVE TypeInv'
  OBVIOUS
<1>1. ASSUME NEW e \in Env, Command(e) \/ Continue(e) \/ Fault(e)
      PROVE  TypeInv'
  BY <1>1, CommandType, ContinueType, FaultType
<1>2. CASE UNCHANGED vars
  BY <1>2 DEF vars, dbVars, envVars, TypeInv, TypeOK, DatabaseTypeOK, EnvTypeOK,
              InsideSession
<1> QED
  BY <1>1, <1>2 DEF Next

\* Whatever the processes do and whatever fails, tables and objects hold what
\* their declarations say, in particular the ready sessions are sessions.
THEOREM TypeCorrect == Spec => []TypeInv
BY TypeNext, InitType, PTL DEF Spec

COROLLARY TypesHold == Spec => []TypeOK
BY TypeCorrect, PTL DEF TypeInv

-----------------------------------------------------------------------------
(* Rows, and who sees them.                                                *)

\* Ids are drawn from a counter and are keys.
RowsKeyed ==
  /\ \A f \in file : f.id < nextId["file"]
  /\ \A b \in blob : b.id < nextId["blob"]
  /\ \A f, g \in file : f.id = g.id => f = g
  /\ \A b, c \in blob : b.id = c.id => b = c

\* A creation is journaled once, under an id that has been drawn, and nothing
\* but their creation is journaled of files.
JournalSound ==
  /\ \A s \in SessionId, id \in Nat :
       /\ Added(s, "File", id) => id < nextId["file"]
       /\ Added(s, "Blob", id) => id < nextId["blob"]
       /\ \A op \in Operation : Journaled(s, "File", id, op) => op = "Add"
  /\ \A s, t \in SessionId, id \in Nat :
       /\ Added(s, "File", id) /\ Added(t, "File", id) => s = t
       /\ Added(s, "Blob", id) /\ Added(t, "Blob", id) => s = t

\* Rows are invisible while their creation is journaled.
RowsPending ==
  /\ \A f \in file : ~f.visible <=> \E s \in SessionId : Added(s, "File", f.id)
  /\ \A b \in blob : ~b.visible <=> \E s \in SessionId : Added(s, "Blob", b.id)

\* The blobs of a file that is not committed are those of its session.
BlobsOfPendingFiles ==
  \A b \in blob, s \in SessionId :
    Added(s, "File", b.file) => Added(s, "Blob", b.id)

DbInv ==
  RowsKeyed /\ JournalSound /\ RowsPending /\ BlobTableSound /\ BlobsOfPendingFiles

\* No two processes share a session, and outside a session there are no objects.
SessionsOwned ==
  /\ \A e \in Env : sid[e] # None => sid[e] < nextId["session"]
  /\ \A d, e \in Env : sid[d] # None /\ sid[d] = sid[e] => d = e
  /\ \A e \in Env : sid[e] = None => files[e] = {} /\ blobs[e] = {}

\* The row of a File object outlives it.
ObjectsSound ==
  \A e \in Env :
    /\ \A f \in files[e] : \E r \in file : r.id = f
    /\ \A b \in blobs[e] : b.id < nextId["blob"]

EnvInv == SessionsOwned /\ ObjectsSound /\ NoDirtyReads

\* The inductive invariant.
IInv == DbInv /\ EnvInv

-----------------------------------------------------------------------------
(* Steps that create, publish and delete nothing. *)

\* What a step leaves alone when it journals no creation.
Quiet ==
  /\ UNCHANGED <<file, blob>>
  /\ nextId'["file"] = nextId["file"] /\ nextId'["blob"] = nextId["blob"]
  /\ \A s \in SessionId, id \in Nat :
       /\ \A op \in Operation :
            Journaled(s, "File", id, op)' <=> Journaled(s, "File", id, op)
       /\ Added(s, "Blob", id)' <=> Added(s, "Blob", id)

\* Processes leave their sessions and drop objects.
Letting ==
  /\ nextId'["session"] = nextId["session"]
  /\ \A e \in Env :
       \/ sid'[e] = None /\ files'[e] = {} /\ blobs'[e] = {}
       \/ /\ sid'[e] = sid[e]
          /\ files'[e] \subseteq files[e]
          /\ \A b \in blobs'[e] : \E c \in blobs[e] : c.id = b.id

LEMMA FileAdded ==
  ASSUME Quiet
  PROVE  \A s \in SessionId, id \in Nat : Added(s, "File", id)' <=> Added(s, "File", id)
BY DEF Quiet, Added, Operation

LEMMA IdsAreNumbers ==
  ASSUME TypeInv
  PROVE  /\ \A f \in file : f.id \in Nat
         /\ \A b \in blob : b.id \in Nat /\ b.file \in Nat
         /\ nextId["file"] \in Nat /\ nextId["blob"] \in Nat /\ nextId["session"] \in Nat
         /\ \A e \in Env : \A f \in files[e] : f \in Nat
         /\ \A e \in Env : \A b \in blobs[e] : b.id \in Nat /\ b.file \in Nat
         /\ \A e \in Env : sid[e] \in SessionId \cup {None}
         /\ SessionId \subseteq Nat
BY BoundAssumption DEF TypeInv, TypeOK, DatabaseTypeOK, EnvTypeOK, FileRow, BlobRow, BlobObject, SessionId

LEMMA QuietDb ==
  ASSUME TypeInv, DbInv, Quiet
  PROVE  DbInv'
<1>1. /\ file' = file /\ blob' = blob
      /\ nextId'["file"] = nextId["file"] /\ nextId'["blob"] = nextId["blob"]
  BY DEF Quiet
<1>2. RowsKeyed'
  BY <1>1 DEF DbInv, RowsKeyed
<1>3. JournalSound'
  BY <1>1, FileAdded DEF Quiet, DbInv, JournalSound
<1>4. RowsPending'
  BY <1>1, FileAdded, IdsAreNumbers DEF Quiet, DbInv, RowsPending
<1>5. BlobTableSound'
  BY <1>1 DEF DbInv, BlobTableSound
<1>6. BlobsOfPendingFiles'
  BY <1>1, FileAdded, IdsAreNumbers DEF Quiet, DbInv, BlobsOfPendingFiles
<1> QED
  BY <1>2, <1>3, <1>4, <1>5, <1>6 DEF DbInv

LEMMA LettingEnv ==
  ASSUME TypeInv, EnvInv, Quiet, Letting
  PROVE  EnvInv'
<1>1. /\ file' = file /\ blob' = blob
      /\ nextId'["file"] = nextId["file"] /\ nextId'["blob"] = nextId["blob"]
  BY DEF Quiet
<1>2. SessionsOwned'
  BY DEF EnvInv, SessionsOwned, Letting
<1>3. ObjectsSound'
  BY <1>1 DEF EnvInv, ObjectsSound, Letting
<1>4. NoDirtyReads'
  <2> SUFFICES ASSUME NEW e \in Env, sid'[e] # None
               PROVE  /\ \A f \in files'[e], r \in file' :
                           r.id = f => r.visible \/ Added(sid[e], "File", f)'
                      /\ \A b \in blobs'[e], r \in blob' :
                           r.id = b.id => r.visible \/ Added(sid[e], "Blob", b.id)'
                      /\ sid'[e] = sid[e]
    BY DEF NoDirtyReads, Added, Journaled
  <2>1. /\ sid'[e] = sid[e] /\ sid[e] \in SessionId
        /\ files'[e] \subseteq files[e]
        /\ \A b \in blobs'[e] : \E c \in blobs[e] : c.id = b.id
    BY IdsAreNumbers DEF Letting
  <2>2. ASSUME NEW f \in files'[e], NEW r \in file', r.id = f
        PROVE  r.visible \/ Added(sid[e], "File", f)'
    BY <1>1, <2>1, <2>2, FileAdded, IdsAreNumbers DEF EnvInv, NoDirtyReads
  <2>3. ASSUME NEW b \in blobs'[e], NEW r \in blob', r.id = b.id
        PROVE  r.visible \/ Added(sid[e], "Blob", b.id)'
    <3>1. PICK c \in blobs[e] : c.id = b.id
      BY <2>1
    <3>2. r.visible \/ Added(sid[e], "Blob", c.id)
      BY <1>1, <2>1, <2>3, <3>1 DEF EnvInv, NoDirtyReads
    <3>3. c.id \in Nat
      BY IdsAreNumbers
    <3> QED
      BY <2>1, <3>1, <3>2, <3>3 DEF Quiet
  <2> QED
    BY <2>1, <2>2, <2>3
<1> QED
  BY <1>2, <1>3, <1>4 DEF EnvInv

\* A journal that stays as it is keeps every query.
LEMMA UnchangedJournal ==
  ASSUME journal' = journal
  PROVE  \A s, r, i, o : Journaled(s, r, i, o)' <=> Journaled(s, r, i, o)
BY DEF Journaled

LEMMA StillQuiet ==
  ASSUME UNCHANGED <<file, blob, journal>>,
         nextId'["file"] = nextId["file"], nextId'["blob"] = nextId["blob"]
  PROVE  Quiet
BY UnchangedJournal DEF Quiet, Added

\* Journaling a removal, a store or a triple.
LEMMA LogQuiet ==
  ASSUME TypeInv, UNCHANGED <<file, blob>>,
         nextId'["file"] = nextId["file"], nextId'["blob"] = nextId["blob"],
         NEW s \in SessionId, NEW relation \in Relation, NEW id \in Nat,
         NEW op \in Operation, Log(s, relation, id, op)
  PROVE  relation = "Metadata" \/ (relation = "Blob" /\ op # "Add") => Quiet
<1>1. journal \in [SessionId -> Seq(JournalRow)]
  BY DEF TypeInv, TypeOK, DatabaseTypeOK
<1>2. \A t \in SessionId : \A r, i, o :
        Journaled(t, r, i, o)' <=>
          \/ Journaled(t, r, i, o)
          \/ t = s /\ r = relation /\ i = id /\ o = op
  BY ONLY s \in SessionId, relation \in Relation, id \in Nat, op \in Operation,
     Log(s, relation, id, op), <1>1, LogEffect
<1> QED
  BY <1>2 DEF Quiet, Added

LEMMA QuietLetting ==
  ASSUME TypeInv, IInv, Quiet, Letting
  PROVE  IInv'
BY QuietDb, LettingEnv DEF IInv

-----------------------------------------------------------------------------
(* The initial state. *)

LEMMA InitSafe == Init => IInv
<1> SUFFICES ASSUME Init PROVE IInv
  OBVIOUS
<1> USE DEF Init, DatabaseInit
<1>1. \A s \in SessionId : \A r, i, o : ~Journaled(s, r, i, o)
  BY DEF Journaled
<1>2. /\ nextId["file"] = SeedFiles /\ nextId["blob"] = Len(SeedBlobs)
      /\ SeedFiles \in Nat /\ Len(SeedBlobs) \in Nat
      /\ DOMAIN SeedBlobs = 1 .. Len(SeedBlobs)
  BY SeedAssumption, SeedTyped
<1>3. \A f \in file : f.id \in 0 .. SeedFiles - 1 /\ f.visible = TRUE
  OBVIOUS
<1>5. \A b \in blob : \E i \in 1 .. Len(SeedBlobs) :
        b = [id |-> i - 1, file |-> SeedBlobs[i].file,
             name |-> SeedBlobs[i].name, visible |-> TRUE]
  BY <1>2
<1>11. EnvInv
  BY DEF EnvInv, SessionsOwned, ObjectsSound, NoDirtyReads
<1>12. file = [id : 0 .. SeedFiles - 1, visible : {TRUE}]
  OBVIOUS
<1> HIDE DEF Init, DatabaseInit
<1>4. ASSUME NEW f \in file, NEW g \in file, f.id = g.id PROVE f = g
  <2>1. f \in [id : 0 .. SeedFiles - 1, visible : {TRUE}]
        /\ g \in [id : 0 .. SeedFiles - 1, visible : {TRUE}]
    BY <1>12
  <2>2. f = [id |-> f.id, visible |-> f.visible] /\ g = [id |-> g.id, visible |-> g.visible]
    BY <2>1
  <2>3. f.visible = g.visible
    BY <2>1
  <2> QED
    BY <1>4, <2>2, <2>3
<1>6. RowsKeyed
  <2>1. \A f \in file : f.id < nextId["file"]
    BY <1>2, <1>3
  <2>2. \A b \in blob : b.id < nextId["blob"]
    BY <1>2, <1>5
  <2>3. ASSUME NEW b \in blob, NEW c \in blob, b.id = c.id PROVE b = c
    <3>1. PICK i \in 1 .. Len(SeedBlobs) :
            b = [id |-> i - 1, file |-> SeedBlobs[i].file,
                 name |-> SeedBlobs[i].name, visible |-> TRUE]
      BY <1>5
    <3>2. PICK j \in 1 .. Len(SeedBlobs) :
            c = [id |-> j - 1, file |-> SeedBlobs[j].file,
                 name |-> SeedBlobs[j].name, visible |-> TRUE]
      BY <1>5
    <3>3. i - 1 = j - 1
      BY <2>3, <3>1, <3>2
    <3>4. i = j
      BY <1>2, <3>3
    <3> QED
      BY <3>1, <3>2, <3>4
  <2> QED
    BY <1>4, <2>1, <2>2, <2>3 DEF RowsKeyed
<1>7. JournalSound
  BY <1>1 DEF JournalSound, Added
<1>8. RowsPending
  BY <1>1, <1>3, <1>5 DEF RowsPending, Added
<1>9. BlobTableSound
  <2>1. ASSUME NEW b \in blob, NEW c \in blob, b.file = c.file, b.name = c.name
        PROVE  b = c
    <3>1. PICK i \in 1 .. Len(SeedBlobs) :
            b = [id |-> i - 1, file |-> SeedBlobs[i].file,
                 name |-> SeedBlobs[i].name, visible |-> TRUE]
      BY <1>5
    <3>2. PICK j \in 1 .. Len(SeedBlobs) :
            c = [id |-> j - 1, file |-> SeedBlobs[j].file,
                 name |-> SeedBlobs[j].name, visible |-> TRUE]
      BY <1>5
    <3>3. SeedBlobs[i] \in [file : 0 .. SeedFiles - 1, name : Name]
          /\ SeedBlobs[j] \in [file : 0 .. SeedFiles - 1, name : Name]
      BY <1>2, SeedTyped
    <3>4. SeedBlobs[i] = SeedBlobs[j]
      BY <2>1, <3>1, <3>2, <3>3
    <3>5. i = j
      BY <1>2, <3>4, SeedAssumption
    <3> QED
      BY <3>1, <3>2, <3>5
  <2>2. ASSUME NEW b \in blob PROVE \E f \in file : f.id = b.file
    <3>1. PICK i \in 1 .. Len(SeedBlobs) : b.file = SeedBlobs[i].file
      BY <1>5
    <3>2. SeedBlobs[i] \in [file : 0 .. SeedFiles - 1, name : Name]
      BY <1>2, SeedTyped
    <3>3. [id |-> b.file, visible |-> TRUE] \in file
      BY <1>12, <3>1, <3>2
    <3> QED
      BY <3>3
  <2> QED
    BY <2>1, <2>2 DEF BlobTableSound
<1>10. BlobsOfPendingFiles
  BY <1>1 DEF BlobsOfPendingFiles, Added
<1> QED
  BY <1>6, <1>7, <1>8, <1>9, <1>10, <1>11 DEF IInv, DbInv

-----------------------------------------------------------------------------
(* Steps that bring a session its objects. *)

LEMMA StartSessionSafe ==
  ASSUME TypeInv, IInv, NEW e \in Env, StartSession(e)
  PROVE  IInv'
<1>1. /\ sid[e] = None /\ sid' = [sid EXCEPT ![e] = nextId["session"]]
      /\ nextId'["session"] = nextId["session"] + 1
      /\ UNCHANGED <<files, blobs, journal>>
      /\ Quiet
  BY StillQuiet DEF StartSession, DrawId, TypeInv, TypeOK, DatabaseTypeOK
<1>2. /\ sid \in [Env -> SessionId \cup {None}] /\ nextId["session"] \in Nat
      /\ nextId["session"] # None
  BY NoneAssumption DEF TypeInv, TypeOK, DatabaseTypeOK, EnvTypeOK
<1>3. files[e] = {} /\ blobs[e] = {}
  BY <1>1 DEF IInv, EnvInv, SessionsOwned
<1>4. SessionsOwned'
  <2>1. \A d \in Env : sid[d] # None => sid[d] \in Nat /\ sid[d] < nextId["session"]
    BY <1>2, IdsAreNumbers DEF IInv, EnvInv, SessionsOwned
  <2>2. \A d \in Env : sid'[d] = IF d = e THEN nextId["session"] ELSE sid[d]
    BY <1>1, <1>2
  <2>3. \A d \in Env : sid'[d] # None => sid'[d] < nextId'["session"]
    BY <1>1, <1>2, <2>1, <2>2
  <2>4. \A c, d \in Env : sid'[c] # None /\ sid'[c] = sid'[d] => c = d
    BY <1>2, <2>1, <2>2 DEF IInv, EnvInv, SessionsOwned
  <2>5. \A d \in Env : sid'[d] = None => files'[d] = {} /\ blobs'[d] = {}
    BY <1>1, <1>2, <2>2 DEF IInv, EnvInv, SessionsOwned
  <2> QED
    BY <2>3, <2>4, <2>5 DEF SessionsOwned
<1>5. ObjectsSound'
  BY <1>1 DEF IInv, EnvInv, ObjectsSound, Quiet
<1>6. NoDirtyReads'
  <2>1. \A d \in Env \ {e} : sid'[d] = sid[d]
    BY <1>1, <1>2
  <2>2. \A s, r, i, o : Journaled(s, r, i, o)' <=> Journaled(s, r, i, o)
    BY <1>1, UnchangedJournal
  <2> QED
    BY <1>1, <1>3, <2>1, <2>2 DEF IInv, EnvInv, NoDirtyReads, Added, Quiet
<1> QED
  BY <1>1, <1>4, <1>5, <1>6, QuietDb DEF IInv, EnvInv

LEMMA GetFileSafe ==
  ASSUME TypeInv, IInv, NEW e \in Env, NEW f, GetFile(e, f)
  PROVE  IInv'
<1>1. /\ UNCHANGED <<file, blob, journal, nextId, sid, blobs>>
      /\ sid[e] # None
      /\ files' = [files EXCEPT ![e] = @ \cup {f}]
      /\ FileVisible(f)
      /\ Quiet
  BY StillQuiet DEF GetFile, InSession
<1>2. \A d \in Env : files'[d] = IF d = e THEN files[e] \cup {f} ELSE files[d]
  BY <1>1 DEF TypeInv, TypeOK, EnvTypeOK
<1>3. \A s, r, i, o : Journaled(s, r, i, o)' <=> Journaled(s, r, i, o)
  BY <1>1, UnchangedJournal
<1>4. SessionsOwned'
  BY <1>1, <1>2 DEF IInv, EnvInv, SessionsOwned
<1>5. ObjectsSound'
  BY <1>1, <1>2 DEF IInv, EnvInv, ObjectsSound, FileVisible
<1>6. NoDirtyReads'
  <2>1. \A r \in file : r.id = f => r.visible
    BY <1>1 DEF FileVisible, IInv, DbInv, RowsKeyed
  <2> QED
    BY <1>1, <1>2, <1>3, <2>1 DEF IInv, EnvInv, NoDirtyReads, Added
<1> QED
  BY <1>1, <1>4, <1>5, <1>6, QuietDb DEF IInv, EnvInv

LEMMA GetBlobSafe ==
  ASSUME TypeInv, IInv, NEW e \in Env, NEW f, NEW n, GetBlob(e, f, n)
  PROVE  IInv'
<1>1. /\ UNCHANGED <<file, blob, journal, nextId, sid, files>>
      /\ sid[e] # None
      /\ Quiet
  BY StillQuiet DEF GetBlob, InSession
<1>2. PICK c \in blob :
        /\ c.visible
        /\ blobs' = [blobs EXCEPT ![e] = @ \cup
                       {[file |-> f, id |-> c.id, name |-> n, removed |-> FALSE]}]
  BY DEF GetBlob
<1>3. \A d \in Env : \A b \in blobs'[d] :
        b \in blobs[d] \/ (d = e /\ b.id = c.id)
  <2> DEFINE o == [file |-> f, id |-> c.id, name |-> n, removed |-> FALSE]
  <2>1. o.id = c.id
    OBVIOUS
  <2> HIDE DEF o
  <2>2. blobs' = [blobs EXCEPT ![e] = blobs[e] \cup {o}]
    BY <1>2 DEF o
  <2>3. \A d \in Env : blobs'[d] = IF d = e THEN blobs[e] \cup {o} ELSE blobs[d]
    <3>1. blobs \in [Env -> SUBSET BlobObject]
      BY DEF TypeInv, TypeOK, EnvTypeOK
    <3> QED
      BY <2>2, <3>1
  <2> QED
    BY <2>1, <2>3
<1>4. \A d \in Env \ {e} : blobs'[d] = blobs[d]
  BY <1>2 DEF TypeInv, TypeOK, EnvTypeOK
<1>5. \A s, r, i, o : Journaled(s, r, i, o)' <=> Journaled(s, r, i, o)
  BY <1>1, UnchangedJournal
<1>6. SessionsOwned'
  BY <1>1, <1>4 DEF IInv, EnvInv, SessionsOwned
<1>7. ObjectsSound'
  BY <1>1, <1>2, <1>3 DEF IInv, EnvInv, ObjectsSound, DbInv, RowsKeyed
<1>8. NoDirtyReads'
  <2>1. \A r \in blob : r.id = c.id => r.visible
    BY <1>2 DEF IInv, DbInv, RowsKeyed
  <2> QED
    BY <1>1, <1>3, <1>5, <2>1 DEF IInv, EnvInv, NoDirtyReads, Added
<1> QED
  BY <1>1, <1>6, <1>7, <1>8, QuietDb DEF IInv, EnvInv

-----------------------------------------------------------------------------
(* Steps that create rows. *)

LEMMA CreateFileSafe ==
  ASSUME TypeInv, IInv, NEW e \in Env, CreateFile(e)
  PROVE  IInv'
<1> DEFINE f == nextId["file"]
           s == sid[e]
           row == [id |-> f, visible |-> FALSE]
<1>0. row.id = f /\ ~row.visible
  OBVIOUS
<1>1. s \in SessionId /\ f \in Nat /\ s # None
  BY SessionIdOfInside, IdsAreNumbers, NoneIsNoSession DEF CreateFile
<1>2. /\ file' = file \cup {row}
      /\ files' = [files EXCEPT ![e] = @ \cup {f}]
      /\ UNCHANGED <<blob, sid, blobs>>
      /\ Log(s, "File", f, "Add")
  BY DEF CreateFile
<1>3. /\ nextId'["file"] = f + 1 /\ nextId'["blob"] = nextId["blob"]
      /\ nextId'["session"] = nextId["session"]
  BY DEF CreateFile, DrawId, TypeInv, TypeOK, DatabaseTypeOK
<1>6. \A d \in Env : files'[d] = IF d = e THEN files[e] \cup {f} ELSE files[d]
  BY <1>2 DEF TypeInv, TypeOK, EnvTypeOK
<1>7. /\ \A t \in SessionId : ~Added(t, "File", f)
      /\ \A g \in file : g.id \in Nat /\ g.id # f
  BY <1>1, IdsAreNumbers DEF IInv, DbInv, RowsKeyed, JournalSound
<1>8. \A b \in blob : b.file # f
  BY <1>7 DEF IInv, DbInv, BlobTableSound
<1>9. \A d \in Env : sid[d] # None => sid[d] \in SessionId
  BY IdsAreNumbers
<1> HIDE DEF row, f, s
<1>4. ASSUME NEW t \in SessionId, NEW r, NEW i, NEW o
      PROVE  Journaled(t, r, i, o)' <=>
               \/ Journaled(t, r, i, o)
               \/ t = s /\ r = "File" /\ i = f /\ o = "Add"
  BY <1>1, <1>2, LogEffect DEF TypeInv, TypeOK, DatabaseTypeOK, Relation, Operation
<1>5. \A t \in SessionId, i \in Nat :
        /\ Added(t, "File", i)' <=> Added(t, "File", i) \/ (t = s /\ i = f)
        /\ Added(t, "Blob", i)' <=> Added(t, "Blob", i)
        /\ \A op \in Operation : Journaled(t, "File", i, op)' =>
             Journaled(t, "File", i, op) \/ op = "Add"
  <2>1. ASSUME NEW t \in SessionId, NEW i \in Nat
        PROVE  /\ Added(t, "File", i)' <=> Added(t, "File", i) \/ (t = s /\ i = f)
               /\ Added(t, "Blob", i)' <=> Added(t, "Blob", i)
    BY <1>4 DEF Added
  <2>2. ASSUME NEW t \in SessionId, NEW i \in Nat, NEW op \in Operation,
               Journaled(t, "File", i, op)'
        PROVE  Journaled(t, "File", i, op) \/ op = "Add"
    BY <1>4, <2>2
  <2> QED
    BY <2>1, <2>2
<1>10. RowsKeyed'
  BY <1>0, <1>1, <1>2, <1>3, <1>7, IdsAreNumbers DEF IInv, DbInv, RowsKeyed, f
<1>11. JournalSound'
  <2>1. \A t \in SessionId, i \in Nat :
          /\ Added(t, "File", i)' => i < nextId'["file"]
          /\ Added(t, "Blob", i)' => i < nextId'["blob"]
          /\ \A op \in Operation : Journaled(t, "File", i, op)' => op = "Add"
    BY <1>1, <1>3, <1>5 DEF IInv, DbInv, JournalSound, f
  <2>2. \A t, u \in SessionId, i \in Nat :
          /\ Added(t, "File", i)' /\ Added(u, "File", i)' => t = u
          /\ Added(t, "Blob", i)' /\ Added(u, "Blob", i)' => t = u
    BY <1>5, <1>7 DEF IInv, DbInv, JournalSound
  <2> QED
    BY <2>1, <2>2 DEF JournalSound
<1>12. RowsPending'
  <2>1. ASSUME NEW g \in file'
        PROVE  ~g.visible <=> \E t \in SessionId : Added(t, "File", g.id)'
    <3>1. CASE g = row
      BY <1>0, <1>1, <1>5, <3>1
    <3>2. CASE g \in file
      <4>1. \A t \in SessionId : Added(t, "File", g.id)' <=> Added(t, "File", g.id)
        <5>1. g.id \in Nat /\ g.id # f
          BY <1>7, <3>2
        <5> QED
          BY <1>5, <5>1
      <4> QED
        BY <3>2, <4>1 DEF IInv, DbInv, RowsPending
    <3> QED
      BY <1>2, <3>1, <3>2
  <2>2. \A b \in blob' : ~b.visible <=> \E t \in SessionId : Added(t, "Blob", b.id)'
    BY <1>2, <1>5, IdsAreNumbers DEF IInv, DbInv, RowsPending
  <2> QED
    BY <2>1, <2>2 DEF RowsPending
<1>13. BlobTableSound'
  BY <1>2 DEF IInv, DbInv, BlobTableSound
<1>14. BlobsOfPendingFiles'
  BY <1>2, <1>5, <1>8, IdsAreNumbers DEF IInv, DbInv, BlobsOfPendingFiles
<1>15. SessionsOwned'
  BY <1>1, <1>2, <1>3, <1>6 DEF IInv, EnvInv, SessionsOwned, s
<1>16. ObjectsSound'
  BY <1>0, <1>2, <1>3, <1>6 DEF IInv, EnvInv, ObjectsSound
<1>17. NoDirtyReads'
  <2>1. ASSUME NEW d \in Env, sid[d] # None, NEW g \in files'[d], NEW r \in file', r.id = g
        PROVE  r.visible \/ Added(sid[d], "File", g)'
    <3>1. CASE g = f
      <4>1. g \notin files[d]
        BY <1>7, <3>1 DEF IInv, EnvInv, ObjectsSound
      <4>2. sid[d] = s
        BY <1>6, <2>1, <4>1 DEF s
      <4> QED
        BY <1>1, <1>2, <1>5, <3>1, <4>2
    <3>2. CASE g # f
      <4>1. g \in files[d] /\ r \in file
        BY <1>0, <1>2, <1>6, <2>1, <3>2
      <4>2. r.visible \/ Added(sid[d], "File", g)
        BY <2>1, <4>1 DEF IInv, EnvInv, NoDirtyReads
      <4> QED
        BY <1>2, <1>5, <1>7, <1>9, <2>1, <4>1, <4>2, IdsAreNumbers
    <3> QED
      BY <3>1, <3>2
  <2>2. ASSUME NEW d \in Env, sid[d] # None, NEW b \in blobs[d], NEW r \in blob, r.id = b.id
        PROVE  r.visible \/ Added(sid[d], "Blob", b.id)'
    BY <1>2, <1>5, <1>9, <2>2, IdsAreNumbers DEF IInv, EnvInv, NoDirtyReads
  <2> QED
    BY <1>2, <2>1, <2>2 DEF NoDirtyReads, Added
<1> QED
  BY <1>10, <1>11, <1>12, <1>13, <1>14, <1>15, <1>16, <1>17 DEF IInv, DbInv, EnvInv

LEMMA AddBlobSafe ==
  ASSUME TypeInv, IInv, NEW e \in Env, NEW f \in files[e], NEW n \in Name,
         AddBlob(e, f, n)
  PROVE  IInv'
<1> DEFINE id == nextId["blob"]
           s == sid[e]
           row == [id |-> id, file |-> f, name |-> n, visible |-> FALSE]
           object == [file |-> f, id |-> id, name |-> n, removed |-> FALSE]
<1>0. /\ row.id = id /\ row.file = f /\ row.name = n /\ ~row.visible
      /\ object.id = id
  OBVIOUS
<1>1. s \in SessionId /\ id \in Nat /\ f \in Nat /\ s # None
  BY SessionIdOfInside, IdsAreNumbers, NoneIsNoSession DEF AddBlob
<1>2. /\ blob' = blob \cup {row}
      /\ blobs' = [blobs EXCEPT ![e] = @ \cup {object}]
      /\ UNCHANGED <<file, sid, files>>
      /\ Log(s, "Blob", id, "Add")
      /\ ~NameTaken(f, n)
  BY DEF AddBlob
<1>3. /\ nextId'["blob"] = id + 1 /\ nextId'["file"] = nextId["file"]
      /\ nextId'["session"] = nextId["session"]
  BY DEF AddBlob, DrawId, TypeInv, TypeOK, DatabaseTypeOK
<1> HIDE DEF row, object
<1>4. \A d \in Env : blobs'[d] =
        IF d = e THEN blobs[e] \cup {object} ELSE blobs[d]
  BY <1>2 DEF TypeInv, TypeOK, EnvTypeOK
<1>5. /\ \A t \in SessionId : ~Added(t, "Blob", id)
      /\ \A b \in blob : b.id \in Nat /\ b.file \in Nat /\ b.id # id
      /\ \A d \in Env : \A b \in blobs[d] : b.id \in Nat /\ b.id # id
  BY <1>1, IdsAreNumbers
     DEF IInv, DbInv, EnvInv, RowsKeyed, JournalSound, ObjectsSound
<1>6. PICK r \in file : r.id = f
  BY DEF IInv, EnvInv, ObjectsSound
\* The file is committed or this session's own.
<1>7. ASSUME NEW t \in SessionId, Added(t, "File", f)
      PROVE  t = s
  <2>1. ~r.visible
    BY <1>6, <1>7 DEF IInv, DbInv, RowsPending
  <2>2. Added(s, "File", f)
    BY <1>1, <1>6, <2>1 DEF IInv, EnvInv, NoDirtyReads
  <2> QED
    BY <1>1, <1>7, <2>2 DEF IInv, DbInv, JournalSound
<1>8. \A d \in Env : sid[d] # None => sid[d] \in SessionId
  BY IdsAreNumbers
<1>9. RowsKeyed'
  BY <1>0, <1>1, <1>2, <1>3, <1>5, IdsAreNumbers DEF IInv, DbInv, RowsKeyed
<1>10. BlobTableSound'
  <2>1. \A b, c \in blob' : b.file = c.file /\ b.name = c.name => b = c
    BY <1>0, <1>2 DEF IInv, DbInv, BlobTableSound, NameTaken
  <2>2. \A b \in blob' : \E g \in file' : g.id = b.file
    BY <1>0, <1>2, <1>6 DEF IInv, DbInv, BlobTableSound
  <2> QED
    BY <2>1, <2>2 DEF BlobTableSound
<1>11. SessionsOwned'
  BY <1>1, <1>2, <1>3, <1>4 DEF IInv, EnvInv, SessionsOwned
<1>12. ObjectsSound'
  BY <1>0, <1>1, <1>2, <1>3, <1>4, IdsAreNumbers DEF IInv, EnvInv, ObjectsSound
<1> HIDE DEF id, s
<1>13. ASSUME NEW t \in SessionId, NEW r1, NEW i, NEW o
       PROVE  Journaled(t, r1, i, o)' <=>
                \/ Journaled(t, r1, i, o)
                \/ t = s /\ r1 = "Blob" /\ i = id /\ o = "Add"
  <2>1. journal \in [SessionId -> Seq(JournalRow)]
    BY DEF TypeInv, TypeOK, DatabaseTypeOK
  <2>2. "Blob" \in Relation /\ "Add" \in Operation
    BY DEF Relation, Operation
  <2> QED
    BY <1>1, <1>2, <2>1, <2>2, LogEffect
<1>14. \A t \in SessionId, i \in Nat :
         /\ Added(t, "Blob", i)' <=> Added(t, "Blob", i) \/ (t = s /\ i = id)
         /\ Added(t, "File", i)' <=> Added(t, "File", i)
         /\ \A op \in Operation :
              Journaled(t, "File", i, op)' <=> Journaled(t, "File", i, op)
  <2>1. ASSUME NEW t \in SessionId, NEW i \in Nat
        PROVE  /\ Added(t, "Blob", i)' <=> Added(t, "Blob", i) \/ (t = s /\ i = id)
               /\ Added(t, "File", i)' <=> Added(t, "File", i)
    BY <1>13 DEF Added
  <2>2. ASSUME NEW t \in SessionId, NEW i \in Nat, NEW op \in Operation
        PROVE  Journaled(t, "File", i, op)' <=> Journaled(t, "File", i, op)
    BY <1>13
  <2> QED
    BY <2>1, <2>2
<1>15. JournalSound'
  <2>1. \A t \in SessionId, i \in Nat :
          /\ Added(t, "File", i)' => i < nextId'["file"]
          /\ Added(t, "Blob", i)' => i < nextId'["blob"]
          /\ \A op \in Operation : Journaled(t, "File", i, op)' => op = "Add"
    BY <1>1, <1>3, <1>14 DEF IInv, DbInv, JournalSound, id
  <2>2. \A t, u \in SessionId, i \in Nat :
          /\ Added(t, "File", i)' /\ Added(u, "File", i)' => t = u
          /\ Added(t, "Blob", i)' /\ Added(u, "Blob", i)' => t = u
    BY <1>5, <1>14 DEF IInv, DbInv, JournalSound
  <2> QED
    BY <2>1, <2>2 DEF JournalSound
<1>16. RowsPending'
  <2>1. ASSUME NEW b \in blob'
        PROVE  ~b.visible <=> \E t \in SessionId : Added(t, "Blob", b.id)'
    <3>1. CASE b = row
      BY <1>0, <1>1, <1>14, <3>1
    <3>2. CASE b \in blob
      <4>1. b.id \in Nat /\ b.id # id
        BY <1>5, <3>2
      <4>2. \A t \in SessionId : Added(t, "Blob", b.id)' <=> Added(t, "Blob", b.id)
        BY <1>14, <4>1
      <4> QED
        BY <3>2, <4>2 DEF IInv, DbInv, RowsPending
    <3> QED
      BY <1>2, <3>1, <3>2
  <2>2. \A g \in file' : ~g.visible <=> \E t \in SessionId : Added(t, "File", g.id)'
    BY <1>2, <1>14, IdsAreNumbers DEF IInv, DbInv, RowsPending
  <2> QED
    BY <2>1, <2>2 DEF RowsPending
<1>17. BlobsOfPendingFiles'
  <2>1. ASSUME NEW b \in blob', NEW t \in SessionId, Added(t, "File", b.file)'
        PROVE  Added(t, "Blob", b.id)'
    <3>1. CASE b = row
      <4>1. Added(t, "File", f)
        BY <1>0, <1>1, <1>14, <2>1, <3>1
      <4>2. t = s
        BY <1>7, <4>1
      <4> QED
        BY <1>0, <1>1, <1>14, <3>1, <4>2
    <3>2. CASE b \in blob
      <4>1. b.id \in Nat /\ b.file \in Nat
        BY <1>5, <3>2
      <4>2. Added(t, "Blob", b.id)
        BY <1>14, <2>1, <3>2, <4>1 DEF IInv, DbInv, BlobsOfPendingFiles
      <4> QED
        BY <1>14, <4>1, <4>2
    <3> QED
      BY <1>2, <3>1, <3>2
  <2> QED
    BY <2>1 DEF BlobsOfPendingFiles
<1>18. NoDirtyReads'
  <2>1. ASSUME NEW d \in Env, sid[d] # None, NEW b \in blobs'[d], NEW q \in blob',
               q.id = b.id
        PROVE  q.visible \/ Added(sid[d], "Blob", b.id)'
    <3>1. CASE b \in blobs[d]
      <4>1. b.id \in Nat /\ q \in blob
        BY <1>0, <1>2, <1>5, <2>1, <3>1
      <4>2. q.visible \/ Added(sid[d], "Blob", b.id)
        BY <2>1, <3>1, <4>1 DEF IInv, EnvInv, NoDirtyReads
      <4> QED
        BY <1>2, <1>8, <1>14, <2>1, <4>1, <4>2
    <3>2. CASE b \notin blobs[d]
      <4>1. d = e /\ b = object
        BY <1>4, <2>1, <3>2
      <4> QED
        BY <1>0, <1>1, <1>2, <1>14, <4>1 DEF s
    <3> QED
      BY <3>1, <3>2
  <2>2. ASSUME NEW d \in Env, sid[d] # None, NEW g \in files[d], NEW q \in file,
               q.id = g
        PROVE  q.visible \/ Added(sid[d], "File", g)'
    BY <1>2, <1>8, <1>14, <2>2, IdsAreNumbers DEF IInv, EnvInv, NoDirtyReads
  <2> QED
    BY <1>2, <2>1, <2>2 DEF NoDirtyReads, Added
<1> QED
  BY <1>9, <1>10, <1>11, <1>12, <1>15, <1>16, <1>17, <1>18 DEF IInv, DbInv, EnvInv

-----------------------------------------------------------------------------
(* The second transaction of a commit. *)

LEMMA PublishSafe ==
  ASSUME TypeInv, IInv, NEW e \in Env, Publish(e)
  PROVE  IInv'
<1> DEFINE s == sid[e]
           Shown(relation, r) ==
             IF Added(s, relation, r.id) THEN [r EXCEPT !.visible = TRUE] ELSE r
           kept == { b \in blob : ~RemovedBy(s, b) }
<1>1. s \in SessionId
  BY SessionIdOfInside DEF Publish
<1>2. /\ file \in SUBSET FileRow /\ blob \in SUBSET BlobRow
      /\ journal \in [SessionId -> Seq(JournalRow)]
  BY DEF TypeInv, TypeOK, DatabaseTypeOK
<1>3. /\ file' = { Shown("File", r) : r \in file }
      /\ blob' = { Shown("Blob", r) : r \in kept }
      /\ journal' = FlushedJournal(s)
      /\ UNCHANGED <<nextId, sid, files, blobs>>
  BY DEF Publish, MadeVisible, Added
<1>4. ASSUME NEW t \in SessionId, NEW r, NEW i, NEW o
      PROVE  Journaled(t, r, i, o)' <=> t # s /\ Journaled(t, r, i, o)
  BY <1>1, <1>2, <1>3, FlushEffect
<1>5. \A r \in FileRow :
        /\ Shown("File", r).id = r.id
        /\ Shown("File", r).visible <=> r.visible \/ Added(s, "File", r.id)
  BY DEF FileRow
<1>6. \A r \in BlobRow :
        /\ Shown("Blob", r).id = r.id
        /\ Shown("Blob", r).file = r.file
        /\ Shown("Blob", r).name = r.name
        /\ Shown("Blob", r).visible <=> r.visible \/ Added(s, "Blob", r.id)
  BY DEF BlobRow
<1>7. kept \subseteq blob
  OBVIOUS
<1> HIDE DEF Shown, kept
<1>8. \A g \in file' : \E r \in file :
        /\ g = Shown("File", r) /\ g.id = r.id
        /\ g.visible <=> r.visible \/ Added(s, "File", r.id)
  BY <1>2, <1>3, <1>5
<1>9. \A b \in blob' : \E r \in blob :
        /\ b = Shown("Blob", r) /\ b.id = r.id /\ b.file = r.file /\ b.name = r.name
        /\ b.visible <=> r.visible \/ Added(s, "Blob", r.id)
  BY <1>2, <1>3, <1>6, <1>7
<1>10. \A r \in file : \E g \in file' : g.id = r.id
  BY <1>2, <1>3, <1>5
<1>11. \A t \in SessionId, i \in Nat :
         /\ Added(t, "File", i)' <=> (t # s /\ Added(t, "File", i))
         /\ Added(t, "Blob", i)' <=> (t # s /\ Added(t, "Blob", i))
         /\ \A op \in Operation :
              Journaled(t, "File", i, op)' => Journaled(t, "File", i, op)
  BY <1>4 DEF Added
<1>12. \A d \in Env : sid[d] # None => sid[d] \in SessionId
  BY IdsAreNumbers
<1>13. RowsKeyed'
  <2>1. \A g \in file' : g.id < nextId'["file"]
    BY <1>3, <1>8 DEF IInv, DbInv, RowsKeyed
  <2>2. \A b \in blob' : b.id < nextId'["blob"]
    BY <1>3, <1>9 DEF IInv, DbInv, RowsKeyed
  <2>3. \A g, h \in file' : g.id = h.id => g = h
    BY <1>8 DEF IInv, DbInv, RowsKeyed
  <2>4. \A b, c \in blob' : b.id = c.id => b = c
    BY <1>9 DEF IInv, DbInv, RowsKeyed
  <2> QED
    BY <2>1, <2>2, <2>3, <2>4 DEF RowsKeyed
<1>14. JournalSound'
  BY <1>3, <1>11 DEF IInv, DbInv, JournalSound
<1>15. RowsPending'
  <2>1. ASSUME NEW g \in file'
        PROVE  ~g.visible <=> \E t \in SessionId : Added(t, "File", g.id)'
    <3>1. PICK r \in file :
            g.id = r.id /\ (g.visible <=> r.visible \/ Added(s, "File", r.id))
      BY <1>8
    <3>2. r.id \in Nat
      BY IdsAreNumbers
    <3> QED
      BY <1>1, <1>11, <3>1, <3>2 DEF IInv, DbInv, RowsPending, JournalSound
  <2>2. ASSUME NEW b \in blob'
        PROVE  ~b.visible <=> \E t \in SessionId : Added(t, "Blob", b.id)'
    <3>1. PICK r \in blob :
            b.id = r.id /\ (b.visible <=> r.visible \/ Added(s, "Blob", r.id))
      BY <1>9
    <3>2. r.id \in Nat
      BY IdsAreNumbers
    <3> QED
      BY <1>1, <1>11, <3>1, <3>2 DEF IInv, DbInv, RowsPending, JournalSound
  <2> QED
    BY <2>1, <2>2 DEF RowsPending
<1>16. BlobTableSound'
  <2>1. \A b, c \in blob' : b.file = c.file /\ b.name = c.name => b = c
    BY <1>9 DEF IInv, DbInv, BlobTableSound
  <2>2. \A b \in blob' : \E g \in file' : g.id = b.file
    BY <1>9, <1>10 DEF IInv, DbInv, BlobTableSound
  <2> QED
    BY <2>1, <2>2 DEF BlobTableSound
<1>17. BlobsOfPendingFiles'
  BY <1>9, <1>11, IdsAreNumbers DEF IInv, DbInv, BlobsOfPendingFiles
<1>18. SessionsOwned'
  BY <1>3 DEF IInv, EnvInv, SessionsOwned
<1>19. ObjectsSound'
  BY <1>3, <1>10 DEF IInv, EnvInv, ObjectsSound
<1>20. NoDirtyReads'
  <2>1. ASSUME NEW d \in Env, sid[d] # None, NEW f \in files[d], NEW g \in file', g.id = f
        PROVE  g.visible \/ Added(sid[d], "File", f)'
    <3>1. PICK r \in file :
            g.id = r.id /\ (g.visible <=> r.visible \/ Added(s, "File", r.id))
      BY <1>8
    <3>2. r.visible \/ Added(sid[d], "File", f)
      BY <2>1, <3>1 DEF IInv, EnvInv, NoDirtyReads
    <3>3. f \in Nat
      BY IdsAreNumbers
    <3> QED
      BY <1>3, <1>11, <1>12, <2>1, <3>1, <3>2, <3>3
  <2>2. ASSUME NEW d \in Env, sid[d] # None, NEW b \in blobs[d], NEW q \in blob', q.id = b.id
        PROVE  q.visible \/ Added(sid[d], "Blob", b.id)'
    <3>1. PICK r \in blob :
            q.id = r.id /\ (q.visible <=> r.visible \/ Added(s, "Blob", r.id))
      BY <1>9
    <3>2. r.visible \/ Added(sid[d], "Blob", b.id)
      BY <2>2, <3>1 DEF IInv, EnvInv, NoDirtyReads
    <3>3. b.id \in Nat
      BY IdsAreNumbers
    <3> QED
      BY <1>3, <1>11, <1>12, <2>2, <3>1, <3>2, <3>3
  <2> QED
    BY <1>3, <2>1, <2>2 DEF NoDirtyReads, Added
<1> QED
  BY <1>13, <1>14, <1>15, <1>16, <1>17, <1>18, <1>19, <1>20 DEF IInv, DbInv, EnvInv

-----------------------------------------------------------------------------
(* The transaction of a rollback. *)

LEMMA RollbackRowsSafe ==
  ASSUME TypeInv, IInv, NEW e \in Env, RollbackRows(e)
  PROVE  IInv'
<1> DEFINE s == sid[e]
<1>1. s \in SessionId /\ s # None
  BY SessionIdOfInside, NoneIsNoSession DEF RollbackRows
<1>2. /\ file' = { f \in file : ~RolledBack(s, "File", f.id) }
      /\ blob' = { b \in blob : /\ ~RolledBack(s, "Blob", b.id)
                                /\ ~RolledBack(s, "Metadata", b.id) }
      /\ journal' = FlushedJournal(s)
      /\ UNCHANGED <<nextId, files, blobs>>
      /\ sid' = [sid EXCEPT ![e] = None]
      /\ files[e] = {} /\ blobs[e] = {}
  BY DEF RollbackRows
<1>3. ASSUME NEW t \in SessionId, NEW r, NEW i, NEW o
      PROVE  Journaled(t, r, i, o)' <=> t # s /\ Journaled(t, r, i, o)
  <2>1. journal \in [SessionId -> Seq(JournalRow)]
    BY DEF TypeInv, TypeOK, DatabaseTypeOK
  <2> QED
    BY <1>1, <1>2, <2>1, FlushEffect
<1>4. \A t \in SessionId, i \in Nat :
        /\ Added(t, "File", i)' <=> (t # s /\ Added(t, "File", i))
        /\ Added(t, "Blob", i)' <=> (t # s /\ Added(t, "Blob", i))
        /\ \A op \in Operation :
             Journaled(t, "File", i, op)' => Journaled(t, "File", i, op)
  BY <1>3 DEF Added
\* What is left was not created by this session, and of files only those go
\* that it has created.
<1>5. /\ file' \subseteq file /\ blob' \subseteq blob
      /\ \A f \in file' : ~Added(s, "File", f.id)
      /\ \A b \in blob' : ~Added(s, "Blob", b.id)
      /\ \A f \in file \ file' : Added(s, "File", f.id)
  <2>1. \A f \in file \ file' : Added(s, "File", f.id)
    <3> SUFFICES ASSUME NEW f \in file \ file' PROVE Added(s, "File", f.id)
      OBVIOUS
    <3>1. PICK op \in Operation : Journaled(s, "File", f.id, op)
      BY <1>2 DEF RolledBack
    <3>2. f.id \in Nat
      BY IdsAreNumbers
    <3>3. op = "Add"
      BY <1>1, <3>1, <3>2 DEF IInv, DbInv, JournalSound
    <3> QED
      BY <3>1, <3>3 DEF Added
  <2>2. \A f \in file' : ~Added(s, "File", f.id)
    BY <1>2 DEF RolledBack, Added, Operation
  <2>3. \A b \in blob' : ~Added(s, "Blob", b.id)
    BY <1>2 DEF RolledBack, Added, Operation
  <2> QED
    BY <1>2, <2>1, <2>2, <2>3
<1>6. /\ \A d \in Env : d # e => sid'[d] = sid[d]
      /\ sid'[e] = None
  BY <1>2 DEF TypeInv, TypeOK, EnvTypeOK
<1>7. \A d \in Env : d # e /\ sid[d] # None => sid[d] \in SessionId /\ sid[d] # s
  BY <1>1, IdsAreNumbers DEF IInv, EnvInv, SessionsOwned
<1> HIDE DEF s
<1>8. RowsKeyed'
  BY <1>2, <1>5 DEF IInv, DbInv, RowsKeyed
<1>9. JournalSound'
  BY <1>2, <1>4 DEF IInv, DbInv, JournalSound
<1>10. RowsPending'
  <2>1. \A f \in file' : ~f.visible <=> \E t \in SessionId : Added(t, "File", f.id)'
    BY <1>4, <1>5, IdsAreNumbers DEF IInv, DbInv, RowsPending
  <2>2. \A b \in blob' : ~b.visible <=> \E t \in SessionId : Added(t, "Blob", b.id)'
    BY <1>4, <1>5, IdsAreNumbers DEF IInv, DbInv, RowsPending
  <2> QED
    BY <2>1, <2>2 DEF RowsPending
<1>11. BlobTableSound'
  <2>1. \A b, c \in blob' : b.file = c.file /\ b.name = c.name => b = c
    BY <1>5 DEF IInv, DbInv, BlobTableSound
  <2>2. ASSUME NEW b \in blob' PROVE \E f \in file' : f.id = b.file
    <3>1. PICK f \in file : f.id = b.file
      BY <1>5 DEF IInv, DbInv, BlobTableSound
    <3>2. ~Added(s, "File", b.file)
      BY <1>1, <1>5 DEF IInv, DbInv, BlobsOfPendingFiles
    <3>3. f \in file'
      BY <1>5, <3>1, <3>2
    <3> QED
      BY <3>1, <3>3
  <2> QED
    BY <2>1, <2>2 DEF BlobTableSound
<1>12. BlobsOfPendingFiles'
  BY <1>4, <1>5, IdsAreNumbers DEF IInv, DbInv, BlobsOfPendingFiles
<1>13. SessionsOwned'
  BY <1>2, <1>6 DEF IInv, EnvInv, SessionsOwned
<1>14. ObjectsSound'
  <2>1. ASSUME NEW d \in Env, NEW f \in files[d] PROVE \E r \in file' : r.id = f
    <3>1. PICK r \in file : r.id = f
      BY DEF IInv, EnvInv, ObjectsSound
    <3>2. d # e /\ sid[d] # None /\ f \in Nat
      BY <1>2, <2>1, IdsAreNumbers DEF IInv, EnvInv, SessionsOwned
    <3>3. r \in file'
      <4> SUFFICES ASSUME r \notin file' PROVE FALSE
        OBVIOUS
      <4>1. Added(s, "File", r.id)
        BY <1>5, <3>1
      <4>2. ~r.visible
        BY <1>1, <4>1 DEF IInv, DbInv, RowsPending
      <4>3. Added(sid[d], "File", f)
        BY <3>1, <3>2, <4>2 DEF IInv, EnvInv, NoDirtyReads
      <4> QED
        BY <1>1, <1>7, <3>1, <3>2, <4>1, <4>3 DEF IInv, DbInv, JournalSound
    <3> QED
      BY <3>1, <3>3
  <2>2. \A d \in Env : \A b \in blobs[d] : b.id < nextId["blob"]
    BY DEF IInv, EnvInv, ObjectsSound
  <2> QED
    BY <1>2, <2>1, <2>2 DEF ObjectsSound
<1>15. NoDirtyReads'
  <2>1. ASSUME NEW d \in Env, d # e, sid[d] # None
        PROVE  /\ \A f \in files[d], r \in file' :
                    r.id = f => r.visible \/ Added(sid[d], "File", f)'
               /\ \A b \in blobs[d], r \in blob' :
                    r.id = b.id => r.visible \/ Added(sid[d], "Blob", b.id)'
    <3>1. sid'[d] = sid[d] /\ sid[d] \in SessionId /\ sid[d] # s
      BY <1>6, <1>7, <2>1
    <3>2. ASSUME NEW f \in files[d], NEW r \in file', r.id = f
          PROVE  r.visible \/ Added(sid[d], "File", f)'
      BY <1>4, <1>5, <2>1, <3>1, <3>2, IdsAreNumbers DEF IInv, EnvInv, NoDirtyReads
    <3>3. ASSUME NEW b \in blobs[d], NEW r \in blob', r.id = b.id
          PROVE  r.visible \/ Added(sid[d], "Blob", b.id)'
      BY <1>4, <1>5, <2>1, <3>1, <3>3, IdsAreNumbers DEF IInv, EnvInv, NoDirtyReads
    <3> QED
      BY <3>2, <3>3
  <2> QED
    BY <1>2, <1>6, <2>1 DEF NoDirtyReads, Added
<1> QED
  BY <1>8, <1>9, <1>10, <1>11, <1>12, <1>13, <1>14, <1>15 DEF IInv, DbInv, EnvInv

-----------------------------------------------------------------------------
(* All steps. *)

LEMMA CommandSafe ==
  ASSUME TypeInv, IInv, NEW e \in Env, Command(e)
  PROVE  IInv'
<1>0. /\ nextId \in [{"session", "file", "blob", "metadata"} -> Nat]
      /\ blobs \in [Env -> SUBSET BlobObject]
  BY DEF TypeInv, TypeOK, DatabaseTypeOK, EnvTypeOK
<1>1. CASE StartSession(e)
  BY <1>1, StartSessionSafe
<1>2. CASE CreateFile(e)
  BY <1>2, CreateFileSafe
<1>3. ASSUME NEW f, GetFile(e, f)
      PROVE  IInv'
  BY <1>3, GetFileSafe
<1>4. ASSUME NEW f \in files[e], NEW n \in Name, GetBlob(e, f, n)
      PROVE  IInv'
  BY <1>4, GetBlobSafe
<1>5. ASSUME NEW f \in files[e], NEW n \in Name, AddBlob(e, f, n)
      PROVE  IInv'
  BY <1>5, AddBlobSafe
<1>6. ASSUME NEW b \in blobs[e], RemoveBlob(e, b)
      PROVE  IInv'
  <2>1. sid[e] \in SessionId /\ b.id \in Nat /\ b \in BlobObject
    BY <1>0, <1>6, SessionIdOfInside, IdsAreNumbers DEF RemoveBlob
  <2>2. /\ UNCHANGED <<file, blob, nextId, sid, files>>
        /\ Log(sid[e], "Blob", b.id, "Remove")
    BY <1>6 DEF RemoveBlob
  <2>3. Quiet
    <3>1. "Blob" \in Relation /\ "Remove" \in Operation /\ "Remove" # "Add"
      BY DEF Relation, Operation
    <3> QED
      BY <2>1, <2>2, <3>1, LogQuiet
  <2> DEFINE c == [b EXCEPT !.removed = TRUE]
  <2>4. c.id = b.id
    BY <2>1 DEF BlobObject
  <2> HIDE DEF c
  <2>5. blobs' = [blobs EXCEPT ![e] = (@ \ {b}) \cup {c}]
    BY <1>6 DEF RemoveBlob, c
  <2>6. \A d \in Env : \A o \in blobs'[d] : \E p \in blobs[d] : p.id = o.id
    BY <1>0, <2>4, <2>5
  <2>7. Letting
    BY <2>2, <2>6 DEF Letting
  <2> QED
    BY <2>3, <2>7, QuietLetting
<1>7. ASSUME NEW b \in blobs[e], StoreBlob(e, b)
      PROVE  IInv'
  <2>1. sid[e] \in SessionId /\ b.id \in Nat
    BY <1>7, SessionIdOfInside, IdsAreNumbers DEF StoreBlob
  <2>2. /\ UNCHANGED <<file, blob, nextId, sid, files, blobs>>
        /\ Log(sid[e], "Blob", b.id, "Store")
    BY <1>7 DEF StoreBlob
  <2>3. Quiet
    <3>1. "Blob" \in Relation /\ "Store" \in Operation /\ "Store" # "Add"
      BY DEF Relation, Operation
    <3> QED
      BY <2>1, <2>2, <3>1, LogQuiet
  <2> QED
    BY <2>2, <2>3, QuietLetting DEF Letting
<1>8. ASSUME NEW b \in blobs[e], NEW object, AddTriple(e, b, object)
      PROVE  IInv'
  <2>1. sid[e] \in SessionId /\ nextId["metadata"] \in Nat
    BY <1>0, <1>8, SessionIdOfInside DEF AddTriple
  <2>2. /\ UNCHANGED <<file, blob, sid, files, blobs>>
        /\ nextId'["file"] = nextId["file"] /\ nextId'["blob"] = nextId["blob"]
        /\ nextId'["session"] = nextId["session"]
        /\ Log(sid[e], "Metadata", nextId["metadata"], "Add")
    BY <1>0, <1>8 DEF AddTriple, DrawId
  <2>3. Quiet
    <3>1. "Metadata" \in Relation /\ "Add" \in Operation
      BY DEF Relation, Operation
    <3> QED
      BY <2>1, <2>2, <3>1, LogQuiet
  <2> QED
    BY <2>2, <2>3, QuietLetting DEF Letting
<1>9. ASSUME NEW level \in UseLevels, CommitPasses(e, level)
      PROVE  IInv'
  BY <1>9, StillQuiet, QuietLetting DEF CommitPasses, Letting
<1>10. ASSUME NEW level \in UseLevels, CommitRejected(e, level)
       PROVE  IInv'
  BY <1>10, StillQuiet, QuietLetting DEF CommitRejected, envVars, Letting
<1>11. CASE Rollback(e)
  BY <1>11, StillQuiet, QuietLetting DEF Rollback, dbVars, Letting
<1>12. CASE Exit(e)
  BY <1>12, StillQuiet, QuietLetting DEF Exit, dbVars, Letting
<1>13. CASE CleanSessions(e)
  BY <1>13, StillQuiet, QuietLetting DEF CleanSessions, envVars, Letting
<1> QED
  BY <1>1, <1>2, <1>3, <1>4, <1>5, <1>6, <1>7, <1>8, <1>9, <1>10, <1>11, <1>12,
     <1>13 DEF Command

LEMMA ContinueSafe ==
  ASSUME TypeInv, IInv, NEW e \in Env, Continue(e)
  PROVE  IInv'
<1>0. /\ sid \in [Env -> SessionId \cup {None}]
      /\ files \in [Env -> SUBSET Nat]
      /\ blobs \in [Env -> SUBSET BlobObject]
      /\ journal \in [SessionId -> Seq(JournalRow)]
  BY DEF TypeInv, TypeOK, DatabaseTypeOK, EnvTypeOK
<1>1. CASE ApplySelect(e)
  BY <1>1, StillQuiet, QuietLetting DEF ApplySelect, dbVars, Letting
<1>2. CASE ApplyRow(e)
  <2>1. sid[e] \in SessionId
    BY <1>2, SessionIdOfInside DEF ApplyRow
  <2>2. PICK i \in todo[e] : journal' = [journal EXCEPT ![sid[e]][i].executed = TRUE]
    BY <1>2 DEF ApplyRow
  <2>3. \A t \in SessionId : \A r, k, o : Journaled(t, r, k, o)' <=> Journaled(t, r, k, o)
    BY <1>0, <2>1, <2>2, ExecuteEffect
  <2>4. UNCHANGED <<file, blob, nextId, sid, files, blobs>>
    BY <1>2 DEF ApplyRow
  <2>5. Quiet
    BY <2>3, <2>4 DEF Quiet, Added
  <2> QED
    BY <2>4, <2>5, QuietLetting DEF Letting
<1>3. CASE Publish(e)
  BY <1>3, PublishSafe
<1>4. CASE Finish(e)
  BY <1>4, StillQuiet, QuietLetting DEF Finish, dbVars, Letting
<1>5. CASE CommitEnd(e)
  BY <1>0, <1>5, StillQuiet, QuietLetting DEF CommitEnd, dbVars, Letting
<1>6. ASSUME NEW f \in files[e], CloseFile(e, f)
      PROVE  IInv'
  BY <1>0, <1>6, StillQuiet, QuietLetting DEF CloseFile, Letting
<1>7. ASSUME NEW b \in blobs[e], CloseBlob(e, b)
      PROVE  IInv'
  BY <1>0, <1>7, StillQuiet, QuietLetting DEF CloseBlob, Letting
<1>8. CASE RollbackRows(e)
  BY <1>8, RollbackRowsSafe
<1>9. CASE ExitEnd(e)
  BY <1>0, <1>9, StillQuiet, QuietLetting DEF ExitEnd, dbVars, Letting
<1>10. CASE CloseReplaced(e)
  BY <1>0, <1>10, StillQuiet, QuietLetting DEF CloseReplaced, Letting
<1> QED
  BY <1>1, <1>2, <1>3, <1>4, <1>5, <1>6, <1>7, <1>8, <1>9, <1>10 DEF Continue

LEMMA FaultSafe ==
  ASSUME TypeInv, IInv, NEW e \in Env, Fault(e)
  PROVE  IInv'
<1>0. /\ sid \in [Env -> SessionId \cup {None}]
      /\ files \in [Env -> SUBSET Nat]
      /\ blobs \in [Env -> SUBSET BlobObject]
  BY DEF TypeInv, TypeOK, EnvTypeOK
<1>1. ASSUME NEW f, GetFileThrows(e, f)
      PROVE  IInv'
  BY <1>1, StillQuiet, QuietLetting DEF GetFileThrows, dbVars, Letting
<1>2. ASSUME NEW b, StoreBlobThrows(e, b)
      PROVE  IInv'
  BY <1>2, StillQuiet, QuietLetting DEF StoreBlobThrows, dbVars, Letting
<1>3. CASE CommitThrows(e)
  BY <1>3, StillQuiet, QuietLetting DEF CommitThrows, dbVars, Letting
<1>4. CASE FinishThrows(e)
  BY <1>4, StillQuiet, QuietLetting DEF FinishThrows, dbVars, Letting
<1>5. CASE RollbackThrows(e)
  BY <1>5, StillQuiet, QuietLetting DEF RollbackThrows, dbVars, Letting
<1>6. CASE Crash(e)
  BY <1>0, <1>6, StillQuiet, QuietLetting DEF Crash, dbVars, Letting
<1> QED
  BY <1>1, <1>2, <1>3, <1>4, <1>5, <1>6 DEF Fault

\* The invariant holds in every reachable state.
THEOREM Invariant == Spec => [](TypeInv /\ IInv)
<1>1. TypeInv /\ IInv /\ [Next]_vars => IInv'
  <2> SUFFICES ASSUME TypeInv, IInv, [Next]_vars PROVE IInv'
    OBVIOUS
  <2>1. ASSUME NEW e \in Env, Command(e) \/ Continue(e) \/ Fault(e)
        PROVE  IInv'
    BY <2>1, CommandSafe, ContinueSafe, FaultSafe
  <2>2. CASE UNCHANGED vars
    BY <2>2, StillQuiet, QuietLetting DEF vars, dbVars, envVars, Letting
  <2> QED
    BY <2>1, <2>2 DEF Next
<1> QED
  BY <1>1, InitSafe, TypeCorrect, PTL DEF Spec

-----------------------------------------------------------------------------
(* What it is for. *)

\* Rows of file and blob are invisible exactly while one session, and one only,
\* has their creation in its journal (commitSession steps 1, 2 and 6 against
\* rollbackSession, under exceptions and crashes anywhere between).
THEOREM PendingExactlyHolds == Spec => []PendingExactly
<1>1. TypeInv /\ IInv => PendingExactly
  BY IdsAreNumbers DEF IInv, DbInv, RowsPending, JournalSound, PendingExactly
<1> QED
  BY <1>1, Invariant, PTL

\* Names are unique within a file and every blob has its file, which the schema
\* says in comments and does not enforce (schema.sql:23 and 28).
THEOREM BlobTableSoundHolds == Spec => []BlobTableSound
<1>1. IInv => BlobTableSound
  BY DEF IInv, DbInv
<1> QED
  BY <1>1, Invariant, PTL

\* No session holds an object for a row another has created and not committed
\* (File::ensureFile and File::getBlob).
THEOREM NoDirtyReadsHolds == Spec => []NoDirtyReads
<1>1. IInv => NoDirtyReads
  BY DEF IInv, EnvInv
<1> QED
  BY <1>1, Invariant, PTL
=============================================================================

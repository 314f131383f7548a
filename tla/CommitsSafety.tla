---------------------------- MODULE CommitsSafety ---------------------------
(***************************************************************************)
(* What a commit has checked holds until it publishes, what was stored is  *)
(* journaled, and the sessions implement SessionStore, where nobody rolls  *)
(* back.  A rollback deletes blobs other sessions use, without the lock.   *)
(***************************************************************************)
EXTENDS HandlesSafety, SessionRefinement

\* Nobody is inside a rollback, and VFS::modified is empty outside of sessions.
NeverRollingBack == \A e \in Env : pc[e] # "rollback"

ModifiedInSession ==
  \A e \in Env : sid[e] = None \/ pc[e] = "clear" => modified[e] = {}

\* What a session changes or describes it sees: its row is committed or its own.
SeenBy(s, id) == \A r \in blob : r.id = id => r.visible \/ Added(s, "Blob", id)

ChangesSeen ==
  \A s \in SessionId :
    /\ \A id \in Nat, op \in Operation : Journaled(s, "Blob", id, op) => SeenBy(s, id)
    /\ \A m \in metadata : Added(s, "Metadata", m.id) =>
         SeenBy(s, m.blob) /\ (m.object # None => SeenBy(s, m.object))

\* Triples are only ever added, each by one session.
TriplesAdded ==
  /\ \A s \in SessionId, id \in Nat, op \in Operation :
       Journaled(s, "Metadata", id, op) => op = "Add"
  /\ \A s, t \in SessionId, id \in Nat :
       Added(s, "Metadata", id) /\ Added(t, "Metadata", id) => s = t

\* The counters stay within the bounds.
CountersBounded ==
  /\ nextId["file"] <= Largest(SeedFiles, MaxFile)
  /\ nextId["blob"] <= Largest(Len(SeedBlobs), MaxBlob)
  /\ nextId["metadata"] <= MaxTriple

-----------------------------------------------------------------------------
(* What a step leaves. *)

\* Journal rows stay until their session is published or rolled back.
LEMMA JournalStays ==
  ASSUME TypeInv, NEW e \in Env, Step(e), NEW s \in SessionId,
         NEW r, NEW i, NEW o, Journaled(s, r, i, o)
  PROVE  Journaled(s, r, i, o)' \/ (s = sid[e] /\ (Publish(e) \/ RollbackRows(e)))
<1>0. /\ nextId \in [{"session", "file", "blob", "metadata"} -> Nat]
      /\ journal \in [SessionId -> Seq(JournalRow)]
      /\ InSession(e) => sid[e] \in SessionId
      /\ \A b \in blobs[e] : b.id \in Nat
  BY IdsAreNumbers, SessionIdOfInside DEF TypeInv, TypeOK, DatabaseTypeOK
<1>1. journal' = journal => Journaled(s, r, i, o)'
  BY UnchangedJournal
<1>2. ASSUME NEW rel \in Relation, NEW id \in Nat, NEW op \in Operation,
             InSession(e), Log(sid[e], rel, id, op)
      PROVE  Journaled(s, r, i, o)'
  BY <1>0, <1>2, LogEffect
<1>3. CASE ApplyRow(e)
  <2>1. PICK k \in todo[e] : journal' = [journal EXCEPT ![sid[e]][k].executed = TRUE]
    BY <1>3 DEF ApplyRow
  <2>2. sid[e] \in SessionId
    BY <1>3, SessionIdOfInside DEF ApplyRow
  <2> QED
    BY <1>0, <2>1, <2>2, ExecuteEffect
<1>4. CASE Publish(e) \/ RollbackRows(e)
  <2>1. sid[e] \in SessionId /\ journal' = FlushedJournal(sid[e])
    BY <1>4, SessionIdOfInside DEF Publish, RollbackRows
  <2> QED
    BY <1>0, <1>4, <2>1, FlushEffect
<1>5. CASE Command(e)
  BY <1>0, <1>1, <1>2, <1>5 DEF Command, StartSession, CreateFile, GetFile, GetBlob,
     AddBlob, RemoveBlob, StoreBlob, AddTriple, CommitPasses, CommitRejected, Rollback,
     Exit, CleanSessions, dbVars, Relation, Operation
<1>6. CASE Continue(e)
  BY <1>1, <1>3, <1>4, <1>6 DEF Continue, CloseReplaced, ApplySelect, Finish, CommitEnd,
     CloseFile, CloseBlob, ExitEnd, dbVars
<1>7. CASE Fault(e)
  BY <1>1, <1>7 DEF Fault, GetFileThrows, StoreBlobThrows, CommitThrows, FinishThrows,
     RollbackThrows, Crash, dbVars
<1> QED
  BY <1>5, <1>6, <1>7 DEF Step

\* A row that is visible stays so, and only a commit or a rollback deletes any.
LEMMA RowsGrow ==
  ASSUME TypeInv, NEW e \in Env, Step(e)
  PROVE  /\ \A r \in blob : \/ \E q \in blob' : q.id = r.id
                           \/ Publish(e) \/ RollbackRows(e)
         /\ \A q \in blob' : \/ \E r \in blob : r.id = q.id /\ (r.visible => q.visible)
                             \/ q.id = nextId["blob"]
         /\ \A m \in metadata : \E q \in metadata' :
              q.id = m.id /\ q.blob = m.blob /\ q.object = m.object
<1>0. blob \in SUBSET BlobRow /\ metadata \in SUBSET MetadataRow
  BY DEF TypeInv, TypeOK, DatabaseTypeOK
<1> DEFINE
      Grow ==
        /\ \A r \in blob : \/ \E q \in blob' : q.id = r.id
                          \/ Publish(e) \/ RollbackRows(e)
        /\ \A q \in blob' : \/ \E r \in blob : r.id = q.id /\ (r.visible => q.visible)
                            \/ q.id = nextId["blob"]
        /\ \A m \in metadata : \E q \in metadata' :
             q.id = m.id /\ q.blob = m.blob /\ q.object = m.object
<1> SUFFICES Grow
  OBVIOUS
<1>1. blob' = blob /\ metadata \subseteq metadata' => Grow
  OBVIOUS
<1>2. ASSUME NEW f, NEW n, AddBlob(e, f, n)
      PROVE  Grow
  <2> DEFINE row == [id |-> nextId["blob"], file |-> f, name |-> n, visible |-> FALSE]
  <2>1. row.id = nextId["blob"]
    OBVIOUS
  <2>2. blob' = blob \cup {row} /\ metadata' = metadata
    BY <1>2 DEF AddBlob
  <2> HIDE DEF row
  <2> QED
    BY <2>1, <2>2
<1>3. CASE RollbackRows(e)
  BY <1>3 DEF RollbackRows
<1>4. CASE Publish(e)
  <2>1. \A r \in blob : LET q == [r EXCEPT !.visible = TRUE]
                        IN  q.id = r.id /\ q.visible = TRUE
    BY <1>0 DEF BlobRow
  <2>2. \A r \in metadata : LET q == [r EXCEPT !.visible = TRUE]
                            IN  q.id = r.id /\ q.blob = r.blob /\ q.object = r.object
    BY <1>0 DEF MetadataRow
  <2>3. \A q \in blob' : \E r \in blob : r.id = q.id /\ (r.visible => q.visible)
    BY <1>4, <2>1 DEF Publish, MadeVisible
  <2>4. \A m \in metadata : \E q \in metadata' :
          q.id = m.id /\ q.blob = m.blob /\ q.object = m.object
    BY <1>4, <2>2 DEF Publish, MadeVisible
  <2> QED
    BY <1>4, <2>3, <2>4
<1> HIDE DEF Grow
<1>5. CASE Command(e)
  BY <1>1, <1>2, <1>5 DEF Command, StartSession, CreateFile, GetFile, GetBlob,
     RemoveBlob, StoreBlob, AddTriple, CommitPasses, CommitRejected, Rollback, Exit,
     CleanSessions, dbVars
<1>6. CASE Continue(e)
  BY <1>1, <1>3, <1>4, <1>6 DEF Continue, CloseReplaced, ApplySelect, ApplyRow, Finish,
     CommitEnd, CloseFile, CloseBlob, ExitEnd, dbVars
<1>7. CASE Fault(e)
  BY <1>1, <1>7 DEF Fault, GetFileThrows, StoreBlobThrows, CommitThrows, FinishThrows,
     RollbackThrows, Crash, dbVars
<1> QED
  BY <1>5, <1>6, <1>7 DEF Step

-----------------------------------------------------------------------------
(* What a session stored into or described. *)

\* The invalidation query in terms of what is journaled.
LEMMA InvalidatedBy ==
  ASSUME NEW s
  PROVE  Invalidated(s) <=>
           \/ \E id : Journaled(s, "Blob", id, "Store") /\ ~BlobExists(id)
           \/ \E m \in metadata : \E op :
                /\ Journaled(s, "Metadata", m.id, op)
                /\ ~BlobExists(m.blob) \/ (m.object # None /\ ~BlobExists(m.object))
<1>1. ASSUME NEW i \in DOMAIN journal[s]
      PROVE  Journaled(s, journal[s][i].relation, journal[s][i].relId, journal[s][i].op)
  BY DEF Journaled
<1>2. ASSUME Invalidated(s)
      PROVE  \/ \E id : Journaled(s, "Blob", id, "Store") /\ ~BlobExists(id)
             \/ \E m \in metadata : \E op :
                  /\ Journaled(s, "Metadata", m.id, op)
                  /\ ~BlobExists(m.blob) \/ (m.object # None /\ ~BlobExists(m.object))
  <2>1. PICK i \in DOMAIN journal[s] :
          \/ /\ journal[s][i].relation = "Blob" /\ journal[s][i].op = "Store"
             /\ ~BlobExists(journal[s][i].relId)
          \/ /\ journal[s][i].relation = "Metadata"
             /\ \E m \in metadata :
                  /\ m.id = journal[s][i].relId
                  /\ ~BlobExists(m.blob) \/ (m.object # None /\ ~BlobExists(m.object))
    BY <1>2 DEF Invalidated
  <2> QED
    BY <1>1, <2>1
<1>3. ASSUME NEW id, Journaled(s, "Blob", id, "Store"), ~BlobExists(id)
      PROVE  Invalidated(s)
  BY <1>3 DEF Invalidated, Journaled
<1>4. ASSUME NEW m \in metadata, NEW op, Journaled(s, "Metadata", m.id, op),
             ~BlobExists(m.blob) \/ (m.object # None /\ ~BlobExists(m.object))
      PROVE  Invalidated(s)
  BY <1>4 DEF Invalidated, Journaled
<1> QED
  BY <1>2, <1>3, <1>4

\* What is journaled has the types of a journal row.
LEMMA JournaledTyped ==
  ASSUME TypeInv, NEW s \in SessionId, NEW r, NEW i, NEW o, Journaled(s, r, i, o)
  PROVE  r \in Relation /\ i \in Nat /\ o \in Operation
<1>1. journal[s] \in Seq(JournalRow)
  BY DEF TypeInv, TypeOK, DatabaseTypeOK
<1>2. PICK k \in DOMAIN journal[s] :
        journal[s][k].relation = r /\ journal[s][k].relId = i /\ journal[s][k].op = o
  BY DEF Journaled
<1>3. journal[s][k] \in JournalRow
  BY <1>1, ElementOfSeq
<1> QED
  BY <1>2, <1>3 DEF JournalRow

\* Only who publishes or rolls back invalidates another session.
LEMMA InvalidatedStep ==
  ASSUME TypeInv, ReferencesDrawn, NEW e \in Env, Step(e), NEW s \in SessionId,
         s # sid[e] \/ ~InSession(e) \/ journal' = journal,
         ~Publish(e), ~RollbackRows(e), Invalidated(s)'
  PROVE  Invalidated(s)
<1>0. /\ nextId["metadata"] \in Nat
      /\ \A m \in metadata : m.id \in Nat
      /\ \A i : BlobExists(i) => BlobExists(i)'
  BY RowsGrow DEF TypeInv, TypeOK, DatabaseTypeOK, MetadataRow, BlobExists
<1>1. \A r, i, o : Journaled(s, r, i, o)' => Journaled(s, r, i, o)
  BY JournalGrows, UnchangedJournal DEF Journals
<1>2. \/ \E id : Journaled(s, "Blob", id, "Store")' /\ ~BlobExists(id)'
      \/ \E m \in metadata' : \E op :
           /\ Journaled(s, "Metadata", m.id, op)'
           /\ ~BlobExists(m.blob)' \/ (m.object # None /\ ~BlobExists(m.object)')
  <2>1. PICK i \in DOMAIN journal'[s] : \E k, o :
          /\ journal'[s][i].relId = k /\ journal'[s][i].op = o
          /\ \/ /\ journal'[s][i].relation = "Blob" /\ o = "Store" /\ ~BlobExists(k)'
             \/ /\ journal'[s][i].relation = "Metadata"
                /\ \E m \in metadata' :
                     /\ m.id = k
                     /\ ~BlobExists(m.blob)' \/ (m.object # None /\ ~BlobExists(m.object)')
    BY DEF Invalidated
  <2> QED
    BY <2>1 DEF Journaled
<1>3. ASSUME NEW q \in metadata', NEW op, Journaled(s, "Metadata", q.id, op)
      PROVE  \E m \in metadata : m.id = q.id /\ m.blob = q.blob /\ m.object = q.object
  <2>1. q.id # nextId["metadata"]
    BY <1>0, <1>3, JournaledTyped DEF ReferencesDrawn
  <2> QED
    BY <2>1, RowsStay
<1> QED
  BY <1>0, <1>1, <1>2, <1>3, InvalidatedBy

\* What a session sees it goes on seeing until its commit or its rollback.
LEMMA SeenStays ==
  ASSUME TypeInv, NEW e \in Env, Step(e), NEW s \in SessionId, NEW id \in Nat,
         SeenBy(s, id), id < nextId["blob"],
         ~(s = sid[e] /\ (Publish(e) \/ RollbackRows(e)))
  PROVE  SeenBy(s, id)'
<1> SUFFICES ASSUME NEW q \in blob', q.id = id
             PROVE  q.visible \/ Added(s, "Blob", id)'
  BY DEF SeenBy
<1>1. nextId["blob"] \in Nat
  BY IdsAreNumbers
<1>2. PICK r \in blob : r.id = id /\ (r.visible => q.visible)
  BY <1>1, RowsGrow
<1> QED
  BY <1>2, JournalStays DEF SeenBy, Added

\* The journal of a session is empty after its commit or its rollback.
LEMMA NothingLeft ==
  ASSUME TypeInv, NEW e \in Env, NEW s \in SessionId, NEW r, NEW i, NEW o,
         Journaled(s, r, i, o)'
  PROVE  ~(s = sid[e] /\ (Publish(e) \/ RollbackRows(e)))
<1> SUFFICES ASSUME s = sid[e], journal' = FlushedJournal(s)
             PROVE  FALSE
  BY DEF Publish, RollbackRows
<1> QED
  BY FlushEffect DEF TypeInv, TypeOK, DatabaseTypeOK

\* ChangesSeen by induction.
LEMMA ChangesSeenNext ==
  ASSUME TypeInv, IInv, ReferencesDrawn, ChangesSeen, NEW e \in Env, Step(e)
  PROVE  ChangesSeen'
<1>0. /\ nextId["blob"] \in Nat /\ nextId["metadata"] \in Nat
      /\ \A m \in metadata : m.id \in Nat /\ m.blob \in Nat
                             /\ (m.object # None => m.object \in Nat)
  BY DEF TypeInv, TypeOK, DatabaseTypeOK, MetadataRow
<1>1. ASSUME InSession(e), NEW s, s = sid[e], NEW i, NEW b \in blobs[e], i = b.id
      PROVE  SeenBy(s, i)'
  <2>1. b.id \in Nat /\ b.id < nextId["blob"] /\ sid[e] \in SessionId /\ sid[e] # None
    BY <1>1, IdsAreNumbers DEF IInv, EnvInv, ObjectsSound, InSession
  <2>2. SeenBy(sid[e], b.id)
    BY <2>1 DEF SeenBy, IInv, EnvInv, NoDirtyReads
  <2>3. ~Publish(e) /\ ~RollbackRows(e)
    BY <1>1 DEF InSession, Publish, RollbackRows
  <2> QED
    BY <1>1, <2>1, <2>2, <2>3, SeenStays
<1>2. ASSUME NEW s \in SessionId, NEW id \in Nat, NEW op \in Operation,
             Journaled(s, "Blob", id, op)'
      PROVE  SeenBy(s, id)'
  <2>1. CASE Journaled(s, "Blob", id, op)
    BY <1>2, <2>1, NothingLeft, SeenStays DEF ChangesSeen, ReferencesDrawn
  <2>2. CASE s = sid[e] /\ Journals(e, "Blob", id, op) /\ op = "Add"
    BY <1>2, <2>2 DEF SeenBy, Added
  <2>3. CASE s = sid[e] /\ Journals(e, "Blob", id, op) /\ op # "Add"
    <3>1. PICK b \in blobs[e] : b.id = id
      BY <2>3 DEF Journals
    <3> QED
      BY <1>1, <2>3, <3>1 DEF Journals
  <2> QED
    BY <1>2, <2>1, <2>2, <2>3, JournalGrows
<1>3. ASSUME NEW s \in SessionId, NEW q \in metadata', Added(s, "Metadata", q.id)'
      PROVE  SeenBy(s, q.blob)' /\ (q.object # None => SeenBy(s, q.object)')
  <2>1. CASE \E m \in metadata : m.id = q.id /\ m.blob = q.blob /\ m.object = q.object
    <3>1. PICK m \in metadata : m.id = q.id /\ m.blob = q.blob /\ m.object = q.object
      BY <2>1
    <3>2. m.id < nextId["metadata"]
      BY DEF ReferencesDrawn
    <3>3. Added(s, "Metadata", q.id)
      BY <1>0, <1>3, <3>1, <3>2, JournalGrows DEF Added, Journals
    <3>4. SeenBy(s, q.blob) /\ (q.object # None => SeenBy(s, q.object))
      BY <3>1, <3>3 DEF ChangesSeen
    <3>5. /\ q.blob \in Nat /\ q.blob < nextId["blob"]
          /\ q.object # None => q.object \in Nat /\ q.object < nextId["blob"]
      BY <1>0, <3>1 DEF ReferencesDrawn
    <3>6. ~(s = sid[e] /\ (Publish(e) \/ RollbackRows(e)))
      BY <1>3, NothingLeft DEF Added
    <3> QED
      BY <3>4, <3>5, <3>6, SeenStays
  <2>2. CASE /\ q.id = nextId["metadata"]
             /\ \E b \in blobs[e] : q.blob = b.id
             /\ q.object # None => \E b \in blobs[e] : q.object = b.id
    <3>1. ~Added(s, "Metadata", q.id)
      BY <1>0, <2>2, JournaledTyped DEF Added, ReferencesDrawn
    <3>2. s = sid[e] /\ InSession(e)
      BY <1>3, <3>1, JournalGrows DEF Added, Journals
    <3> QED
      BY <1>1, <2>2, <3>2
  <2> QED
    BY <2>1, <2>2, RowsStay
<1> QED
  BY <1>2, <1>3 DEF ChangesSeen

\* TriplesAdded by induction.
LEMMA TriplesAddedNext ==
  ASSUME TypeInv, IInv, ReferencesDrawn, TriplesAdded, NEW e \in Env, Step(e)
  PROVE  TriplesAdded'
<1>0. nextId["metadata"] \in Nat
  BY DEF TypeInv, TypeOK, DatabaseTypeOK
<1>1. ASSUME NEW s \in SessionId, NEW id \in Nat, NEW op \in Operation,
             Journaled(s, "Metadata", id, op)'
      PROVE  op = "Add"
  BY <1>1, JournalGrows DEF TriplesAdded, Journals
<1>2. ASSUME NEW s \in SessionId, NEW t \in SessionId, NEW id \in Nat,
             Added(s, "Metadata", id)', Added(t, "Metadata", id)'
      PROVE  s = t
  <2>1. \A u \in SessionId : Added(u, "Metadata", id) => id < nextId["metadata"]
    BY DEF ReferencesDrawn, Added, Operation
  <2>2. \A u \in SessionId : Added(u, "Metadata", id)' =>
          Added(u, "Metadata", id) \/ (u = sid[e] /\ id = nextId["metadata"])
    BY JournalGrows DEF Added, Journals
  <2> QED
    BY <1>0, <1>2, <2>1, <2>2 DEF TriplesAdded
<1> QED
  BY <1>1, <1>2 DEF TriplesAdded

\* CountersBounded by induction: every id is drawn within its bound.
LEMMA CountersBoundedNext ==
  ASSUME TypeInv, CountersBounded, NEW e \in Env, Step(e)
  PROVE  CountersBounded'
<1>0. /\ nextId \in [{"session", "file", "blob", "metadata"} -> Nat]
      /\ SeedFiles \in Nat /\ Len(SeedBlobs) \in Nat
      /\ MaxFile \in Nat /\ MaxBlob \in Nat /\ MaxTriple \in Nat
  BY SeedAssumption, SeedTyped, BoundAssumption DEF TypeInv, TypeOK, DatabaseTypeOK
<1> DEFINE Bounded == CountersBounded'
<1> SUFFICES Bounded
  OBVIOUS
<1>1. nextId' = nextId \/ DrawId("session") => Bounded
  BY <1>0 DEF CountersBounded, DrawId
<1>2. /\ DrawId("file") /\ nextId["file"] < MaxFile => Bounded
      /\ DrawId("blob") /\ nextId["blob"] < MaxBlob => Bounded
      /\ DrawId("metadata") /\ nextId["metadata"] < MaxTriple => Bounded
  BY <1>0 DEF CountersBounded, DrawId, Largest
<1> HIDE DEF Bounded
<1>3. CASE Command(e)
  BY <1>1, <1>2, <1>3 DEF Command, StartSession, CreateFile, GetFile, GetBlob, AddBlob,
     RemoveBlob, StoreBlob, AddTriple, CommitPasses, CommitRejected, Rollback, Exit,
     CleanSessions, dbVars
<1>4. CASE Continue(e)
  BY <1>1, <1>4 DEF Continue, CloseReplaced, ApplySelect, ApplyRow, Publish, Finish,
     CommitEnd, CloseFile, CloseBlob, RollbackRows, ExitEnd, dbVars
<1>5. CASE Fault(e)
  BY <1>1, <1>5 DEF Fault, GetFileThrows, StoreBlobThrows, CommitThrows, FinishThrows,
     RollbackThrows, Crash, dbVars
<1> QED
  BY <1>3, <1>4, <1>5 DEF Step

-----------------------------------------------------------------------------
(* Where nobody rolls back. *)

\* NeverRollingBack and ModifiedInSession by induction.
LEMMA NeverRollingBackNext ==
  ASSUME TypeInv, "rollback" \notin Commands, NeverRollingBack, ModifiedInSession,
         NEW e \in Env, Step(e)
  PROVE  NeverRollingBack' /\ ModifiedInSession'
<1>0. /\ pc \in [Env -> Places] /\ sid \in [Env -> SessionId \cup {None}]
      /\ modified \in [Env -> SUBSET (Nat \X Name)]
  BY DEF TypeInv, TypeOK, EnvTypeOK
<1> USE DEF NeverRollingBack, ModifiedInSession, Goto
<1>1. CASE Command(e)
  BY <1>0, <1>1 DEF Command, StartSession, CreateFile, GetFile, GetBlob, AddBlob,
     RemoveBlob, StoreBlob, AddTriple, CommitPasses, CommitRejected, Rollback, Exit,
     CleanSessions, envVars, InSession
<1>2. CASE Continue(e)
  BY <1>0, <1>2 DEF Continue, CloseReplaced, ApplySelect, ApplyRow, Publish, Finish,
     CommitEnd, CloseFile, CloseBlob, RollbackRows, ExitEnd
<1>3. CASE Fault(e)
  BY <1>0, <1>3 DEF Fault, GetFileThrows, StoreBlobThrows, CommitThrows, FinishThrows,
     RollbackThrows, Crash, InSession
<1> QED
  BY <1>1, <1>2, <1>3 DEF Step

\* Where a commit is before its second transaction.
LEMMA CommitPlace ==
  ASSUME TypeInv, NEW e \in Env, Step(e), pc'[e] \in {"select", "apply"}
  PROVE  /\ sid'[e] = sid[e] /\ ~Publish(e) /\ ~RollbackRows(e)
         /\ \/ pc[e] \in {"select", "apply"}
            \/ InSession(e) /\ ~Invalidated(sid[e]) /\ journal' = journal
<1>0. pc \in [Env -> Places] /\ sid \in [Env -> SessionId \cup {None}]
  BY DEF TypeInv, TypeOK, EnvTypeOK
<1> USE DEF Goto
<1>1. CASE Command(e)
  BY <1>0, <1>1 DEF Command, StartSession, CreateFile, GetFile, GetBlob, AddBlob,
     RemoveBlob, StoreBlob, AddTriple, CommitPasses, CommitRejected, Rollback, Exit,
     CleanSessions, envVars, InSession, Publish, RollbackRows
<1>2. CASE Continue(e)
  BY <1>0, <1>2 DEF Continue, CloseReplaced, ApplySelect, ApplyRow, Publish, Finish,
     CommitEnd, CloseFile, CloseBlob, RollbackRows, ExitEnd, Clearing
<1>3. CASE Fault(e)
  BY <1>0, <1>3 DEF Fault, GetFileThrows, StoreBlobThrows, CommitThrows, FinishThrows,
     RollbackThrows, Crash, InSession, Publish, RollbackRows
<1> QED
  BY <1>1, <1>2, <1>3 DEF Step

\* CheckStillValid by induction: between the check and the publication blobs are
\* deleted by commits only, and there is one commit at a time.
LEMMA CheckStillValidNext ==
  ASSUME TypeInv, IInv, SessionInv, NeverRollingBack, CheckStillValid,
         NEW e \in Env, Step(e)
  PROVE  CheckStillValid'
<1> SUFFICES ASSUME NEW d \in Env, pc'[d] \in {"select", "apply"},
                    NEW s, s = sid'[d], Invalidated(s)'
             PROVE  FALSE
  BY DEF CheckStillValid, Invalidated, BlobExists
<1>1. CASE d # e
  <2>1. pc[d] \in {"select", "apply"} /\ s = sid[d]
    BY <1>1, OthersKept DEF OwnVariablesKept
  <2>2. s \in SessionId /\ s # sid[e]
    BY <1>1, <2>1, SessionIdOfInside, NoneIsNoSession DEF IInv, EnvInv, SessionsOwned
  <2>3. ~Publish(e) /\ ~RollbackRows(e)
    BY <1>1, <2>1 DEF Publish, RollbackRows, NeverRollingBack, SessionInv, LockInv, LockHeld
  <2> QED
    BY <2>1, <2>2, <2>3, InvalidatedStep DEF SessionInv, CheckStillValid
<1>2. CASE d = e
  <2>1. /\ s = sid[e] /\ ~Publish(e) /\ ~RollbackRows(e)
        /\ \/ pc[e] \in {"select", "apply"}
           \/ InSession(e) /\ ~Invalidated(sid[e]) /\ journal' = journal
    BY <1>2, CommitPlace
  <2>2. s \in SessionId
    BY <1>2, <2>1, SessionIdOfInside
  <2>3. ~InSession(e) \/ journal' = journal
    BY <2>1 DEF InSession
  <2>4. ~Invalidated(s)
    BY <2>1 DEF CheckStillValid
  <2> QED
    BY <2>1, <2>2, <2>3, <2>4, InvalidatedStep DEF SessionInv
<1> QED
  BY <1>1, <1>2

-----------------------------------------------------------------------------
(* What is in VFS::modified. *)

\* A session that is invalidated stays so.
LEMMA InvalidatedStays ==
  ASSUME TypeInv, ReferencesDrawn, NEW e \in Env, Step(e), NEW s \in SessionId,
         ~(s = sid[e] /\ (Publish(e) \/ RollbackRows(e))), Invalidated(s)
  PROVE  Invalidated(s)'
<1>0. \A i \in Nat : i < nextId["blob"] /\ BlobExists(i)' => BlobExists(i)
  BY NoRowComesBack DEF BlobExists
<1>1. CASE \E id : Journaled(s, "Blob", id, "Store") /\ ~BlobExists(id)
  <2>1. PICK id : Journaled(s, "Blob", id, "Store") /\ ~BlobExists(id)
    BY <1>1
  <2>2. id \in Nat /\ id < nextId["blob"]
    BY <2>1, JournaledTyped DEF ReferencesDrawn
  <2>3. Journaled(s, "Blob", id, "Store")' /\ ~BlobExists(id)'
    BY <1>0, <2>1, <2>2, JournalStays
  <2> QED
    BY <2>3 DEF Invalidated, Journaled
<1>2. CASE \E m \in metadata : \E op :
             /\ Journaled(s, "Metadata", m.id, op)
             /\ ~BlobExists(m.blob) \/ (m.object # None /\ ~BlobExists(m.object))
  <2>1. PICK m \in metadata : \E op :
          /\ Journaled(s, "Metadata", m.id, op)
          /\ ~BlobExists(m.blob) \/ (m.object # None /\ ~BlobExists(m.object))
    BY <1>2
  <2>2. PICK q \in metadata' : q.id = m.id /\ q.blob = m.blob /\ q.object = m.object
    BY RowsGrow
  <2>3. /\ m.blob \in Nat /\ m.blob < nextId["blob"]
        /\ m.object # None => m.object \in Nat /\ m.object < nextId["blob"]
    BY DEF ReferencesDrawn, TypeInv, TypeOK, DatabaseTypeOK, MetadataRow
  <2>4. ~BlobExists(q.blob)' \/ (q.object # None /\ ~BlobExists(q.object)')
    <3> DEFINE i == m.blob
               j == m.object
    <3>1. ~BlobExists(i) => ~BlobExists(i)'
      BY <1>0, <2>3
    <3>2. j # None /\ ~BlobExists(j) => ~BlobExists(j)'
      BY <1>0, <2>3
    <3> QED
      BY <2>1, <2>2, <3>1, <3>2 DEF BlobExists
  <2>5. \E op : Journaled(s, "Metadata", m.id, op)'
    BY <2>1, JournalStays
  <2> QED
    BY <2>2, <2>4, <2>5 DEF Invalidated, Journaled
<1> QED
  BY <1>1, <1>2, InvalidatedBy

\* What is new in modified has just been journaled.
LEMMA ModifiedStep ==
  ASSUME TypeInv, "store" \notin Faults, NEW e \in Env, Step(e),
         NEW key \in modified'[e], key \notin modified[e]
  PROVE  \E b \in blobs[e] : /\ <<b.file, b.name>> = key /\ blobs' = blobs
                            /\ InSession(e) /\ Log(sid[e], "Blob", b.id, "Store")
<1>0. modified \in [Env -> SUBSET (Nat \X Name)]
  BY DEF TypeInv, TypeOK, EnvTypeOK
<1>1. CASE Command(e)
  BY <1>0, <1>1 DEF Command, StartSession, CreateFile, GetFile, GetBlob, AddBlob,
     RemoveBlob, StoreBlob, AddTriple, CommitPasses, CommitRejected, Rollback, Exit,
     CleanSessions, envVars
<1>2. CASE Continue(e)
  BY <1>0, <1>2 DEF Continue, CloseReplaced, ApplySelect, ApplyRow, Publish, Finish,
     CommitEnd, CloseFile, CloseBlob, RollbackRows, ExitEnd
<1>3. CASE Fault(e)
  BY <1>0, <1>3 DEF Fault, GetFileThrows, StoreBlobThrows, CommitThrows, FinishThrows,
     RollbackThrows, Crash
<1> QED
  BY <1>1, <1>2, <1>3 DEF Step

\* StoresJournaled by induction.
LEMMA StoresJournaledNext ==
  ASSUME TypeInv, IInv, SessionInv, "rollback" \notin Commands, NeverRollingBack,
         ModifiedInSession, StoresJournaled, NEW e \in Env, Step(e)
  PROVE  StoresJournaled'
<1> SUFFICES ASSUME {"store", "finish"} \cap Faults = {}, NEW d \in Env, Owner(d)',
                    NEW key \in modified'[d], NEW s, s = sid'[d]
             PROVE  \/ \E b \in blobs'[d] : /\ <<b.file, b.name>> = key
                                           /\ Journaled(s, "Blob", b.id, "Store")'
                    \/ Invalidated(s)'
  BY DEF StoresJournaled, StoreJournaled, Owner, Journaled, Invalidated, BlobExists
<1>1. CASE d # e
  <2>1. OwnVariablesKept(d)
    BY <1>1, OthersKept
  <2>2. Owner(d) /\ s = sid[d] /\ s \in SessionId /\ s # sid[e] /\ key \in modified[d]
    BY <1>1, <2>1, IdsAreNumbers DEF OwnVariablesKept, Owner, IInv, EnvInv, SessionsOwned
  <2>3. StoreJournaled(d, key)
    BY <2>2 DEF StoresJournaled
  <2>4. CASE Invalidated(s)
    BY <2>2, <2>4, InvalidatedStays DEF SessionInv
  <2>5. CASE \E b \in blobs[d] : /\ <<b.file, b.name>> = key
                                /\ Journaled(s, "Blob", b.id, "Store")
    BY <2>1, <2>2, <2>5, JournalStays DEF OwnVariablesKept
  <2> QED
    BY <2>2, <2>3, <2>4, <2>5 DEF StoreJournaled
<1>2. CASE d = e /\ StartSession(e)
  BY <1>2 DEF StartSession, ModifiedInSession
<1>3. CASE d = e /\ ~StartSession(e)
  <2>1. sid'[e] = sid[e] /\ Owner(e) /\ ~Publish(e) /\ ~RollbackRows(e)
    BY <1>3, PlaceStep DEF NeverRollingBack
  <2>2. s = sid[e] /\ s \in SessionId
    BY <1>3, <2>1, IdsAreNumbers DEF Owner
  <2>3. CASE key \notin modified[e]
    <3>1. PICK b \in blobs[e] : /\ <<b.file, b.name>> = key /\ blobs' = blobs
                                /\ InSession(e) /\ Log(sid[e], "Blob", b.id, "Store")
      BY <1>3, <2>3, ModifiedStep
    <3>2. Journaled(s, "Blob", b.id, "Store")'
      BY <2>2, <3>1, LogEffect, IdsAreNumbers DEF TypeInv, TypeOK, DatabaseTypeOK, Relation,
         Operation
    <3> QED
      BY <1>3, <3>1, <3>2
  <2>4. CASE key \in modified[e] /\ Invalidated(s)
    BY <2>1, <2>2, <2>4, InvalidatedStays DEF SessionInv
  <2>5. CASE key \in modified[e] /\ ~Invalidated(s)
    <3>1. PICK b \in blobs[e] : /\ <<b.file, b.name>> = key
                               /\ Journaled(s, "Blob", b.id, "Store")
      BY <2>1, <2>2, <2>5 DEF StoresJournaled, StoreJournaled
    <3>2. BlobExists(b.id)
      BY <2>5, <3>1, InvalidatedBy
    <3>3. b \notin Replaced(e)
      BY <3>2 DEF SessionInv, ObjectInv, ReplacedGone
    <3>4. \E c \in blobs'[e] : c.id = b.id /\ c.file = b.file /\ c.name = b.name
      BY <1>3, <3>3, ObjectsStay
    <3>5. Journaled(s, "Blob", b.id, "Store")'
      BY <2>1, <2>2, <3>1, JournalStays
    <3> QED
      BY <1>3, <3>1, <3>4, <3>5
  <2> QED
    BY <2>3, <2>4, <2>5
<1> QED
  BY <1>1, <1>2, <1>3

-----------------------------------------------------------------------------
(* The invariant. *)

CommitInv ==
  /\ ChangesSeen /\ TriplesAdded /\ CountersBounded
  /\ "rollback" \notin Commands =>
       NeverRollingBack /\ ModifiedInSession /\ CheckStillValid /\ StoresJournaled

\* Initially nothing is journaled.
LEMMA InitCommit == Init => CommitInv
<1> SUFFICES ASSUME Init PROVE CommitInv
  OBVIOUS
<1> USE DEF Init, DatabaseInit
<1>1. \A s \in SessionId : \A r, i, o : ~Journaled(s, r, i, o)
  BY DEF Journaled
<1>2. ChangesSeen /\ TriplesAdded
  BY <1>1 DEF ChangesSeen, TriplesAdded, Added
<1>3. CountersBounded
  BY SeedAssumption, SeedTyped, BoundAssumption DEF CountersBounded, Largest
<1>4. NeverRollingBack /\ ModifiedInSession /\ CheckStillValid /\ StoresJournaled
  BY DEF NeverRollingBack, ModifiedInSession, CheckStillValid, StoresJournaled, Owner
<1> QED
  BY <1>2, <1>3, <1>4 DEF CommitInv

\* Every step preserves the invariant.
LEMMA CommitInvNext ==
  ASSUME TypeInv, IInv, SessionInv, CommitInv, [Next]_vars
  PROVE  CommitInv'
<1>1. ASSUME NEW e \in Env, Step(e)
      PROVE  CommitInv'
  <2>1. ChangesSeen' /\ TriplesAdded' /\ CountersBounded'
    BY <1>1, ChangesSeenNext, TriplesAddedNext, CountersBoundedNext DEF CommitInv, SessionInv
  <2>2. ASSUME "rollback" \notin Commands
        PROVE  /\ NeverRollingBack' /\ ModifiedInSession'
               /\ CheckStillValid' /\ StoresJournaled'
    BY <1>1, <2>2, NeverRollingBackNext, CheckStillValidNext, StoresJournaledNext
       DEF CommitInv
  <2> QED
    BY <2>1, <2>2 DEF CommitInv
<1>2. CASE UNCHANGED vars
  <2> USE <1>2 DEF vars, dbVars, envVars
  <2>1. \A s, r, i, o : Journaled(s, r, i, o)' <=> Journaled(s, r, i, o)
    BY UnchangedJournal
  <2>2. ChangesSeen' /\ TriplesAdded' /\ CountersBounded'
    BY <2>1 DEF CommitInv, ChangesSeen, TriplesAdded, CountersBounded, SeenBy, Added
  <2>3. CASE "rollback" \in Commands
    BY <2>2, <2>3 DEF CommitInv
  <2>4. CASE "rollback" \notin Commands
    <3>1. NeverRollingBack' /\ ModifiedInSession'
      BY <2>4 DEF CommitInv, NeverRollingBack, ModifiedInSession
    <3>2. CheckStillValid'
      BY <2>4 DEF CommitInv, CheckStillValid, Invalidated, BlobExists
    <3>3. StoresJournaled'
      BY <2>4 DEF CommitInv, StoresJournaled, Owner, StoreJournaled, Journaled, Invalidated,
         BlobExists
    <3> QED
      BY <2>2, <3>1, <3>2, <3>3 DEF CommitInv
  <2> QED
    BY <2>3, <2>4
<1> QED
  BY <1>1, <1>2 DEF Next, Step

\* The invariant holds in every reachable state.
THEOREM CommitInvariant == Spec => [](TypeInv /\ IInv /\ SessionInv /\ CommitInv)
<1>1. TypeInv /\ IInv /\ SessionInv /\ CommitInv /\ [Next]_vars => CommitInv'
  BY CommitInvNext
<1> QED
  BY <1>1, InitCommit, SessionInvariant, PTL DEF Spec

\* What step 0.3 of commitSession has checked still holds when the second
\* transaction publishes, where nobody rolls back.
THEOREM CheckStillValidHolds ==
  ASSUME "rollback" \notin Commands
  PROVE  Spec => []CheckStillValid
<1>1. CommitInv => CheckStillValid
  BY DEF CommitInv
<1> QED
  BY <1>1, CommitInvariant, PTL

\* Where a key is in VFS::modified the running session has journaled its store,
\* or cannot commit (getBlobPath, Transaction::finish).
THEOREM StoresJournaledHolds == Spec => []StoresJournaled
<1>1. CommitInv => StoresJournaled
  BY DEF CommitInv, StoresJournaled
<1> QED
  BY <1>1, CommitInvariant, PTL

-----------------------------------------------------------------------------
(* The refinement: where nobody rolls back, the sessions implement         *)
(* SessionStore (SessionRefinement!ImplementsStore), one lemma for each    *)
(* kind of step.                                                           *)

\* What the items are.
LEMMA ItemFacts ==
  /\ \A i \in AllItems : /\ i.relation \in {"File", "Blob", "Metadata"}
                        /\ i.id \in Nat
                        /\ i = [relation |-> i.relation, id |-> i.id]
  /\ \A n \in Nat : /\ n < Largest(SeedFiles, MaxFile) =>
                         [relation |-> "File", id |-> n] \in AllItems
                    /\ n < Largest(Len(SeedBlobs), MaxBlob) =>
                         [relation |-> "Blob", id |-> n] \in AllItems
                    /\ n < MaxTriple => [relation |-> "Metadata", id |-> n] \in AllItems
<1>1. /\ Largest(SeedFiles, MaxFile) \in Nat /\ Largest(Len(SeedBlobs), MaxBlob) \in Nat
      /\ MaxTriple \in Nat
  BY SeedAssumption, SeedTyped, BoundAssumption DEF Largest
<1> HIDE DEF Largest
<1> QED
  BY <1>1 DEF AllItems

\* A step that leaves rows, journals and counters alone is a stutter.
LEMMA Silent ==
  ASSUME UNCHANGED <<file, blob, metadata>>,
         \A t \in {"file", "blob", "metadata"} : nextId'[t] = nextId[t],
         \A s \in SessionId : \A r, i, o : Journaled(s, r, i, o)' <=> Journaled(s, r, i, o)
  PROVE  UNCHANGED <<Known, Published, Created, Removed, Depends>>
<1>1. Known' = Known
  BY DEF Known, Counter
<1>2. Published' = Published
  BY DEF Published, Rows
<1>3. Created' = Created
  BY DEF Created, Added, Rows
<1>4. Removed' = Removed
  BY DEF Removed
<1>5. Depends' = Depends
  BY DEF Depends, Added
<1> QED
  BY <1>1, <1>2, <1>3, <1>4, <1>5

-----------------------------------------------------------------------------
(* The initial state. *)

\* Initially everything that has an id is published.
LEMMA InitRefines == Init => Store!StoreInit
<1> SUFFICES ASSUME Init PROVE Store!StoreInit
  OBVIOUS
<1>1. \A s \in SessionId : \A r, i, o : ~Journaled(s, r, i, o)
  BY DEF Init, DatabaseInit, Journaled
<1>2. Published = Known
  <2> SUFFICES ASSUME NEW i \in AllItems
               PROVE  (\E r \in Rows(i.relation) : r.id = i.id /\ r.visible)
                        <=> i.id < nextId[Counter(i.relation)]
    BY DEF Published, Known
  <2>0. /\ SeedFiles \in Nat /\ Len(SeedBlobs) \in Nat
        /\ DOMAIN SeedBlobs = 1 .. Len(SeedBlobs)
        /\ i.id \in Nat
    BY SeedAssumption, SeedTyped, ItemFacts
  <2>1. CASE i.relation = "File"
    <3>1. /\ file = [id : 0 .. SeedFiles - 1, visible : {TRUE}]
          /\ nextId["file"] = SeedFiles
      BY DEF Init, DatabaseInit
    <3>2. i.id < SeedFiles => [id |-> i.id, visible |-> TRUE] \in file
      BY <2>0, <3>1, ItemFacts
    <3>3. \A r \in file : r.id \in 0 .. SeedFiles - 1
      BY <3>1
    <3>4. (\E r \in file : r.id = i.id /\ r.visible) <=> i.id < SeedFiles
      <4>1. ASSUME i.id < SeedFiles PROVE \E r \in file : r.id = i.id /\ r.visible
        <5> DEFINE row == [id |-> i.id, visible |-> TRUE]
        <5>1. row \in file /\ row.id = i.id /\ row.visible
          BY <3>2, <4>1
        <5> QED
          BY <5>1
      <4>2. ASSUME NEW r \in file, r.id = i.id PROVE i.id < SeedFiles
        BY <2>0, <3>3, <4>2
      <4> QED
        BY <4>1, <4>2
    <3> QED
      BY <2>1, <3>1, <3>4 DEF Rows, Counter
  <2>2. CASE i.relation = "Blob"
    <3>1. /\ blob = { [id |-> k - 1, file |-> SeedBlobs[k].file,
                      name |-> SeedBlobs[k].name, visible |-> TRUE] :
                     k \in DOMAIN SeedBlobs }
          /\ nextId["blob"] = Len(SeedBlobs)
      BY DEF Init, DatabaseInit
    <3>2. ASSUME i.id < Len(SeedBlobs)
          PROVE  \E r \in blob : r.id = i.id /\ r.visible
      <4> DEFINE k == i.id + 1
                 row == [id |-> k - 1, file |-> SeedBlobs[k].file,
                         name |-> SeedBlobs[k].name, visible |-> TRUE]
      <4>1. k \in DOMAIN SeedBlobs /\ k - 1 = i.id
        BY <2>0, <3>2, ItemFacts
      <4>2. row \in blob /\ row.id = i.id /\ row.visible
        BY <3>1, <4>1
      <4> QED
        BY <4>2
    <3>3. \A r \in blob : \E k \in 1 .. Len(SeedBlobs) : r.id = k - 1
      BY <2>0, <3>1
    <3> QED
      BY <2>0, <2>2, <3>1, <3>2, <3>3 DEF Rows, Counter
  <2>3. CASE i.relation = "Metadata"
    BY <2>3, ItemFacts DEF Init, DatabaseInit, Rows, Counter
  <2> QED
    BY <2>1, <2>2, <2>3, ItemFacts
<1>3. Known \in SUBSET AllItems
  BY DEF Known
<1>4. /\ Created = [s \in SessionId |-> {}]
      /\ Removed = [s \in SessionId |-> {}]
      /\ Depends = [s \in SessionId |-> {}]
  BY <1>1 DEF Created, Removed, Depends, Added
<1> QED
  BY <1>2, <1>3, <1>4 DEF Store!StoreInit

-----------------------------------------------------------------------------
(* Changes. *)

\* Drawing an id, inserting an invisible row and journaling its creation.
LEMMA CreateStep ==
  ASSUME nextId \in [{"session", "file", "blob", "metadata"} -> Nat],
         NEW s \in SessionId, NEW i \in AllItems,
         i.id = nextId[Counter(i.relation)], DrawId(Counter(i.relation)),
         NEW row, row.id = i.id, ~row.visible,
         Rows(i.relation)' = Rows(i.relation) \cup {row},
         \A relation \in Relation \ {i.relation} : Rows(relation)' = Rows(relation),
         \A t \in SessionId : \A r, k, o :
           Journaled(t, r, k, o)' <=> \/ Journaled(t, r, k, o)
                                      \/ t = s /\ r = i.relation /\ k = i.id /\ o = "Add",
         \A t \in SessionId : ~Added(t, i.relation, i.id)
  PROVE  /\ Store!Create(s, i)
         /\ UNCHANGED <<Published, Removed>>
         /\ i.relation # "Metadata" => UNCHANGED Depends
<1>0. /\ i.relation \in Relation
      /\ \A j \in AllItems : /\ j.relation \in Relation /\ j.id \in Nat
                             /\ j.relation = i.relation /\ j.id = i.id => j = i
  BY ItemFacts DEF Relation
<1>1. Known' = Known \cup {i} /\ i \notin Known
  <2>1. \A r \in Relation : Counter(r) = Counter(i.relation) => r = i.relation
    BY <1>0 DEF Counter, Relation
  <2>2. \A r \in Relation : Counter(r) \in {"file", "blob", "metadata"}
    BY DEF Counter, Relation
  <2>3. \A r \in Relation : nextId'[Counter(r)] =
          IF r = i.relation THEN nextId[Counter(r)] + 1 ELSE nextId[Counter(r)]
    BY <1>0, <2>1, <2>2 DEF DrawId
  <2>4. ASSUME NEW j \in AllItems
        PROVE  /\ j.id < nextId'[Counter(j.relation)] <=>
                    j.id < nextId[Counter(j.relation)] \/ j = i
               /\ j.id < nextId[Counter(j.relation)] => j # i
    <3> DEFINE n == nextId[Counter(j.relation)]
    <3>1. n \in Nat /\ j.id \in Nat /\ j.relation \in Relation
      BY <1>0, <2>2
    <3>2. nextId'[Counter(j.relation)] = IF j.relation = i.relation THEN n + 1 ELSE n
      BY <2>3, <3>1
    <3>3. j.relation = i.relation => i.id = n
      OBVIOUS
    <3> HIDE DEF n
    <3>4. j.id < nextId'[Counter(j.relation)] <=> j.id < n \/ j = i
      BY <1>0, <3>1, <3>2, <3>3
    <3>5. j.id < n => j # i
      BY <3>1, <3>3
    <3> QED
      BY <3>4, <3>5 DEF n
  <2> DEFINE Is(j) == j.id < nextId[Counter(j.relation)]
             Will(j) == j.id < nextId'[Counter(j.relation)]
  <2>5. Known = { j \in AllItems : Is(j) } /\ Known' = { j \in AllItems : Will(j) }
    BY DEF Known, AllItems, Counter
  <2>6. \A j \in AllItems : (Will(j) <=> Is(j) \/ j = i) /\ (Is(j) => j # i)
    BY <2>4
  <2> HIDE DEF Is, Will
  <2> QED
    BY <2>5, <2>6
<1>2. Published' = Published
  <2>1. \A j \in AllItems : (\E r \in Rows(j.relation)' : r.id = j.id /\ r.visible) <=>
                            (\E r \in Rows(j.relation) : r.id = j.id /\ r.visible)
    BY <1>0 DEF Rows, Relation
  <2> QED
    BY <2>1 DEF Published
<1>3. Created' = [Created EXCEPT ![s] = @ \cup {i}]
  <2>1. ASSUME NEW t \in SessionId, NEW j \in AllItems
        PROVE  /\ Added(t, j.relation, j.id)'
               /\ \E r \in Rows(j.relation)' : r.id = j.id /\ ~r.visible
               <=> \/ /\ Added(t, j.relation, j.id)
                      /\ \E r \in Rows(j.relation) : r.id = j.id /\ ~r.visible
                   \/ t = s /\ j = i
    <3>1. Added(t, j.relation, j.id)' <=> Added(t, j.relation, j.id) \/ (t = s /\ j = i)
      BY <1>0 DEF Added
    <3>2. ~Added(t, i.relation, i.id)
      OBVIOUS
    <3>3. j # i =>
            ((\E r \in Rows(j.relation)' : r.id = j.id /\ ~r.visible)
               <=> \E r \in Rows(j.relation) : r.id = j.id /\ ~r.visible)
      BY <1>0 DEF Rows, Relation
    <3>4. \E r \in Rows(i.relation)' : r.id = i.id /\ ~r.visible
      BY <1>0 DEF Rows, Relation
    <3> QED
      BY <3>1, <3>2, <3>3, <3>4
  <2> DEFINE Is(t, j) == /\ Added(t, j.relation, j.id)
                         /\ \E r \in Rows(j.relation) : r.id = j.id /\ ~r.visible
             Will(t, j) == /\ Added(t, j.relation, j.id)'
                           /\ \E r \in Rows(j.relation)' : r.id = j.id /\ ~r.visible
  <2>2. /\ Created = [t \in SessionId |-> { j \in AllItems : Is(t, j) }]
        /\ Created' = [t \in SessionId |-> { j \in AllItems : Will(t, j) }]
    BY DEF Created, Added, Journaled, Rows
  <2>3. \A t \in SessionId, j \in AllItems : Will(t, j) <=> Is(t, j) \/ (t = s /\ j = i)
    BY <2>1
  <2> HIDE DEF Is, Will
  <2> DEFINE Old(t) == { j \in AllItems : Is(t, j) }
             New(t) == { j \in AllItems : Will(t, j) }
  <2>4. \A t \in SessionId : New(t) = IF t = s THEN Old(t) \cup {i} ELSE Old(t)
    BY <2>3
  <2>5. Created = [t \in SessionId |-> Old(t)] /\ Created' = [t \in SessionId |-> New(t)]
    BY <2>2
  <2> HIDE DEF Old, New
  <2> QED
    BY <2>4, <2>5
<1>4. Removed' = Removed
  BY DEF Removed
<1>5. ASSUME i.relation # "Metadata" PROVE Depends' = Depends
  <2>1. metadata' = metadata
    BY <1>5 DEF Rows, Relation
  <2> QED
    BY <1>5, <2>1 DEF Depends, Added
<1> QED
  BY <1>1, <1>2, <1>3, <1>4, <1>5 DEF Store!Create

\* CreateFile creates a file.
LEMMA CreateFileRefines ==
  ASSUME TypeInv, IInv, NEW e \in Env, CreateFile(e)
  PROVE  Store!StoreNext
<1>0. PICK s, f, i, row :
        /\ s = sid[e] /\ f = nextId["file"]
        /\ i = [relation |-> "File", id |-> f]
        /\ row = [id |-> f, visible |-> FALSE]
  OBVIOUS
<1>1. /\ s \in SessionId /\ f \in Nat /\ f < MaxFile
      /\ nextId \in [{"session", "file", "blob", "metadata"} -> Nat]
      /\ journal \in [SessionId -> Seq(JournalRow)]
  BY <1>0, SessionIdOfInside DEF CreateFile, TypeInv, TypeOK, DatabaseTypeOK
<1>2. i \in AllItems /\ i.relation = "File" /\ i.id = f /\ row.id = f /\ ~row.visible
  <2>1. f < Largest(SeedFiles, MaxFile)
    BY <1>1, SeedAssumption, BoundAssumption DEF Largest
  <2> QED
    BY <1>0, <1>1, <2>1, ItemFacts
<1>3. /\ DrawId("file") /\ file' = file \cup {row} /\ UNCHANGED <<blob, metadata>>
      /\ Log(s, "File", f, "Add")
  BY <1>0 DEF CreateFile
<1>4. \A t \in SessionId : \A r, k, o :
        Journaled(t, r, k, o)' <=> \/ Journaled(t, r, k, o)
                                   \/ t = s /\ r = i.relation /\ k = i.id /\ o = "Add"
  <2>1. s \in SessionId /\ f \in Nat /\ Log(s, "File", f, "Add")
    BY <1>1, <1>3
  <2> QED
    BY <1>1, <1>2, <2>1, LogEffect DEF Relation, Operation
<1>5. \A t \in SessionId : ~Added(t, i.relation, i.id)
  BY <1>0, <1>1, <1>2 DEF IInv, DbInv, JournalSound
<1>6. /\ DrawId(Counter(i.relation)) /\ i.id = nextId[Counter(i.relation)]
      /\ Rows(i.relation)' = Rows(i.relation) \cup {row}
      /\ \A relation \in Relation \ {i.relation} : Rows(relation)' = Rows(relation)
  BY <1>0, <1>2, <1>3 DEF Counter, Rows, Relation
<1>7. Store!Create(s, i) /\ UNCHANGED <<Published, Removed, Depends>>
  BY <1>1, <1>2, <1>3, <1>4, <1>5, <1>6, CreateStep
<1> QED
  BY <1>1, <1>2, <1>7 DEF Store!StoreNext, Store!Change

\* AddBlob creates a blob.
LEMMA AddBlobRefines ==
  ASSUME TypeInv, IInv, NEW e \in Env, NEW g \in files[e], NEW n \in Name, AddBlob(e, g, n)
  PROVE  Store!StoreNext
<1>0. PICK s, b, i, row :
        /\ s = sid[e] /\ b = nextId["blob"]
        /\ i = [relation |-> "Blob", id |-> b]
        /\ row = [id |-> b, file |-> g, name |-> n, visible |-> FALSE]
  OBVIOUS
<1>1. /\ s \in SessionId /\ b \in Nat /\ b < MaxBlob
      /\ nextId \in [{"session", "file", "blob", "metadata"} -> Nat]
      /\ journal \in [SessionId -> Seq(JournalRow)]
  BY <1>0, SessionIdOfInside DEF AddBlob, TypeInv, TypeOK, DatabaseTypeOK
<1>2. i \in AllItems /\ i.relation = "Blob" /\ i.id = b /\ row.id = b /\ ~row.visible
  <2>1. b < Largest(Len(SeedBlobs), MaxBlob)
    BY <1>1, SeedTyped, BoundAssumption DEF Largest
  <2> QED
    BY <1>0, <1>1, <2>1, ItemFacts
<1>3. /\ DrawId("blob") /\ blob' = blob \cup {row} /\ UNCHANGED <<file, metadata>>
      /\ Log(s, "Blob", b, "Add")
  BY <1>0 DEF AddBlob
<1>4. \A t \in SessionId : \A r, k, o :
        Journaled(t, r, k, o)' <=> \/ Journaled(t, r, k, o)
                                   \/ t = s /\ r = i.relation /\ k = i.id /\ o = "Add"
  <2>1. s \in SessionId /\ b \in Nat /\ Log(s, "Blob", b, "Add")
    BY <1>1, <1>3
  <2> QED
    BY <1>1, <1>2, <2>1, LogEffect DEF Relation, Operation
<1>5. \A t \in SessionId : ~Added(t, i.relation, i.id)
  BY <1>0, <1>1, <1>2 DEF IInv, DbInv, JournalSound
<1>6. /\ DrawId(Counter(i.relation)) /\ i.id = nextId[Counter(i.relation)]
      /\ Rows(i.relation)' = Rows(i.relation) \cup {row}
      /\ \A relation \in Relation \ {i.relation} : Rows(relation)' = Rows(relation)
  BY <1>0, <1>2, <1>3 DEF Counter, Rows, Relation
<1>7. Store!Create(s, i) /\ UNCHANGED <<Published, Removed, Depends>>
  BY <1>1, <1>2, <1>3, <1>4, <1>5, <1>6, CreateStep
<1> QED
  BY <1>1, <1>2, <1>7 DEF Store!StoreNext, Store!Change

\* The blobs of the objects a process has are known.
LEMMA ObjectKnown ==
  ASSUME TypeInv, IInv, CountersBounded, NEW e \in Env, NEW b \in blobs[e]
  PROVE  [relation |-> "Blob", id |-> b.id] \in Known
<1>1. b.id \in Nat /\ b.id < nextId["blob"] /\ nextId["blob"] \in Nat
  BY IdsAreNumbers DEF IInv, EnvInv, ObjectsSound
<1>2. b.id < Largest(Len(SeedBlobs), MaxBlob)
  BY <1>1, SeedTyped, BoundAssumption DEF CountersBounded, Largest
<1> DEFINE i == [relation |-> "Blob", id |-> b.id]
<1>3. i \in AllItems /\ i.relation = "Blob" /\ i.id = b.id
  BY <1>1, <1>2, ItemFacts
<1> HIDE DEF i
<1>4. i \in Known
  BY <1>1, <1>3 DEF Known, Counter
<1> QED
  BY <1>4 DEF i

\* AddTriple creates a triple and depends on the blobs it connects.
LEMMA AddTripleRefines ==
  ASSUME TypeInv, IInv, ReferencesDrawn, CountersBounded, NEW e \in Env,
         NEW b \in blobs[e], NEW object \in {None} \cup { c.id : c \in blobs[e] },
         AddTriple(e, b, object)
  PROVE  Store!StoreNext
<1>0. PICK s, x, i, row, j, k :
        /\ s = sid[e] /\ x = nextId["metadata"]
        /\ i = [relation |-> "Metadata", id |-> x]
        /\ row = [id |-> x, blob |-> b.id, object |-> object, visible |-> FALSE]
        /\ j = [relation |-> "Blob", id |-> b.id]
        /\ k = IF object = None THEN j ELSE [relation |-> "Blob", id |-> object]
  OBVIOUS
<1>1. /\ s \in SessionId /\ x \in Nat /\ x < MaxTriple
      /\ nextId \in [{"session", "file", "blob", "metadata"} -> Nat]
      /\ journal \in [SessionId -> Seq(JournalRow)]
      /\ \A m \in metadata : m.id \in Nat
  BY <1>0, SessionIdOfInside DEF AddTriple, TypeInv, TypeOK, DatabaseTypeOK, MetadataRow
<1>2. /\ i \in AllItems /\ i.relation = "Metadata" /\ i.id = x
      /\ row.id = x /\ ~row.visible /\ row.blob = b.id /\ row.object = object
  BY <1>0, <1>1, ItemFacts
<1>3. /\ DrawId("metadata") /\ metadata' = metadata \cup {row} /\ UNCHANGED <<file, blob>>
      /\ Log(s, "Metadata", x, "Add")
  BY <1>0 DEF AddTriple
<1>4. \A t \in SessionId : \A r, y, o :
        Journaled(t, r, y, o)' <=> \/ Journaled(t, r, y, o)
                                   \/ t = s /\ r = i.relation /\ y = i.id /\ o = "Add"
  <2>1. s \in SessionId /\ x \in Nat /\ Log(s, "Metadata", x, "Add")
    BY <1>1, <1>3
  <2> QED
    BY <1>1, <1>2, <2>1, LogEffect DEF Relation, Operation
<1>5. \A t \in SessionId : ~Added(t, i.relation, i.id)
  BY <1>0, <1>1, <1>2 DEF ReferencesDrawn, Added, Operation
<1>6. j \in Known /\ k \in Known
  BY <1>0, ObjectKnown
<1>7. \A a \in AllItems : a \in {j, k} <=> a.relation = "Blob" /\ a.id \in {b.id, object}
  <2>1. \A a \in AllItems : a.id # None /\ a = [relation |-> a.relation, id |-> a.id]
    BY ItemFacts, NoneAssumption
  <2>2. /\ j.relation = "Blob" /\ j.id = b.id
        /\ k.relation = "Blob" /\ (object # None => k.id = object)
        /\ object = None => k = j
    BY <1>0
  <2>3. ASSUME NEW a \in AllItems, a.relation = "Blob", a.id = b.id PROVE a = j
    BY <1>0, <2>1, <2>3
  <2>4. ASSUME NEW a \in AllItems, a.relation = "Blob", a.id = object PROVE a = k
    BY <1>0, <2>1, <2>4
  <2> QED
    BY <2>2, <2>3, <2>4
<1>8. \A m \in metadata : m.id # x
  BY <1>0, <1>1 DEF ReferencesDrawn
<1>9. /\ DrawId(Counter(i.relation)) /\ i.id = nextId[Counter(i.relation)]
      /\ Rows(i.relation)' = Rows(i.relation) \cup {row}
      /\ \A relation \in Relation \ {i.relation} : Rows(relation)' = Rows(relation)
  BY <1>0, <1>2, <1>3 DEF Counter, Rows, Relation
<1>10. Store!Create(s, i) /\ UNCHANGED <<Published, Removed>>
  BY <1>1, <1>2, <1>3, <1>4, <1>5, <1>9, CreateStep
<1>11. Depends' = [Depends EXCEPT ![s] = @ \cup {j, k}]
  <2> DEFINE Is(t, a) == /\ a.relation = "Blob"
                         /\ \/ Journaled(t, "Blob", a.id, "Store")
                            \/ \E m \in metadata :
                                 Added(t, "Metadata", m.id) /\ a.id \in {m.blob, m.object}
             Will(t, a) == /\ a.relation = "Blob"
                           /\ \/ Journaled(t, "Blob", a.id, "Store")'
                              \/ \E m \in metadata' :
                                   Added(t, "Metadata", m.id)' /\ a.id \in {m.blob, m.object}
             Old(t) == { a \in AllItems : Is(t, a) }
             New(t) == { a \in AllItems : Will(t, a) }
  <2>1. /\ Depends = [t \in SessionId |-> Old(t)]
        /\ Depends' = [t \in SessionId |-> New(t)]
    BY DEF Depends, Added, Journaled
  <2>2. ASSUME NEW t \in SessionId, NEW a \in AllItems
        PROVE  Will(t, a) <=> Is(t, a) \/ (t = s /\ a \in {j, k})
    <3>1. \A y : Added(t, "Metadata", y)' <=> Added(t, "Metadata", y) \/ (t = s /\ y = x)
      BY <1>2, <1>4 DEF Added
    <3>2. Journaled(t, "Blob", a.id, "Store")' <=> Journaled(t, "Blob", a.id, "Store")
      BY <1>2, <1>4
    <3>3. (\E m \in metadata' : Added(t, "Metadata", m.id)' /\ a.id \in {m.blob, m.object})
            <=> \/ \E m \in metadata :
                     Added(t, "Metadata", m.id) /\ a.id \in {m.blob, m.object}
                \/ t = s /\ a.id \in {b.id, object}
      BY <1>2, <1>3, <1>5, <1>8, <3>1
    <3> QED
      BY <1>7, <3>2, <3>3
  <2> HIDE DEF Is, Will
  <2>3. \A t \in SessionId : New(t) = IF t = s THEN Old(t) \cup {j, k} ELSE Old(t)
    <3>1. j \in AllItems /\ k \in AllItems
      BY <1>6 DEF Known
    <3> QED
      BY <2>2, <3>1
  <2> HIDE DEF Old, New
  <2> QED
    BY <2>1, <2>3
<1>12. Store!Describe(s, i, j, k)
  BY <1>6, <1>10, <1>11 DEF Store!Describe
<1> QED
  BY <1>1, <1>2, <1>6, <1>12 DEF Store!StoreNext, Store!Change

\* A step that neither creates a row nor publishes one keeps what is known,
\* published and created.
LEMMA NothingCreated ==
  ASSUME UNCHANGED <<file, blob, metadata, nextId>>,
         \A s \in SessionId : \A r, i : Added(s, r, i)' <=> Added(s, r, i)
  PROVE  UNCHANGED <<Known, Published, Created>>
<1>1. Known' = Known /\ Published' = Published
  BY DEF Known, Published, Counter, Rows
<1>2. Created' = Created
  BY DEF Created, Rows
<1> QED
  BY <1>1, <1>2

\* RemoveBlob wants a blob removed.
LEMMA RemoveBlobRefines ==
  ASSUME TypeInv, IInv, CountersBounded, NEW e \in Env, NEW b \in blobs[e],
         RemoveBlob(e, b)
  PROVE  Store!StoreNext
<1>0. PICK s, i : s = sid[e] /\ i = [relation |-> "Blob", id |-> b.id]
  OBVIOUS
<1>1. /\ s \in SessionId /\ b.id \in Nat /\ journal \in [SessionId -> Seq(JournalRow)]
      /\ Log(s, "Blob", b.id, "Remove")
      /\ UNCHANGED <<file, blob, metadata, nextId>>
  BY <1>0, SessionIdOfInside, IdsAreNumbers DEF RemoveBlob, TypeInv, TypeOK, DatabaseTypeOK
<1>2. i \in Known /\ i \in AllItems /\ i.relation = "Blob" /\ i.id = b.id
  BY <1>0, ObjectKnown DEF Known
<1>3. \A t \in SessionId : \A r, k, o :
        Journaled(t, r, k, o)' <=> \/ Journaled(t, r, k, o)
                                   \/ t = s /\ r = "Blob" /\ k = b.id /\ o = "Remove"
  BY <1>1, LogEffect DEF Relation, Operation
<1>4. UNCHANGED <<Known, Published, Created>>
  BY <1>1, <1>3, NothingCreated DEF Added
<1>5. Depends' = Depends
  BY <1>1, <1>3 DEF Depends, Added
<1>6. Removed' = [Removed EXCEPT ![s] = @ \cup {i}]
  <2> DEFINE Old(t) == { a \in AllItems : Journaled(t, a.relation, a.id, "Remove") }
             New(t) == { a \in AllItems : Journaled(t, a.relation, a.id, "Remove")' }
  <2>1. Removed = [t \in SessionId |-> Old(t)] /\ Removed' = [t \in SessionId |-> New(t)]
    BY DEF Removed
  <2>2. ASSUME NEW t \in SessionId, NEW a \in AllItems
        PROVE  Journaled(t, a.relation, a.id, "Remove")' <=>
                 Journaled(t, a.relation, a.id, "Remove") \/ (t = s /\ a = i)
    BY <1>2, <1>3, ItemFacts
  <2>3. \A t \in SessionId : New(t) = IF t = s THEN Old(t) \cup {i} ELSE Old(t)
    BY <1>2, <2>2
  <2> HIDE DEF Old, New
  <2> QED
    BY <2>1, <2>3
<1> QED
  BY <1>1, <1>2, <1>4, <1>5, <1>6 DEF Store!StoreNext, Store!Change, Store!Remove

\* StoreBlob stores into a blob.
LEMMA StoreBlobRefines ==
  ASSUME TypeInv, IInv, CountersBounded, NEW e \in Env, NEW b \in blobs[e],
         StoreBlob(e, b)
  PROVE  Store!StoreNext
<1>0. PICK s, i : s = sid[e] /\ i = [relation |-> "Blob", id |-> b.id]
  OBVIOUS
<1>1. /\ s \in SessionId /\ b.id \in Nat /\ journal \in [SessionId -> Seq(JournalRow)]
      /\ Log(s, "Blob", b.id, "Store")
      /\ UNCHANGED <<file, blob, metadata, nextId>>
  BY <1>0, SessionIdOfInside, IdsAreNumbers DEF StoreBlob, TypeInv, TypeOK, DatabaseTypeOK
<1>2. i \in Known /\ i \in AllItems /\ i.relation = "Blob" /\ i.id = b.id
  BY <1>0, ObjectKnown DEF Known
<1>3. \A t \in SessionId : \A r, k, o :
        Journaled(t, r, k, o)' <=> \/ Journaled(t, r, k, o)
                                   \/ t = s /\ r = "Blob" /\ k = b.id /\ o = "Store"
  BY <1>1, LogEffect DEF Relation, Operation
<1>4. UNCHANGED <<Known, Published, Created>>
  BY <1>1, <1>3, NothingCreated DEF Added
<1>5. Removed' = Removed
  BY <1>3 DEF Removed
<1>6. Depends' = [Depends EXCEPT ![s] = @ \cup {i}]
  <2> DEFINE Is(t, a) == /\ a.relation = "Blob"
                         /\ \/ Journaled(t, "Blob", a.id, "Store")
                            \/ \E m \in metadata :
                                 Added(t, "Metadata", m.id) /\ a.id \in {m.blob, m.object}
             Will(t, a) == /\ a.relation = "Blob"
                           /\ \/ Journaled(t, "Blob", a.id, "Store")'
                              \/ \E m \in metadata :
                                   Added(t, "Metadata", m.id)' /\ a.id \in {m.blob, m.object}
             Old(t) == { a \in AllItems : Is(t, a) }
             New(t) == { a \in AllItems : Will(t, a) }
  <2>1. Depends = [t \in SessionId |-> Old(t)] /\ Depends' = [t \in SessionId |-> New(t)]
    BY <1>1 DEF Depends, Added, Journaled
  <2>2. ASSUME NEW t \in SessionId, NEW a \in AllItems
        PROVE  Will(t, a) <=> Is(t, a) \/ (t = s /\ a = i)
    <3>1. a = i <=> a.relation = "Blob" /\ a.id = b.id
      BY <1>2, ItemFacts
    <3>2. \A y : Added(t, "Metadata", y)' <=> Added(t, "Metadata", y)
      BY <1>3 DEF Added
    <3>3. Journaled(t, "Blob", a.id, "Store")' <=>
            Journaled(t, "Blob", a.id, "Store") \/ (t = s /\ a.id = b.id)
      BY <1>3
    <3> QED
      BY <3>1, <3>2, <3>3
  <2> HIDE DEF Is, Will
  <2>3. \A t \in SessionId : New(t) = IF t = s THEN Old(t) \cup {i} ELSE Old(t)
    BY <1>2, <2>2
  <2> HIDE DEF Old, New
  <2> QED
    BY <2>1, <2>3
<1> QED
  BY <1>1, <1>2, <1>4, <1>5, <1>6 DEF Store!StoreNext, Store!Change, Store!Store

-----------------------------------------------------------------------------
(* Commits. *)

\* What a session makes visible of a table.
LEMMA MadeVisibleRows ==
  ASSUME NEW s, NEW relation, NEW rows,
         rows \in SUBSET FileRow \/ rows \in SUBSET BlobRow \/ rows \in SUBSET MetadataRow
  PROVE  \A id :
           /\ (\E q \in MadeVisible(s, relation, rows) : q.id = id /\ q.visible) <=>
                \E r \in rows : r.id = id /\ (r.visible \/ Added(s, relation, id))
           /\ (\E q \in MadeVisible(s, relation, rows) : q.id = id /\ ~q.visible) <=>
                \E r \in rows : r.id = id /\ ~r.visible /\ ~Added(s, relation, id)
<1>1. \A r \in rows : LET q == [r EXCEPT !.visible = TRUE] IN q.id = r.id /\ q.visible = TRUE
  BY DEF FileRow, BlobRow, MetadataRow
<1>2. \A r \in rows : IF Added(s, relation, r.id)
                      THEN \E q \in MadeVisible(s, relation, rows) : q.id = r.id /\ q.visible
                      ELSE r \in MadeVisible(s, relation, rows)
  BY <1>1 DEF MadeVisible, Added
<1>3. \A q \in MadeVisible(s, relation, rows) : \E r \in rows :
        /\ r.id = q.id
        /\ \/ q.visible /\ Added(s, relation, r.id)
           \/ q = r /\ ~Added(s, relation, r.id)
  BY <1>1 DEF MadeVisible, Added
<1> QED
  BY <1>2, <1>3

\* Publish commits all of its session at once.
LEMMA PublishRefines ==
  ASSUME TypeInv, IInv, ReferencesDrawn, ChangesSeen, TriplesAdded, CheckStillValid,
         NEW e \in Env, Publish(e)
  PROVE  Store!StoreNext
<1>0. PICK s : s = sid[e]
  OBVIOUS
<1>1. /\ s \in SessionId /\ ~Invalidated(s)
      /\ journal \in [SessionId -> Seq(JournalRow)] /\ journal' = FlushedJournal(s)
      /\ file \in SUBSET FileRow /\ blob \in SUBSET BlobRow /\ metadata \in SUBSET MetadataRow
      /\ nextId' = nextId
  BY <1>0, SessionIdOfInside DEF Publish, TypeInv, TypeOK, DatabaseTypeOK, CheckStillValid
<1>2. \A t \in SessionId : \A r, k, o : Journaled(t, r, k, o)' <=> t # s /\ Journaled(t, r, k, o)
  BY <1>1, FlushEffect
<1>3. \A t \in SessionId : \A r, k : Added(t, r, k)' <=> t # s /\ Added(t, r, k)
  BY <1>2 DEF Added
<1>4. \A a \in AllItems : /\ a.relation \in {"File", "Blob", "Metadata"}
                         /\ a.id \in Nat /\ a.id # None
  BY ItemFacts, NoneAssumption
<1> DEFINE InFile(a, v) == \E r \in file : r.id = a.id /\ r.visible = v
           InBlob(a, v) == \E r \in blob : r.id = a.id /\ r.visible = v
           InMetadata(a, v) == \E r \in metadata : r.id = a.id /\ r.visible = v
           In(a, v) == \E r \in Rows(a.relation) : r.id = a.id /\ r.visible = v
           InNext(a, v) == \E r \in Rows(a.relation)' : r.id = a.id /\ r.visible = v
           Wants(t, a) == Journaled(t, a.relation, a.id, "Remove")
\* The rows after the commit.
<1>5. ASSUME NEW a \in AllItems
      PROVE  /\ InNext(a, TRUE) <=>
                  /\ In(a, TRUE) \/ (In(a, FALSE) /\ Added(s, a.relation, a.id))
                  /\ ~Wants(s, a)
             /\ InNext(a, FALSE) <=>
                  In(a, FALSE) /\ ~Added(s, a.relation, a.id) /\ ~Wants(s, a)
  <2>0. /\ \A r \in file : r.visible \in BOOLEAN
        /\ \A r \in blob : r.visible \in BOOLEAN
        /\ \A r \in metadata : r.visible \in BOOLEAN
    BY <1>1 DEF FileRow, BlobRow, MetadataRow
  <2> DEFINE kept == { b \in blob : ~RemovedBy(s, b) }
  <2>1. /\ file' = MadeVisible(s, "File", file)
        /\ blob' = MadeVisible(s, "Blob", kept)
        /\ metadata' = MadeVisible(s, "Metadata", metadata)
    BY <1>0 DEF Publish
  <2>2. \A b \in blob : b \in kept <=> ~Journaled(s, "Blob", b.id, "Remove")
    <3>1. \A b \in blob : ~Journaled(s, "Metadata", b.id, "Remove")
      BY <1>1, JournaledTyped DEF TriplesAdded, Operation
    <3> QED
      BY <3>1 DEF RemovedBy
  <2>3. kept \in SUBSET BlobRow /\ kept \subseteq blob
    BY <1>1
  <2> HIDE DEF kept
  <2>4. CASE a.relation = "File"
    <3>1. ~Wants(s, a)
      BY <1>1, <1>4, <2>4 DEF IInv, DbInv, JournalSound, Operation
    <3>2. /\ (\E q \in file' : q.id = a.id /\ q.visible) <=>
               \E r \in file : r.id = a.id /\ (r.visible \/ Added(s, "File", a.id))
          /\ (\E q \in file' : q.id = a.id /\ ~q.visible) <=>
               \E r \in file : r.id = a.id /\ ~r.visible /\ ~Added(s, "File", a.id)
      BY <1>1, <2>1, MadeVisibleRows
    <3>3. \A q \in file' : q.visible \in BOOLEAN
      BY <1>1, <2>1, MadeVisibleType DEF FileRow
    <3> QED
      BY <2>0, <2>4, <3>1, <3>2, <3>3 DEF Rows
  <2>5. CASE a.relation = "Metadata"
    <3>1. ~Wants(s, a)
      BY <1>1, <1>4, <2>5 DEF TriplesAdded, Operation
    <3>2. /\ (\E q \in metadata' : q.id = a.id /\ q.visible) <=>
               \E r \in metadata : r.id = a.id /\ (r.visible \/ Added(s, "Metadata", a.id))
          /\ (\E q \in metadata' : q.id = a.id /\ ~q.visible) <=>
               \E r \in metadata : r.id = a.id /\ ~r.visible /\ ~Added(s, "Metadata", a.id)
      BY <1>1, <2>1, MadeVisibleRows
    <3>3. \A q \in metadata' : q.visible \in BOOLEAN
      BY <1>1, <2>1, MadeVisibleType DEF MetadataRow
    <3> QED
      BY <2>0, <2>5, <3>1, <3>2, <3>3 DEF Rows
  <2>6. CASE a.relation = "Blob"
    BY <1>1, <2>0, <2>1, <2>2, <2>3, <2>6, MadeVisibleRows DEF Rows
  <2> QED
    BY <1>4, <2>4, <2>5, <2>6
\* What another session has created stays.
<1>6. ASSUME NEW t \in SessionId, t # s, NEW a \in AllItems, Added(t, a.relation, a.id),
             In(a, FALSE)
      PROVE  ~Added(s, a.relation, a.id) /\ ~Wants(s, a)
  <2>1. ~Added(s, a.relation, a.id)
    BY <1>1, <1>4, <1>6 DEF IInv, DbInv, JournalSound, TriplesAdded
  <2>2. ASSUME Wants(s, a) PROVE FALSE
    <3>1. a.relation = "Blob"
      BY <1>1, <1>4, <2>2 DEF IInv, DbInv, JournalSound, TriplesAdded, Operation
    <3>2. SeenBy(s, a.id)
      BY <1>1, <1>4, <2>2, <3>1 DEF ChangesSeen, Operation
    <3> QED
      BY <1>6, <2>1, <3>1, <3>2 DEF SeenBy, Rows
  <2> QED
    BY <2>1, <2>2
<1>7. /\ Published = { a \in AllItems : In(a, TRUE) }
      /\ Published' = { a \in AllItems : InNext(a, TRUE) }
  <2>1. \A a \in AllItems : \A r \in Rows(a.relation) : r.visible \in BOOLEAN
    BY <1>1 DEF Rows, FileRow, BlobRow, MetadataRow
  <2> QED
    BY <2>1 DEF Published
<1>8. /\ Created = [t \in SessionId |->
                       { a \in AllItems : Added(t, a.relation, a.id) /\ In(a, FALSE) }]
      /\ Created' = [t \in SessionId |->
                       { a \in AllItems : Added(t, a.relation, a.id)' /\ InNext(a, FALSE) }]
  <2>1. \A a \in AllItems : \A r \in Rows(a.relation) : r.visible \in BOOLEAN
    BY <1>1 DEF Rows, FileRow, BlobRow, MetadataRow
  <2>2. \A a \in AllItems : \A r \in Rows(a.relation)' : r.visible \in BOOLEAN
    <3>1. \A q \in file' : q.visible \in BOOLEAN
      BY <1>0, <1>1, MadeVisibleType DEF Publish, FileRow
    <3>2. \A q \in blob' : q.visible \in BOOLEAN
      <4>1. { b \in blob : ~RemovedBy(s, b) } \in SUBSET BlobRow
        BY <1>1
      <4> QED
        BY <1>0, <4>1, MadeVisibleType DEF Publish, BlobRow
    <3>3. \A q \in metadata' : q.visible \in BOOLEAN
      BY <1>0, <1>1, MadeVisibleType DEF Publish, MetadataRow
    <3> QED
      BY <3>1, <3>2, <3>3 DEF Rows
  <2> QED
    BY <2>1, <2>2 DEF Created, Added, Journaled
<1>9. Removed[s] = { a \in AllItems : Wants(s, a) }
  BY <1>1 DEF Removed
<1>10. Depends[s] \subseteq Published \cup Created[s]
  <2> SUFFICES ASSUME NEW a \in AllItems, a.relation = "Blob",
                      \/ Journaled(s, "Blob", a.id, "Store")
                      \/ \E m \in metadata :
                           Added(s, "Metadata", m.id) /\ a.id \in {m.blob, m.object}
               PROVE  a \in Published \/ a \in Created[s]
    BY <1>1 DEF Depends
  <2>1. BlobExists(a.id)
    BY <1>1, <1>4, InvalidatedBy DEF Added
  <2>2. SeenBy(s, a.id)
    BY <1>1, <1>4 DEF ChangesSeen, Operation
  <2>3. PICK r \in blob : r.id = a.id /\ (r.visible \/ Added(s, "Blob", a.id))
    BY <2>1, <2>2 DEF BlobExists, SeenBy
  <2>4. CASE r.visible
    BY <2>3, <2>4 DEF Published, Rows
  <2>5. CASE ~r.visible
    BY <1>1, <2>3, <2>5 DEF Created, Rows
  <2> QED
    BY <2>4, <2>5
<1> HIDE DEF In, InNext, Wants
<1>11. Published' = (Published \cup Created[s]) \ Removed[s]
  BY <1>1, <1>5, <1>7, <1>8, <1>9
<1>12. Created' = [Created EXCEPT ![s] = {}]
  <2> DEFINE Old(t) == { a \in AllItems : Added(t, a.relation, a.id) /\ In(a, FALSE) }
             New(t) == { a \in AllItems : Added(t, a.relation, a.id)' /\ InNext(a, FALSE) }
  <2>1. ASSUME NEW t \in SessionId
        PROVE  New(t) = IF t = s THEN {} ELSE Old(t)
    <3>1. \A a \in AllItems : Added(t, a.relation, a.id)' <=> t # s /\ Added(t, a.relation, a.id)
      BY <1>3
    <3> QED
      BY <1>5, <1>6, <3>1
  <2>2. Created = [t \in SessionId |-> Old(t)] /\ Created' = [t \in SessionId |-> New(t)]
    BY <1>8
  <2> HIDE DEF Old, New
  <2> QED
    BY <2>1, <2>2
<1>13. Removed' = [Removed EXCEPT ![s] = {}]
  <2> DEFINE Old(t) == { a \in AllItems : Journaled(t, a.relation, a.id, "Remove") }
             New(t) == { a \in AllItems : Journaled(t, a.relation, a.id, "Remove")' }
  <2>1. \A t \in SessionId : New(t) = IF t = s THEN {} ELSE Old(t)
    BY <1>2
  <2>2. Removed = [t \in SessionId |-> Old(t)] /\ Removed' = [t \in SessionId |-> New(t)]
    BY DEF Removed
  <2> HIDE DEF Old, New
  <2> QED
    BY <2>1, <2>2
<1>14. Depends' = [Depends EXCEPT ![s] = {}]
  <2> DEFINE Is(t, a) == /\ a.relation = "Blob"
                         /\ \/ Journaled(t, "Blob", a.id, "Store")
                            \/ \E m \in metadata :
                                 Added(t, "Metadata", m.id) /\ a.id \in {m.blob, m.object}
             Will(t, a) == /\ a.relation = "Blob"
                           /\ \/ Journaled(t, "Blob", a.id, "Store")'
                              \/ \E m \in metadata' :
                                   Added(t, "Metadata", m.id)' /\ a.id \in {m.blob, m.object}
             Old(t) == { a \in AllItems : Is(t, a) }
             New(t) == { a \in AllItems : Will(t, a) }
  <2>1. Depends = [t \in SessionId |-> Old(t)] /\ Depends' = [t \in SessionId |-> New(t)]
    BY DEF Depends, Added, Journaled
  <2>2. /\ \A q \in metadata' : \E m \in metadata :
             m.id = q.id /\ m.blob = q.blob /\ m.object = q.object
        /\ \A m \in metadata : \E q \in metadata' :
             q.id = m.id /\ q.blob = m.blob /\ q.object = m.object
    <3>1. \A m \in metadata : LET q == [m EXCEPT !.visible = TRUE]
                              IN  q.id = m.id /\ q.blob = m.blob /\ q.object = m.object
      BY <1>1 DEF MetadataRow
    <3> QED
      BY <3>1 DEF Publish, MadeVisible
  <2>3. ASSUME NEW t \in SessionId, NEW a \in AllItems
        PROVE  Will(t, a) <=> t # s /\ Is(t, a)
    BY <1>2, <1>3, <2>2
  <2> HIDE DEF Is, Will
  <2>4. \A t \in SessionId : New(t) = IF t = s THEN {} ELSE Old(t)
    BY <2>3
  <2> HIDE DEF Old, New
  <2> QED
    BY <2>1, <2>4
<1>15. Known' = Known
  BY <1>1 DEF Known
<1> QED
  BY <1>1, <1>10, <1>11, <1>12, <1>13, <1>14, <1>15
     DEF Store!StoreNext, Store!Commit, Store!Sees
-----------------------------------------------------------------------------
(* Every step. *)

\* Between the changes of a session and the second transaction of its commit
\* nothing happens to what it has created, removed or needs.
LEMMA OthersStutter ==
  ASSUME TypeInv, NeverRollingBack, NEW e \in Env, Step(e),
         ~CreateFile(e),
         \A f \in files[e], n \in Name : ~AddBlob(e, f, n),
         \A b \in blobs[e] : ~RemoveBlob(e, b) /\ ~StoreBlob(e, b),
         \A b \in blobs[e], object \in {None} \cup { c.id : c \in blobs[e] } :
           ~AddTriple(e, b, object),
         ~Publish(e)
  PROVE  UNCHANGED <<Known, Published, Created, Removed, Depends>>
<1>1. ~RollbackRows(e)
  BY DEF RollbackRows, NeverRollingBack
<1>2. UNCHANGED <<file, blob, metadata>>
  <2>1. CASE Command(e)
    BY <2>1 DEF Command, StartSession, GetFile, GetBlob, CommitPasses, CommitRejected,
       Rollback, Exit, CleanSessions, dbVars
  <2>2. CASE Continue(e)
    BY <1>1, <2>2 DEF Continue, CloseReplaced, ApplySelect, ApplyRow, Finish, CommitEnd,
       CloseFile, CloseBlob, ExitEnd, dbVars
  <2>3. CASE Fault(e)
    BY <2>3 DEF Fault, GetFileThrows, StoreBlobThrows, CommitThrows, FinishThrows,
       RollbackThrows, Crash, dbVars
  <2> QED
    BY <2>1, <2>2, <2>3 DEF Step
<1>3. \A t \in {"file", "blob", "metadata"} : nextId'[t] = nextId[t]
  <2>0. nextId \in [{"session", "file", "blob", "metadata"} -> Nat]
    BY DEF TypeInv, TypeOK, DatabaseTypeOK
  <2>1. CASE Command(e)
    BY <2>0, <2>1 DEF Command, StartSession, DrawId, GetFile, GetBlob, CommitPasses,
       CommitRejected, Rollback, Exit, CleanSessions, dbVars
  <2>2. CASE Continue(e)
    BY <1>1, <2>2 DEF Continue, CloseReplaced, ApplySelect, ApplyRow, Finish, CommitEnd,
       CloseFile, CloseBlob, ExitEnd, dbVars
  <2>3. CASE Fault(e)
    BY <2>3 DEF Fault, GetFileThrows, StoreBlobThrows, CommitThrows, FinishThrows,
       RollbackThrows, Crash, dbVars
  <2> QED
    BY <2>1, <2>2, <2>3 DEF Step
<1>4. journal' = journal \/ ApplyRow(e)
  <2>1. CASE Command(e)
    BY <2>1 DEF Command, StartSession, GetFile, GetBlob, CommitPasses, CommitRejected,
       Rollback, Exit, CleanSessions, dbVars
  <2>2. CASE Continue(e)
    BY <1>1, <2>2 DEF Continue, CloseReplaced, ApplySelect, Finish, CommitEnd,
       CloseFile, CloseBlob, ExitEnd, dbVars
  <2>3. CASE Fault(e)
    BY <2>3 DEF Fault, GetFileThrows, StoreBlobThrows, CommitThrows, FinishThrows,
       RollbackThrows, Crash, dbVars
  <2> QED
    BY <2>1, <2>2, <2>3 DEF Step
<1>5. \A s \in SessionId : \A r, i, o : Journaled(s, r, i, o)' <=> Journaled(s, r, i, o)
  <2>1. CASE journal' = journal
    BY <2>1, UnchangedJournal
  <2>2. CASE ApplyRow(e)
    <3>1. PICK s, i : s = sid[e] /\ journal' = [journal EXCEPT ![s][i].executed = TRUE]
      BY <2>2 DEF ApplyRow
    <3>2. s \in SessionId /\ journal \in [SessionId -> Seq(JournalRow)]
      BY <2>2, <3>1, SessionIdOfInside DEF ApplyRow, TypeInv, TypeOK, DatabaseTypeOK
    <3> QED
      BY <3>1, <3>2, ExecuteEffect
  <2> QED
    BY <1>4, <2>1, <2>2
<1> QED
  BY <1>2, <1>3, <1>5, Silent

\* Every step is a step of SessionStore or changes nothing there.
LEMMA StepRefines ==
  ASSUME TypeInv, IInv, SessionInv, CommitInv, "rollback" \notin Commands, [Next]_vars
  PROVE  [Store!StoreNext]_(Store!vars)
<1>0. /\ ReferencesDrawn /\ CountersBounded /\ ChangesSeen /\ TriplesAdded
      /\ NeverRollingBack /\ CheckStillValid
  BY DEF SessionInv, CommitInv
<1>1. CASE UNCHANGED vars
  <2>1. /\ UNCHANGED <<file, blob, metadata, journal>>
        /\ \A t \in {"file", "blob", "metadata"} : nextId'[t] = nextId[t]
    BY <1>1 DEF vars, dbVars
  <2>2. UNCHANGED <<Known, Published, Created, Removed, Depends>>
    BY <2>1, UnchangedJournal, Silent
  <2> QED
    BY <2>2 DEF Store!vars
<1>2. ASSUME NEW e \in Env, Step(e) PROVE [Store!StoreNext]_(Store!vars)
  <2>1. CASE CreateFile(e)
    BY <2>1, CreateFileRefines
  <2>2. CASE \E f \in files[e], n \in Name : AddBlob(e, f, n)
    BY <2>2, AddBlobRefines
  <2>3. CASE \E b \in blobs[e] : RemoveBlob(e, b)
    BY <1>0, <2>3, RemoveBlobRefines
  <2>4. CASE \E b \in blobs[e] : StoreBlob(e, b)
    BY <1>0, <2>4, StoreBlobRefines
  <2>5. CASE \E b \in blobs[e], object \in {None} \cup { c.id : c \in blobs[e] } :
               AddTriple(e, b, object)
    BY <1>0, <2>5, AddTripleRefines
  <2>6. CASE Publish(e)
    BY <1>0, <2>6, PublishRefines
  <2>7. CASE UNCHANGED <<Known, Published, Created, Removed, Depends>>
    BY <2>7 DEF Store!vars
  <2> QED
    BY <1>0, <1>2, <2>1, <2>2, <2>3, <2>4, <2>5, <2>6, <2>7, OthersStutter
<1> QED
  BY <1>1, <1>2 DEF Next, Step

\* Where no session rolls back, every behaviour of the processes, with all that
\* crashes and throws, is one in which the changes of a session become visible
\* at once in the second transaction of its commit, and only if all it stored
\* into or described is still there (commitSession, nextID).
THEOREM ImplementsStoreHolds ==
  ASSUME "rollback" \notin Commands
  PROVE  Spec => ImplementsStore
<1>1. /\ [](TypeInv /\ IInv /\ SessionInv /\ CommitInv) /\ [][Next]_vars
        => [][Store!StoreNext]_(Store!vars)
  <2>1. /\ TypeInv /\ IInv /\ SessionInv /\ CommitInv
        /\ [Next]_vars
        => [Store!StoreNext]_(Store!vars)
    BY StepRefines
  <2> QED
    BY <2>1, PTL
<1> QED
  BY <1>1, InitRefines, CommitInvariant, PTL DEF Spec, ImplementsStore, Store!StoreSpec
=============================================================================

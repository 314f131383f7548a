-------------------------- MODULE SessionProperties -------------------------
(***************************************************************************)
(* What the sessions of Sessions promise.  Each property names the code it *)
(* is about.  Those stated as an implication from Commands or Faults hold  *)
(* only where these rule out what the premise names.                       *)
(***************************************************************************)
EXTENDS Sessions

\* Before its second transaction a session owns what it has journaled.
Owner(e) == sid[e] # None /\ pc[e] \in {"idle", "replace", "select", "apply"}

Added(s, relation, id) == Journaled(s, relation, id, "Add")

-----------------------------------------------------------------------------
(* The tables. *)

\* A row of file or blob is invisible exactly as long as one session has its
\* creation in the journal, and that session is only one.  A commit, a
\* rollback, or a commit cut short by an exception or a crash never leaves an
\* invisible row that no session can publish or delete, and never a published
\* one that a rollback would take away (commitSession steps 1, 2 and 6 against
\* rollbackSession).
PendingExactly ==
  /\ \A f \in file : ~f.visible <=> \E s \in SessionId : Added(s, "File", f.id)
  /\ \A b \in blob : ~b.visible <=> \E s \in SessionId : Added(s, "Blob", b.id)
  /\ \A s, t \in SessionId : s # t =>
       /\ \A f \in file : ~(Added(s, "File", f.id) /\ Added(t, "File", f.id))
       /\ \A b \in blob : ~(Added(s, "Blob", b.id) /\ Added(t, "Blob", b.id))

\* schema.sql:28, "unique (file_id, name)", and schema.sql:23, "references
\* file (id)": constraints the schema does not declare, so that only addBlob's
\* check and the order of rollback and publication keep them, whatever the
\* sessions that create, remove and roll back files and blobs at once do.
BlobTableSound ==
  /\ \A b, c \in blob : b.file = c.file /\ b.name = c.name => b = c
  /\ \A b \in blob : \E f \in file : f.id = b.file

\* schema.sql:71, "references session (id)": no commit, rollback, crash or exit
\* leaves journal rows of a session whose row is gone, which nothing would ever
\* publish or delete.
JournalHasSession ==
  \A s \in SessionId : journal[s] # << >> => s \in session

-----------------------------------------------------------------------------
(* Objects and handles. *)

\* No session ever holds an object for a row another session has created and
\* not committed: getFile refuses invisible files, getBlob skips invisible
\* blobs, and neither a rollback nor a commit makes a row change hands.
NoDirtyReads ==
  \A e \in Env : sid[e] # None =>
    /\ \A f \in files[e], r \in file :
         r.id = f => r.visible \/ Added(sid[e], "File", f)
    /\ \A b \in blobs[e], r \in blob :
         r.id = b.id => r.visible \/ Added(sid[e], "Blob", b.id)

\* As long as a session can still commit, every object its process holds has
\* its handle row, also while other processes run cleanSessions, commit, roll
\* back or replace objects of the same name: isolation checks read nothing else.
ObjectsHaveHandles ==
  \A e \in Env : Owner(e) =>
    /\ \A f \in files[e] : FileHandle(f, sid[e]) \in handle
    /\ \A b \in blobs[e] : BlobHandle(b.id, sid[e]) \in handle

\* A handle stands for an object: replacing an object in a buffer, the end of a
\* commit, a rollback and an exit leave no handle behind, which would keep every
\* later commit of the others from being isolated.  Only a crash does.
HandlesHaveObjects ==
  "crash" \notin Faults =>
    \A h \in handle : \E e \in Env :
      /\ h.session = sid[e]
      /\ \/ h.relation = "File" /\ h.id \in files[e]
         \/ h.relation = "Blob" /\ \E b \in blobs[e] : b.id = h.id

-----------------------------------------------------------------------------
(* Commits. *)

\* What step 0.3 of commitSession has checked still holds when the second
\* transaction publishes, several transactions later: no blob the session
\* stored into or described has been removed meanwhile (environment.cpp:78,
\* "Make sure no other session invalidated this one").
CheckStillValid ==
  \A e \in Env : pc[e] \in {"select", "apply"} => ~Invalidated(sid[e])

\* Two sessions that both have changes of one committed blob pending block each
\* other at every safe level, whatever else they do: neither overwrites or
\* removes what the other is about to publish (thesis, scenario 2).
ConflictsBlock ==
  \A d, e \in Env : d # e /\ Owner(d) /\ Owner(e) =>
    \A b \in blob, op, oq \in {"Store", "Remove"} :
      Journaled(sid[d], "Blob", b.id, op) /\ Journaled(sid[e], "Blob", b.id, oq)
        => \A level \in Levels \ {"unsafe"} : ~IsIsolated(level, sid[d])

\* The levels are ordered wherever a commit can ask for them: what passes full
\* passes almost-full, what passes that passes file-exclusive, and, while nobody
\* is between the destructors of a rollback or an exit, what passes
\* file-exclusive passes blob-exclusive.
LevelsOrdered ==
  LockFree => \A e \in Env : InSession(e) =>
    /\ FullIsolation(sid[e]) => AlmostFullIsolation(sid[e])
    /\ AlmostFullIsolation(sid[e]) => FileExclusiveIsolation(sid[e])
    /\ "crash" \notin Faults /\ (\A d \in Env : ~Clearing(d)) =>
         (FileExclusiveIsolation(sid[e]) => BlobExclusiveIsolation(sid[e]))

\* What session sid[e] writes under the key will be committed with it, or its
\* commit be refused.
StoreJournaled(e, key) ==
  \/ \E b \in blobs[e] : /\ <<b.file, b.name>> = key
                        /\ Journaled(sid[e], "Blob", b.id, "Store")
  \/ Invalidated(sid[e])

\* Where a key is in VFS::modified, the running session has journaled the store:
\* this survives commits that fail and are retried, commits that succeed, and
\* other sessions removing the blob and its name being used again (getBlobPath
\* against Transaction::finish and Blob::remove).
StoresJournaled ==
  "rollback" \notin Commands /\ {"store", "finish"} \cap Faults = {} =>
    \A e \in Env : Owner(e) => \A key \in modified[e] : StoreJournaled(e, key)

-----------------------------------------------------------------------------
(* What the documentation says and the code does not do. *)

\* A rollback takes back the session's own work and nothing that was committed
\* before it (thesis, section 3.1: "a rollback to the state before the first
\* operation occurs"; rollbackSession deletes every blob the session journaled,
\* and the ids of its triples once more as ids of blobs).
RollbackKeepsCommitted ==
  [][\A e \in Env : RollbackRows(e) => \A b \in blob : b.visible => b \in blob']_vars

\* Where all commits ask for almost-full and nobody rolls back, no session is
\* ever invalidated (thesis, theorem 4).  The check is made in one transaction
\* and its result used in a later one, and handles opened between them are not
\* seen.
AlmostFullNeverInvalidates ==
  \A e \in Env : InSession(e) => ~Invalidated(sid[e])

-----------------------------------------------------------------------------
(* Progress. *)

\* A commit that has taken the lock gives it back, whatever the other processes
\* do meanwhile.
LockReleased == \A e \in Env : lock = e ~> lock # e

\* Whoever clears its buffer gets to the end of it: the other processes cannot
\* keep a rollback, an exit or a commit from closing its handles.
ClearingEnds == \A e \in Env : Clearing(e) ~> ~Clearing(e)
=============================================================================

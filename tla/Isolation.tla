------------------------------ MODULE Isolation -----------------------------
(***************************************************************************)
(* The queries a commit asks before it does anything: the isolation level  *)
(* (src/isolation/impl) and the invalidation check of commitSession.  The  *)
(* argument s is the session that wants to commit.                         *)
(***************************************************************************)
EXTENDS Database

Levels == {"full", "almost-full", "file-exclusive", "blob-exclusive", "unsafe"}

\* Another session holds a handle on the object.
OpenElsewhere(s, relation, id) ==
  \E h \in handle : h.relation = relation /\ h.id = id /\ h.session # s

\* The join of a metadata row with the blobs it connects.
Connects(m, b) == m.blob = b.id \/ m.object = b.id

FileOfBlobOpenElsewhere(s, b) ==
  \E f \in file : f.id = b.file /\ OpenElsewhere(s, "File", f.id)

\* full.cpp: no other session alive.
FullIsolation(s) == session \subseteq {s}

\* almost-full.cpp: other sessions may be alive but have no handle open.
AlmostFullIsolation(s) == \A h \in handle : h.session = s

\* Mutant: triples are left out.
FileExclusiveNoTriples(s) ==
  \A i \in DOMAIN journal[s] :
    LET j == journal[s][i] IN
    /\ ~OpenElsewhere(s, j.relation, j.relId)
    /\ j.relation = "Blob" =>
         \A b \in blob : b.id = j.relId => ~FileOfBlobOpenElsewhere(s, b)

\* file-exclusive.cpp: nothing journaled is open elsewhere, nor is the file
\* of a journaled blob, nor the file of a blob of a journaled triple.
FileExclusiveIsolation(s) ==
  \A i \in DOMAIN journal[s] :
    LET j == journal[s][i] IN
    /\ ~OpenElsewhere(s, j.relation, j.relId)
    /\ j.relation = "Blob" =>
         \A b \in blob : b.id = j.relId => ~FileOfBlobOpenElsewhere(s, b)
    /\ j.relation = "Metadata" =>
         \A m \in metadata, b \in blob :
           m.id = j.relId /\ Connects(m, b) => ~FileOfBlobOpenElsewhere(s, b)

\* Mutant: only stores count as changes of a blob.
BlobExclusiveForStores(s) ==
  \A i \in DOMAIN journal[s] :
    journal[s][i].op = "Store" => ~OpenElsewhere(s, "Blob", journal[s][i].relId)

\* blob-exclusive.cpp: no journaled blob and no blob of a journaled triple
\* is open elsewhere.
BlobExclusiveIsolation(s) ==
  \A i \in DOMAIN journal[s] :
    LET j == journal[s][i] IN
    /\ j.relation = "Blob" => ~OpenElsewhere(s, "Blob", j.relId)
    /\ j.relation = "Metadata" =>
         \A m \in metadata, b \in blob :
           m.id = j.relId /\ Connects(m, b) => ~OpenElsewhere(s, "Blob", b.id)

IsIsolated(level, s) ==
  CASE level = "full" -> FullIsolation(s)
    [] level = "almost-full" -> AlmostFullIsolation(s)
    [] level = "file-exclusive" -> FileExclusiveIsolation(s)
    [] level = "blob-exclusive" -> BlobExclusiveIsolation(s)
    [] level = "unsafe" -> TRUE

\* commitSession, step 0.3: the session stored into a blob, or added metadata
\* to or about a blob, whose row is gone.
Invalidated(s) ==
  \E i \in DOMAIN journal[s] :
    LET j == journal[s][i] IN
    \/ j.relation = "Blob" /\ j.op = "Store" /\ ~BlobExists(j.relId)
    \/ /\ j.relation = "Metadata"
       /\ \E m \in metadata :
            /\ m.id = j.relId
            /\ \/ ~BlobExists(m.blob)
               \/ m.object # None /\ ~BlobExists(m.object)
=============================================================================

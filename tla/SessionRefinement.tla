-------------------------- MODULE SessionRefinement -------------------------
(***************************************************************************)
(* The sessions of Sessions implement SessionStore: everything a session   *)
(* changed becomes visible in the second transaction of its commit, and no *)
(* step before or after it changes what anybody sees.                      *)
(***************************************************************************)
EXTENDS SessionProperties

\* The tables whose rows become visible.
Rows(relation) ==
  CASE relation = "File" -> file [] relation = "Blob" -> blob [] OTHER -> metadata

Counter(relation) ==
  CASE relation = "File" -> "file" [] relation = "Blob" -> "blob" [] OTHER -> "metadata"

Largest(m, n) == IF m < n THEN n ELSE m

\* The ids these tables can draw.
AllItems ==
  [relation : {"File"}, id : 0 .. Largest(SeedFiles, MaxFile) - 1]
    \cup [relation : {"Blob"}, id : 0 .. Largest(Len(SeedBlobs), MaxBlob) - 1]
    \cup [relation : {"Metadata"}, id : 0 .. MaxTriple - 1]

\* Drawn from its counter.
Known == { i \in AllItems : i.id < nextId[Counter(i.relation)] }

Published ==
  { i \in AllItems : \E r \in Rows(i.relation) : r.id = i.id /\ r.visible }

Created == [s \in SessionId |->
  { i \in AllItems : /\ Added(s, i.relation, i.id)
                     /\ \E r \in Rows(i.relation) : r.id = i.id /\ ~r.visible }]

Removed == [s \in SessionId |->
  { i \in AllItems : Journaled(s, i.relation, i.id, "Remove") }]

\* The blobs the session stores into, and those its triples connect.
Depends == [s \in SessionId |->
  { i \in AllItems :
      /\ i.relation = "Blob"
      /\ \/ Journaled(s, "Blob", i.id, "Store")
         \/ \E m \in metadata : Added(s, "Metadata", m.id) /\ i.id \in {m.blob, m.object} }]

Store == INSTANCE SessionStore WITH
  Item <- AllItems,
  Session <- SessionId,
  known <- Known,
  published <- Published,
  created <- Created,
  removed <- Removed,
  depends <- Depends

\* Whatever the other sessions do, a commit shows all of its session's changes
\* at once and only if what it stored into or described is still there; nothing
\* else ever changes what is visible, and no id is drawn twice (commitSession,
\* nextID).  Rollbacks do not promise that much and are left out by the run.
ImplementsStore == Store!StoreSpec
=============================================================================

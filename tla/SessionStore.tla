---------------------------- MODULE SessionStore ----------------------------
(***************************************************************************)
(* What sessions are for, without tables, handles, locks and steps: every  *)
(* session has changes of its own, which nobody else sees.  They become    *)
(* visible to all at once, or they never do.                               *)
(***************************************************************************)
CONSTANTS
  Item,   \* what is created and removed: files, blobs, triples
  Session

VARIABLES
  known,     \* the items ever created
  published, \* those everybody sees
  created,   \* for each session, what it has created and not yet published
  removed,   \* what it wants removed
  depends    \* what it has stored into or described

vars == <<known, published, created, removed, depends>>

StoreInit ==
  /\ known \in SUBSET Item
  /\ published = known
  /\ created = [s \in Session |-> {}]
  /\ removed = [s \in Session |-> {}]
  /\ depends = [s \in Session |-> {}]

\* A session sees what is published and what it has created itself.
Sees(s) == published \cup created[s]

\* An item is new: nothing that ever existed comes back.
Create(s, i) ==
  /\ i \notin known
  /\ known' = known \cup {i}
  /\ created' = [created EXCEPT ![s] = @ \cup {i}]

\* Removing a blob another session has removed meanwhile is not refused.
Remove(s, i) ==
  /\ i \in known
  /\ removed' = [removed EXCEPT ![s] = @ \cup {i}]
  /\ UNCHANGED <<known, published, created, depends>>

\* Stores into i, nothing being created.
Store(s, i) ==
  /\ i \in known
  /\ depends' = [depends EXCEPT ![s] = @ \cup {i}]
  /\ UNCHANGED <<known, published, created, removed>>

\* Creates the triple t, which connects i with j.
Describe(s, t, i, j) ==
  /\ {i, j} \subseteq known
  /\ Create(s, t)
  /\ depends' = [depends EXCEPT ![s] = @ \cup {i, j}]
  /\ UNCHANGED <<published, removed>>

\* All of it at once, provided that what it depends on is still there.
Commit(s) ==
  /\ depends[s] \subseteq Sees(s)
  /\ published' = Sees(s) \ removed[s]
  /\ created' = [created EXCEPT ![s] = {}]
  /\ removed' = [removed EXCEPT ![s] = {}]
  /\ depends' = [depends EXCEPT ![s] = {}]
  /\ UNCHANGED known

\* None of it.
Rollback(s) ==
  /\ created' = [created EXCEPT ![s] = {}]
  /\ removed' = [removed EXCEPT ![s] = {}]
  /\ depends' = [depends EXCEPT ![s] = {}]
  /\ UNCHANGED <<known, published>>

Change(s) ==
  \E i \in Item :
    \/ Create(s, i) /\ UNCHANGED <<published, removed, depends>>
    \/ Remove(s, i)
    \/ Store(s, i)
    \/ \E j, k \in known : Describe(s, i, j, k)

StoreNext == \E s \in Session : Change(s) \/ Commit(s) \/ Rollback(s)

StoreSpec == StoreInit /\ [][StoreNext]_vars
=============================================================================

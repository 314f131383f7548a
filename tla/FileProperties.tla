--------------------------- MODULE FileProperties ---------------------------
(***************************************************************************)
(* What FileStore promises about the contents of blobs.                    *)
(***************************************************************************)
EXTENDS FileStore

\* The directories are partial functions, a path is remembered for exactly the
\* keys in VFS::modified, and the operations are those of vfs.hpp, made for rows
\* that have been selected.
FileTypeOK ==
  /\ DOMAIN disk \subseteq Nat \X Name /\ \A k \in DOMAIN disk : disk[k] \in Content
  /\ DOMAIN temp \subseteq Nat \X Nat /\ \A t \in DOMAIN temp : temp[t] \in Content
  /\ DOMAIN backup \subseteq Name \X Nat /\ \A t \in DOMAIN backup : backup[t] \in Content
  /\ \A e \in Env : DOMAIN path[e] = modified[e]
  /\ DOMAIN selected \subseteq Nat /\ \A i \in DOMAIN selected : selected[i] \in SelectedRow
  /\ ops \in Seq(MoveOperation \cup RemoveOperation)
  /\ step \in {"begin", "aside", "done"}

\* No exception, in whatever step of whatever commit, and no crash loses the
\* content the last successful commit has left under a key: it is there, or it
\* has been moved aside (thesis, section 5.1: "many operations may fail, but in
\* such a case, no data is destroyed"; vfs.cpp, Move::apply, Remove::apply and
\* the lifetime of what they move to temp).
ContentKept ==
  \A k \in DOMAIN stored :
    \/ k \in DOMAIN disk /\ disk[k] = stored[k]
    \/ \E t \in DOMAIN backup : backup[t] = stored[k]

\* Move::unapply and Remove::unapply, in terms of what is below "blobs" and what
\* has been moved aside.
Unapply(m, dirs) ==
  IF m.aside \in DOMAIN dirs.backup
  THEN [disk |-> With(dirs.disk, m.key, dirs.backup[m.aside]),
        backup |-> Without(dirs.backup, {m.aside})]
  ELSE IF m.kind = "Move" THEN [dirs EXCEPT !.disk = Without(@, {m.key})] ELSE dirs

\* Where undoing all operations leads to, the newest first.
Undone ==
  LET dirs[n \in 0 .. Len(ops)] ==
        IF n = 0 THEN [disk |-> disk, backup |-> backup]
        ELSE Unapply(ops[Len(ops) - n + 1], dirs[n - 1])
  IN dirs[Len(ops)]

\* Between two operations of a commit, undoing those made, the newest first,
\* brings back what was below "blobs" when the commit began: no operation has
\* overwritten a file another one needs (thesis, section 4.3.3: "Otherwise, the
\* inverse operations are applied, leaving the target in the same state as
\* before the commit").
UndoPossible ==
  \A e \in Env : pc[e] = "apply" /\ step # "aside" => Undone.disk = before

-----------------------------------------------------------------------------
(* What the documentation says and the code does not do. *)

\* What a session has written into a blob stays there as long as it goes on and
\* asks for no commit, whatever other sessions do (thesis, section 3.3.1: "never
\* lose any data the user entered unless a rollback is explicitly requested";
\* section 5.1: "Blob contents are never deleted or overwritten unless the user
\* explicitly requested a commit and all underlying operations succeeded").
\* getTempPath creates nothing: the name it has given to one session it gives to
\* another as well, until the first has written there.
WritesKept ==
  [][\A d \in Env : \A k \in DOMAIN path[d] :
       LET t == path[d][k] IN
       InSession(d) /\ t \in DOMAIN temp /\ temp[t] = WrittenBy(sid[d])
         => t \in DOMAIN temp' /\ temp'[t] = temp[t]]_allVars
=============================================================================

----------------------------- MODULE FileStore ------------------------------
(***************************************************************************)
(* The directory below a database (src/env/vfs.cpp): "blobs" holds what    *)
(* has been committed, "temp" what sessions write and what a commit has    *)
(* moved aside.  The steps of Sessions that touch no file are taken over,  *)
(* the others are refined: each call of the file system is a step.         *)
(* Two names in "temp" are equal only if they grow from the same seed, a   *)
(* uuid for what is written and the name of a blob for what is moved       *)
(* aside; no blob is named like a uuid.                                    *)
(***************************************************************************)
EXTENDS SessionProperties, FiniteSets, SequencesExt

CONSTANT MaxBackup  \* bound: files moved aside that exist at a time

ASSUME BackupAssumption == MaxBackup \in Nat /\ None \notin Name \X Nat

VARIABLES
  disk,    \* "blobs": the content under each key <<file, name>> that has one
  temp,    \* "temp", names from uuids: the content of each <<file, number>>
  backup,  \* "temp", names from blobs: the content of each <<name, number>>
  path,    \* VFS::modified: the name in temp for each key in modified
  call,    \* getBlobPath while a process is inside of it, else None
  ops,     \* Transaction::operations, in the process that holds the lock
  step,    \* where this process is within its last operation
  selected, \* the rows its query has selected, under their places in the journal
  before,  \* history: disk as it was when apply began
  stored   \* history: the content each key got from the last commit

duringCommit == <<ops, step, selected, before, stored>>
fileVars == <<disk, temp, backup, path, call, duringCommit>>
allVars == <<vars, fileVars>>

-----------------------------------------------------------------------------
(* Files and their names. *)

Nothing == [x \in {} |-> None]

With(f, x, y) == [z \in DOMAIN f \cup {x} |-> IF z = x THEN y ELSE f[z]]

Without(f, S) == [z \in DOMAIN f \ S |-> f[z]]

\* A content is known by who wrote it: an earlier session (under that key),
\* a session of this run, or nobody, when the file is empty.
WrittenBy(s) == <<s, None>>
Content == (Nat \X (Name \cup {None})) \cup {None}

Key(b) == <<b.file, b.name>>

\* Mutant: whether the name is taken is not looked up.
FirstTempPath(directory, seed) == <<seed, 0>>

\* VFS::getTempPath, under the lock file: the first name that does not exist.
\* Nothing is created under it.
GetTempPath(directory, seed) ==
  CHOOSE t \in {seed} \X (0 .. Cardinality(DOMAIN directory)) :
    /\ t \notin DOMAIN directory
    /\ \A i \in 0 .. t[2] - 1 : <<seed, i>> \in DOMAIN directory

MoveOperation == [kind : {"Move"}, key : Nat \X Name, src : Nat \X Nat,
                   aside : (Name \X Nat) \cup {None}]
RemoveOperation == [kind : {"Remove"}, key : Nat \X Name, aside : Name \X Nat]

\* A row that VFS::apply selects: where to, and for a store what from.
SelectedRow == [op : {"Store"}, key : Nat \X Name, target : Nat \X Nat] \cup
               [op : {"Remove"}, key : Nat \X Name, target : {None}]

FileInit ==
  /\ Init
  /\ \E K \in SUBSET { Key(b) : b \in blob } : disk = [k \in K |-> k]
  /\ temp = Nothing
  /\ backup = Nothing
  /\ path = [e \in Env |-> Nothing]
  /\ call = [e \in Env |-> None]
  /\ ops = << >>
  /\ step = "begin"
  /\ selected = Nothing
  /\ before = Nothing
  /\ stored = disk

-----------------------------------------------------------------------------
(* VFS::getBlobPath where the key is not in modified: the lock file is     *)
(* held only while the name is chosen.                                     *)

EnterBlobPath(e, b, write) ==
  /\ "store" \in Commands
  /\ InSession(e) /\ call[e] = None
  /\ Len(journal[sid[e]]) < MaxJournal
  /\ ~b.removed
  /\ Key(b) \notin modified[e]
  /\ write \/ Key(b) \notin DOMAIN disk
  /\ call' = [call EXCEPT ![e] =
                [blob |-> b, temp |-> GetTempPath(temp, b.file),
                 copy |-> write /\ Key(b) \in DOMAIN disk]]
  /\ UNCHANGED <<vars, disk, temp, backup, path, duringCommit>>

\* copyStreams, where the file has existed: what is there now, if it is.
Copied(c) ==
  IF c.copy
  THEN With(temp, c.temp, IF Key(c.blob) \in DOMAIN disk THEN disk[Key(c.blob)] ELSE None)
  ELSE temp

\* Mutant: only the names of copies are remembered.
RememberedCopies(e, c) ==
  IF c.copy THEN [path EXCEPT ![e] = With(@, Key(c.blob), c.temp)] ELSE path

\* modified[pair] = temp.
Remembered(e, c) == [path EXCEPT ![e] = With(@, Key(c.blob), c.temp)]

\* The copy, then the transaction that journals the store.
LeaveBlobPath(e) ==
  /\ call[e] # None
  /\ StoreBlob(e, call[e].blob) \/ StoreBlobThrows(e, call[e].blob)
  /\ temp' = Copied(call[e])
  /\ path' = Remembered(e, call[e])
  /\ call' = [call EXCEPT ![e] = None]
  /\ UNCHANGED <<disk, backup, duringCommit>>

\* storeFile: the user writes where getPath has sent it.
WriteFile(e, b) ==
  /\ "store" \in Commands
  /\ InSession(e) /\ call[e] = None
  /\ ~b.removed
  /\ Key(b) \in modified[e]
  /\ temp' = With(temp, path[e][Key(b)], WrittenBy(sid[e]))
  /\ UNCHANGED <<vars, disk, backup, path, call, duringCommit>>

-----------------------------------------------------------------------------
(* VFS::apply, operation by operation. *)

\* The operation, the path and the target of each row: file.uuid and blob.name
\* are joined to it, the target is what getBlobPath has put into modified.
SelectedRows(e) ==
  [i \in Unexecuted(sid[e]) |->
     LET row == journal[sid[e]][i]
         b == CHOOSE b \in blob : b.id = row.relId
     IN  [op |-> row.op, key |-> Key(b),
          target |-> IF row.op = "Store" THEN path[e][Key(b)] ELSE None]]

BeginApply(e) ==
  /\ ApplySelect(e)
  /\ selected' = SelectedRows(e)
  /\ ops' = << >>
  /\ step' = "begin"
  /\ before' = disk
  /\ UNCHANGED <<disk, temp, backup, path, call, stored>>

\* The row the loop is at.
NextRow(e) == selected[CHOOSE i \in todo[e] : \A k \in todo[e] : i <= k]

AtRow(e, op) ==
  /\ pc[e] = "apply" /\ todo[e] # {} /\ step = "begin"
  /\ Cardinality(DOMAIN backup) < MaxBackup
  /\ NextRow(e).op = op

\* Put under a name of its own in temp, if there is anything under the key.
MovedAside(key, aside) ==
  /\ disk' = Without(disk, {key})
  /\ backup' = IF key \in DOMAIN disk THEN With(backup, aside, disk[key]) ELSE backup

\* Transaction::move, and Move::apply up to its first rename.
MoveAside(e) ==
  LET key == NextRow(e).key
      aside == IF key \in DOMAIN disk THEN GetTempPath(backup, key[2]) ELSE None
  IN
  /\ AtRow(e, "Store")
  /\ ops' = Append(ops, [kind |-> "Move", key |-> key, src |-> NextRow(e).target,
                         aside |-> aside])
  /\ MovedAside(key, aside)
  /\ step' = "aside"
  /\ UNCHANGED <<vars, temp, path, call, selected, before, stored>>

\* The second rename.  It throws if nothing is under src: see CommitThrows.
MoveIn(e) ==
  LET m == Last(ops) IN
  /\ pc[e] = "apply" /\ step = "aside"
  /\ m.src \in DOMAIN temp
  /\ disk' = With(disk, m.key, temp[m.src])
  /\ temp' = Without(temp, {m.src})
  /\ step' = "done"
  /\ UNCHANGED <<vars, backup, path, call, ops, selected, before, stored>>

\* Mutant: a removed file is not kept.
DeleteFile(e) ==
  LET key == NextRow(e).key IN
  /\ AtRow(e, "Remove")
  /\ ops' = Append(ops, [kind |-> "Remove", key |-> key,
                         aside |-> GetTempPath(backup, key[2])])
  /\ disk' = Without(disk, {key})
  /\ step' = "done"
  /\ UNCHANGED <<vars, temp, backup, path, call, selected, before, stored>>

\* Transaction::remove.
RemoveFile(e) ==
  LET key == NextRow(e).key
      aside == GetTempPath(backup, key[2])
  IN
  /\ AtRow(e, "Remove")
  /\ ops' = Append(ops, [kind |-> "Remove", key |-> key, aside |-> aside])
  /\ MovedAside(key, aside)
  /\ step' = "done"
  /\ UNCHANGED <<vars, temp, path, call, selected, before, stored>>

\* update journal set executed = 1.
MarkExecuted(e) ==
  /\ step = "done" /\ ApplyRow(e)
  /\ step' = "begin"
  /\ UNCHANGED <<disk, temp, backup, path, call, ops, selected, before, stored>>

\* What the code leaves as it is: no operation is undone.
ApplyThrows(e) ==
  /\ CommitThrows(e)
  /\ ops' = << >> /\ step' = "begin" /\ selected' = Nothing /\ before' = Nothing
  /\ UNCHANGED <<disk, temp, backup, path, call, stored>>

-----------------------------------------------------------------------------
(* The end of a commit. *)

\* The keys whose content the session has changed, in this commit or in one
\* that threw.
ChangedKeys(e) ==
  { ops[i].key : i \in DOMAIN ops } \cup
  { Key(b) : b \in { c \in blob : \E i \in DOMAIN journal[sid[e]] :
                       /\ journal[sid[e]][i].relation = "Blob"
                       /\ journal[sid[e]][i].relId = c.id
                       /\ journal[sid[e]][i].executed } }

PublishFiles(e) ==
  /\ step = "begin" /\ Publish(e)
  /\ stored' = [k \in (DOMAIN stored \ ChangedKeys(e)) \cup (DOMAIN disk \cap ChangedKeys(e)) |->
                  IF k \in ChangedKeys(e) THEN disk[k] ELSE stored[k]]
  /\ selected' = Nothing
  /\ before' = Nothing
  /\ UNCHANGED <<disk, temp, backup, path, call, ops, step>>

\* Operation::finish of the first n operations.
Finished(n) == backup' = Without(backup, { ops[i].aside : i \in 1 .. n })

\* Transaction::finish.
FinishFiles(e) ==
  /\ Finish(e)
  /\ Finished(Len(ops))
  /\ ops' = << >>
  /\ path' = [path EXCEPT ![e] = Nothing]
  /\ UNCHANGED <<disk, temp, call, step, selected, before, stored>>

FinishFilesThrows(e) ==
  /\ FinishThrows(e)
  /\ \E n \in 0 .. Len(ops) - 1 : Finished(n)
  /\ ops' = << >>
  /\ UNCHANGED <<disk, temp, path, call, step, selected, before, stored>>

-----------------------------------------------------------------------------
(* Everything else does nothing to files. *)

\* A process that ends takes with it what it had in memory.
Forgotten(e) == path' = [path EXCEPT ![e] = Nothing]

EndProcess(e) ==
  /\ ExitEnd(e) \/ Crash(e)
  /\ Forgotten(e)
  /\ call' = [call EXCEPT ![e] = None]
  /\ UNCHANGED <<disk, temp, backup, duringCommit>>

InTables(e) ==
  /\ call[e] = None
  /\ \/ StartSession(e) \/ CreateFile(e)
     \/ \E f \in 0 .. nextId["file"] - 1 : GetFile(e, f) \/ GetFileThrows(e, f)
     \/ \E f \in files[e], n \in Name : GetBlob(e, f, n) \/ AddBlob(e, f, n)
     \/ CloseReplaced(e)
     \/ \E b \in blobs[e] : RemoveBlob(e, b)
     \/ \E b \in blobs[e], object \in {None} \cup { c.id : c \in blobs[e] } :
          AddTriple(e, b, object)
     \/ \E level \in UseLevels : CommitPasses(e, level) \/ CommitRejected(e, level)
     \/ CommitEnd(e)
     \/ \E f \in files[e] : CloseFile(e, f)
     \/ \E b \in blobs[e] : CloseBlob(e, b)
     \/ Rollback(e) \/ RollbackRows(e) \/ RollbackThrows(e)
     \/ Exit(e)
     \/ CleanSessions(e)
  /\ UNCHANGED fileVars

FileNext ==
  \E e \in Env :
    \/ InTables(e)
    \/ \E b \in blobs[e], write \in BOOLEAN : EnterBlobPath(e, b, write)
    \/ LeaveBlobPath(e)
    \/ \E b \in blobs[e] : WriteFile(e, b)
    \/ BeginApply(e) \/ MoveAside(e) \/ MoveIn(e) \/ RemoveFile(e) \/ MarkExecuted(e)
    \/ ApplyThrows(e)
    \/ PublishFiles(e) \/ FinishFiles(e) \/ FinishFilesThrows(e)
    \/ EndProcess(e)

FileSpec == FileInit /\ [][FileNext]_allVars
=============================================================================

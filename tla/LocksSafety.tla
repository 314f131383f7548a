---------------------------- MODULE LocksSafety ----------------------------
(***************************************************************************)
(* Proofs about ProcessLocks, for any number of processes, any build and   *)
(* any bounds.  That two commits exclude each other needs more than that a *)
(* mutex has one holder: two processes that look for "session" in one      *)
(* segment must have found one mutex.  The invariant says so (OneOfAName), *)
(* and that a process keeps the mutex it found there (RefSound).           *)
(***************************************************************************)
EXTENDS ProcessLocks, FiniteSetTheorems, TLAPS

\* Stronger than LocksTypeOK in ref, which the steps write before it is used.
Typed ==
  /\ maxLockTime \in MaxLockTimes /\ deadline \in Deadlines
  /\ segments \in Nat /\ segment \in 0 .. segments
  /\ mutexes \subseteq Mutex
  /\ holder \in [mutexes -> Process \cup {None, Dead}]
  /\ fileHolder \in Process \cup {None}
  /\ at \in [Process -> {"off", "clear", "map", "find", "construct", "idle", "lock", "inside"}]
  /\ temp \in [Process -> {"out", "lock", "inside"}]
  /\ mapped \in [Process -> 0 .. segments]
  /\ want \in [Process -> {"master", "session"}]
  /\ ref \in [Process -> Mutex \cup {None}]
  /\ starts \in [Process -> 0 .. MaxStarts]
  /\ uses \in [Process -> 0 .. MaxUses]

\* Who has got as far as the lock refers to the mutex "session" of the segment
\* it has mapped.
RefSound ==
  \A p \in Process : at[p] \in {"lock", "inside"} =>
    /\ ref[p] \in mutexes
    /\ ref[p].segment = mapped[p]
    /\ ref[p].name = "session"

\* No segment has two mutexes of one name.
OneOfAName ==
  \A m, n \in mutexes : m.segment = n.segment /\ m.name = n.name => m = n

LocksInv == Typed /\ RefSound /\ OneOfAName /\ HeldWhileInside

-----------------------------------------------------------------------------
(* The lemmas the steps rest on.                                           *)

\* The mutex that is constructed where none is found is a new one.
LEMMA NewMutexIsNew ==
  ASSUME Typed, NEW p \in Process, Found(p) = {}
  PROVE  /\ NewMutex(p) \in Mutex
         /\ NewMutex(p) \notin mutexes
         /\ \A m \in mutexes : ~(m.segment = mapped[p] /\ m.name = want[p])
PROOF
<1>1. Cardinality(Found(p)) = 0
  BY FS_EmptySet
<1>2. mapped[p] \in Nat /\ want[p] \in {"master", "session"}
  BY DEF Typed
<1>3. NewMutex(p) \in Mutex
  BY <1>1, <1>2 DEF NewMutex, Mutex
<1>4. \A m \in mutexes : ~(m.segment = mapped[p] /\ m.name = want[p])
  BY DEF Found
<1>5. NewMutex(p).segment = mapped[p] /\ NewMutex(p).name = want[p]
  BY DEF NewMutex
<1> QED
  BY <1>3, <1>4, <1>5

-----------------------------------------------------------------------------
(* Types.                                                                  *)

\* The disjuncts of LocksNext, for one process.
Steps(p) ==
  \/ \E clearShm \in BOOLEAN : StartProcess(p, clearShm)
  \/ BeginCommit(p) \/ EnterTempPath(p)
  \/ LockStep(p)
  \/ EndProcess(p) \/ Die(p)

LEMMA TypedKept ==
  ASSUME Typed, RefSound, NEW p \in Process, Steps(p)
  PROVE  Typed'
PROOF
<1> USE DEF vars, build, shared, Goto, TempGoto
<1>1. ASSUME NEW clearShm \in BOOLEAN, StartProcess(p, clearShm) PROVE Typed'
  BY <1>1, ProcessLocksAssumption DEF Typed, StartProcess
<1>2. CASE BeginCommit(p)
  BY <1>2, ProcessLocksAssumption DEF Typed, BeginCommit
<1>3. CASE EnterTempPath(p)
  BY <1>3, ProcessLocksAssumption DEF Typed, EnterTempPath
<1>4. CASE ClearSharedMemory(p)
  BY <1>4 DEF Typed, ClearSharedMemory
<1>5. CASE MapSharedMemory(p)
  <2>1. segments' \in Nat /\ segment' \in 0 .. segments' /\ segments <= segments'
    BY <1>5 DEF Typed, MapSharedMemory
  <2>2. mapped' \in [Process -> 0 .. segments']
    BY <1>5, <2>1 DEF Typed, MapSharedMemory
  <2> QED
    BY <1>5, <2>1, <2>2 DEF Typed, MapSharedMemory
<1>6. CASE FindMemLock(p)
  BY <1>6 DEF Typed, FindMemLock, Found, AfterFind
<1>7. CASE ConstructMemLock(p)
  <2>1. NewMutex(p) \in Mutex
    BY <1>7, NewMutexIsNew DEF ConstructMemLock
  <2>2. mutexes' \subseteq Mutex /\ ref' \in [Process -> Mutex \cup {None}]
    BY <1>7, <2>1 DEF Typed, ConstructMemLock
  <2>3. holder' \in [mutexes' -> Process \cup {None, Dead}]
    BY <1>7 DEF Typed, ConstructMemLock
  <2> QED
    BY <1>7, <2>2, <2>3 DEF Typed, ConstructMemLock, AfterFind
<1>8. CASE ConstructThrows(p)
  BY <1>8 DEF Typed, ConstructThrows, Unmap
<1>9. CASE LockSession(p)
  BY <1>9 DEF Typed, LockSession
<1>10. CASE LockTimesOut(p)
  BY <1>10 DEF Typed, LockTimesOut
<1>11. CASE EndCommit(p)
  BY <1>11 DEF Typed, EndCommit, Unlock
<1>12. CASE LockFile(p)
  BY <1>12 DEF Typed, LockFile
<1>13. CASE FileTimesOut(p)
  BY <1>13 DEF Typed, FileTimesOut, Unlock
<1>14. CASE UnlockFile(p)
  BY <1>14 DEF Typed, UnlockFile
<1>15. CASE EndProcess(p)
  BY <1>15 DEF Typed, EndProcess, Unmap
<1>16. CASE Die(p)
  BY <1>16 DEF Typed, Die, Unmap, FileUnlocked
<1> QED
  BY <1>1, <1>2, <1>3, <1>4, <1>5, <1>6, <1>7, <1>8, <1>9, <1>10, <1>11, <1>12,
     <1>13, <1>14, <1>15, <1>16 DEF Steps, LockStep

-----------------------------------------------------------------------------
(* The mutexes.                                                            *)

\* What is said of mutexes, without the lock file.
MutexesHeld ==
  \A m \in mutexes, p \in Process :
    holder[m] = p <=> (at[p] = "inside" /\ ref[p] = m)

LEMMA MutexesKept ==
  ASSUME Typed, RefSound, OneOfAName, MutexesHeld, NEW p \in Process, Steps(p)
  PROVE  RefSound' /\ OneOfAName' /\ MutexesHeld'
PROOF
<1> USE DEF build, shared, Goto, TempGoto
<1> None \notin Process /\ Dead \notin Process
  BY ProcessLocksAssumption
<1>1. ASSUME NEW clearShm \in BOOLEAN, StartProcess(p, clearShm)
      PROVE  RefSound' /\ OneOfAName' /\ MutexesHeld'
  BY <1>1 DEF Typed, RefSound, OneOfAName, MutexesHeld, StartProcess
<1>2. CASE BeginCommit(p)
  BY <1>2 DEF Typed, RefSound, OneOfAName, MutexesHeld, BeginCommit
<1>3. CASE EnterTempPath(p)
  BY <1>3 DEF Typed, RefSound, OneOfAName, MutexesHeld, EnterTempPath
<1>4. CASE ClearSharedMemory(p)
  BY <1>4 DEF Typed, RefSound, OneOfAName, MutexesHeld, ClearSharedMemory
<1>5. CASE MapSharedMemory(p)
  BY <1>5 DEF Typed, RefSound, OneOfAName, MutexesHeld, MapSharedMemory
<1>6. CASE FindMemLock(p)
  <2>1. OneOfAName' /\ MutexesHeld'
    BY <1>6 DEF Typed, OneOfAName, MutexesHeld, FindMemLock, AfterFind
  <2>2. RefSound'
    BY <1>6 DEF Typed, RefSound, FindMemLock, AfterFind, Found
  <2> QED
    BY <2>1, <2>2
<1>7. CASE ConstructMemLock(p)
  <2> DEFINE new == NewMutex(p)
  <2>1. /\ new \in Mutex /\ new \notin mutexes
        /\ \A m \in mutexes : ~(m.segment = mapped[p] /\ m.name = want[p])
    BY <1>7, NewMutexIsNew DEF ConstructMemLock
  <2>2. new.segment = mapped[p] /\ new.name = want[p]
    BY DEF NewMutex
  <2>3. /\ mutexes' = mutexes \cup {new}
        /\ \A m \in mutexes : holder'[m] = holder[m]
        /\ holder'[new] = None
        /\ ref' = [ref EXCEPT ![p] = new]
        /\ at' = [at EXCEPT ![p] = AfterFind(p)]
        /\ at[p] = "construct" /\ UNCHANGED mapped
    BY <1>7, <2>1 DEF ConstructMemLock
  <2> HIDE DEF new
  <2>4. OneOfAName'
    BY <2>1, <2>2, <2>3 DEF OneOfAName
  <2>5. RefSound'
    BY <2>2, <2>3 DEF Typed, RefSound, AfterFind
  <2>6. MutexesHeld'
    <3> SUFFICES ASSUME NEW m \in mutexes', NEW q \in Process
                 PROVE  holder'[m] = q <=> (at'[q] = "inside" /\ ref'[q] = m)
      BY DEF MutexesHeld
    <3>1. CASE q = p
      <4>1. at'[p] # "inside" /\ at[p] # "inside"
        BY <2>3 DEF Typed, AfterFind
      <4> QED
        BY <3>1, <4>1, <2>3 DEF MutexesHeld
    <3>2. CASE q # p
      <4>1. at'[q] = at[q] /\ ref'[q] = ref[q]
        BY <3>2, <2>3 DEF Typed
      <4>2. at[q] = "inside" => ref[q] # new
        BY <2>1 DEF RefSound
      <4> QED
        BY <4>1, <4>2, <2>3 DEF MutexesHeld
    <3> QED
      BY <3>1, <3>2
  <2> QED
    BY <2>4, <2>5, <2>6
<1>8. CASE ConstructThrows(p)
  BY <1>8 DEF Typed, RefSound, OneOfAName, MutexesHeld, ConstructThrows, Unmap
<1>9. CASE LockSession(p)
  BY <1>9 DEF Typed, RefSound, OneOfAName, MutexesHeld, LockSession
<1>10. CASE LockTimesOut(p)
  BY <1>10 DEF Typed, RefSound, OneOfAName, MutexesHeld, LockTimesOut
<1>11. CASE EndCommit(p)
  BY <1>11 DEF Typed, RefSound, OneOfAName, MutexesHeld, EndCommit, Unlock
<1>12. CASE LockFile(p)
  BY <1>12 DEF Typed, RefSound, OneOfAName, MutexesHeld, LockFile
<1>13. CASE FileTimesOut(p)
  BY <1>13 DEF Typed, RefSound, OneOfAName, MutexesHeld, FileTimesOut, Unlock
<1>14. CASE UnlockFile(p)
  BY <1>14 DEF Typed, RefSound, OneOfAName, MutexesHeld, UnlockFile
<1>15. CASE EndProcess(p)
  BY <1>15 DEF Typed, RefSound, OneOfAName, MutexesHeld, EndProcess, Unmap
<1>16. CASE Die(p)
  BY <1>16 DEF Typed, RefSound, OneOfAName, MutexesHeld, Die, Unmap
<1> QED
  BY <1>1, <1>2, <1>3, <1>4, <1>5, <1>6, <1>7, <1>8, <1>9, <1>10, <1>11, <1>12,
     <1>13, <1>14, <1>15, <1>16 DEF Steps, LockStep

-----------------------------------------------------------------------------
(* The lock file.                                                          *)

FileHeld == \A p \in Process : fileHolder = p <=> temp[p] = "inside"

LEMMA FileKept ==
  ASSUME Typed, FileHeld, NEW p \in Process, Steps(p)
  PROVE  FileHeld'
PROOF
<1> USE DEF build, shared, TempGoto
<1> None \notin Process
  BY ProcessLocksAssumption
<1>1. CASE EnterTempPath(p)
  BY <1>1 DEF Typed, FileHeld, EnterTempPath
<1>2. CASE LockFile(p)
  BY <1>2 DEF Typed, FileHeld, LockFile
<1>3. CASE FileTimesOut(p)
  BY <1>3 DEF Typed, FileHeld, FileTimesOut
<1>4. CASE UnlockFile(p)
  BY <1>4 DEF Typed, FileHeld, UnlockFile
<1>5. CASE Die(p)
  BY <1>5 DEF Typed, FileHeld, Die, FileUnlocked
<1>6. CASE UNCHANGED <<fileHolder, temp>>
  BY <1>6 DEF FileHeld
<1>7. \/ EnterTempPath(p) \/ LockFile(p) \/ FileTimesOut(p) \/ UnlockFile(p) \/ Die(p)
      \/ UNCHANGED <<fileHolder, temp>>
  BY DEF Steps, LockStep, StartProcess, BeginCommit, ClearSharedMemory, MapSharedMemory,
         FindMemLock, ConstructMemLock, ConstructThrows, LockSession, LockTimesOut,
         EndCommit, EndProcess
<1> QED
  BY <1>1, <1>2, <1>3, <1>4, <1>5, <1>6, <1>7

-----------------------------------------------------------------------------

LEMMA InvInit == LocksInit => LocksInv
PROOF
<1> SUFFICES ASSUME LocksInit PROVE LocksInv
  OBVIOUS
<1> None \notin Process
  BY ProcessLocksAssumption
<1>1. Typed
  BY ProcessLocksAssumption DEF LocksInit, Typed
<1>2. RefSound /\ OneOfAName /\ HeldWhileInside
  BY DEF LocksInit, RefSound, OneOfAName, HeldWhileInside
<1> QED
  BY <1>1, <1>2 DEF LocksInv

LEMMA InvKept == LocksInv /\ [LocksNext]_vars => LocksInv'
PROOF
<1> SUFFICES ASSUME LocksInv, [LocksNext]_vars PROVE LocksInv'
  OBVIOUS
<1> Typed /\ RefSound /\ OneOfAName /\ MutexesHeld /\ FileHeld
  BY DEF LocksInv, HeldWhileInside, MutexesHeld, FileHeld
<1>1. ASSUME NEW p \in Process, Steps(p) PROVE LocksInv'
  <2>1. Typed'
    BY <1>1, TypedKept
  <2>2. RefSound' /\ OneOfAName' /\ MutexesHeld'
    BY <1>1, MutexesKept
  <2>3. FileHeld'
    BY <1>1, FileKept
  <2> QED
    BY <2>1, <2>2, <2>3 DEF LocksInv, HeldWhileInside, MutexesHeld, FileHeld
<1>2. CASE UNCHANGED vars
  BY <1>2 DEF vars, LocksInv, Typed, RefSound, OneOfAName, HeldWhileInside
<1> QED
  BY <1>1, <1>2 DEF LocksNext, Steps

THEOREM LocksInvariant == LocksSpec => []LocksInv
PROOF
<1> QED
  BY InvInit, InvKept, PTL DEF LocksSpec

\* Types hold for every number of processes and every build.
THEOREM LocksTyped == LocksSpec => []LocksTypeOK
PROOF
<1>1. LocksInv => LocksTypeOK
  BY DEF LocksInv, Typed, RefSound, LocksTypeOK
<1> QED
  BY <1>1, LocksInvariant, PTL

\* Every way out of a section gives back what it holds (Lock, DefaultHandle).
THEOREM LocksHeldWhileInside == LocksSpec => []HeldWhileInside
PROOF
<1>1. LocksInv => HeldWhileInside
  BY DEF LocksInv
<1> QED
  BY <1>1, LocksInvariant, PTL

\* Two processes inside a commit have mapped two segments (Process::findMemLock
\* under Environment::commitSession).
THEOREM CommitsExclude == LocksSpec => []CommitsExclusive
PROOF
<1>1. ASSUME LocksInv PROVE CommitsExclusive
  <2> SUFFICES ASSUME NEW p \in Process, NEW q \in Process, p # q,
                      at[p] = "inside", at[q] = "inside", mapped[p] = mapped[q]
               PROVE  FALSE
    BY DEF CommitsExclusive
  <2>1. ref[p] \in mutexes /\ ref[p] = ref[q]
    BY <1>1 DEF LocksInv, RefSound, OneOfAName
  <2>2. holder[ref[p]] = p /\ holder[ref[p]] = q
    BY <1>1, <2>1 DEF LocksInv, HeldWhileInside
  <2> QED
    BY <2>2
<1> QED
  BY <1>1, LocksInvariant, PTL
=============================================================================

---------------------------- MODULE ProcessLocks ----------------------------
(***************************************************************************)
(* Process (src/env) and Lock (src/util/resource): the named mutexes that  *)
(* processes find or construct in a shared memory segment, the lock file,  *)
(* and what uses them, commitSession and getTempPath.  Segments, mutexes   *)
(* and file locks are those of boost::interprocess, modelled from how they *)
(* are used: a segment outlives its processes, and one that is removed     *)
(* keeps its old mappings; a mutex outlives its holder, a file lock does   *)
(* not.                                                                    *)
(***************************************************************************)
EXTENDS Naturals, FiniteSets

CONSTANTS
  Process,
  MaxLockTimes, \* values of ASSOCIATIVE_MAX_LOCK_TIME, not positive as 0
  Deadlines,    \* what bpt::ptime() + seconds, which is no date, compares as
  MayClear,     \* whether processes are started with --clear-shm
  MayDie,       \* whether processes die
  MaxStarts,    \* bound on the starts of a process
  MaxUses,      \* bound on the times it takes a lock
  None, Dead

ASSUME ProcessLocksAssumption ==
  /\ MaxLockTimes \in SUBSET Nat
  /\ Deadlines \in SUBSET {"passed", "never"}
  /\ MayClear \in BOOLEAN /\ MayDie \in BOOLEAN
  /\ MaxStarts \in Nat /\ MaxUses \in Nat
  /\ {None, Dead} \cap Process = {} /\ None # Dead

VARIABLES
  maxLockTime, deadline, \* how the program was built
  segment,   \* the segment the name stands for, 0 for none
  segments,  \* how many have been created
  mutexes,   \* the mutexes constructed in them
  holder,    \* who locked each mutex: a process, None, or Dead
  fileHolder,
  at,        \* where each process is
  temp,      \* where it is in getTempPath, which a commit calls as well
  mapped,    \* the segment it has mapped
  want,      \* the mutex it looks for
  ref,       \* the mutex of its MemLock
  starts, uses

vars == <<maxLockTime, deadline, segment, segments, mutexes, holder, fileHolder,
          at, temp, mapped, want, ref, starts, uses>>

build == <<maxLockTime, deadline>>
shared == <<segment, segments, mutexes, holder, fileHolder>>

Mutex == [segment : Nat, name : {"master", "session"}, nr : Nat]

LocksTypeOK ==
  /\ maxLockTime \in MaxLockTimes /\ deadline \in Deadlines
  /\ segment \in 0 .. segments /\ segments \in Nat
  /\ mutexes \subseteq Mutex
  /\ holder \in [mutexes -> Process \cup {None, Dead}]
  /\ fileHolder \in Process \cup {None}
  /\ at \in [Process -> {"off", "clear", "map", "find", "construct", "idle", "lock", "inside"}]
  /\ temp \in [Process -> {"out", "lock", "inside"}]
  /\ mapped \in [Process -> 0 .. segments]
  /\ want \in [Process -> {"master", "session"}]
  /\ \A p \in Process : at[p] \in {"lock", "inside"} => ref[p] \in mutexes
  /\ starts \in [Process -> 0 .. MaxStarts] /\ uses \in [Process -> 0 .. MaxUses]

LocksInit ==
  /\ maxLockTime \in MaxLockTimes /\ deadline \in Deadlines
  /\ segment = 0 /\ segments = 0
  /\ mutexes = {} /\ holder = << >>
  /\ fileHolder = None
  /\ at = [p \in Process |-> "off"]
  /\ temp = [p \in Process |-> "out"]
  /\ mapped = [p \in Process |-> 0]
  /\ want = [p \in Process |-> "master"]
  /\ ref = [p \in Process |-> None]
  /\ starts = [p \in Process |-> MaxStarts]
  /\ uses = [p \in Process |-> MaxUses]

Goto(p, place) == at' = [at EXCEPT ![p] = place]
TempGoto(p, place) == temp' = [temp EXCEPT ![p] = place]

\* Process::~Process deletes the mapping, not the segment.
Unmap(p) ==
  /\ mapped' = [mapped EXCEPT ![p] = 0]
  /\ ref' = [ref EXCEPT ![p] = None]
  /\ Goto(p, "off")

-----------------------------------------------------------------------------
(* Process::Process.  Creating the lock file changes nothing where it is.  *)

StartProcess(p, clearShm) ==
  /\ at[p] = "off" /\ starts[p] > 0
  /\ clearShm => MayClear
  /\ starts' = [starts EXCEPT ![p] = @ - 1]
  /\ Goto(p, IF clearShm THEN "clear" ELSE "map")
  /\ UNCHANGED <<build, shared, temp, mapped, want, ref, uses>>

\* shared_memory_object::remove: the name is free, who has mapped it keeps it.
ClearSharedMemory(p) ==
  /\ at[p] = "clear"
  /\ segment' = 0
  /\ Goto(p, "map")
  /\ UNCHANGED <<build, segments, mutexes, holder, fileHolder, temp, mapped, want, ref, starts, uses>>

\* open_or_create, then findMemLock("master").
MapSharedMemory(p) ==
  /\ at[p] = "map"
  /\ segments' = IF segment = 0 THEN segments + 1 ELSE segments
  /\ segment' = IF segment = 0 THEN segments' ELSE segment
  /\ mapped' = [mapped EXCEPT ![p] = segment']
  /\ want' = [want EXCEPT ![p] = "master"]
  /\ Goto(p, "find")
  /\ UNCHANGED <<build, mutexes, holder, fileHolder, temp, ref, starts, uses>>

-----------------------------------------------------------------------------
(* Process::findMemLock: find and construct are two calls.                 *)

Found(p) == { m \in mutexes : m.segment = mapped[p] /\ m.name = want[p] }

\* The constructor goes on to main, commitSession to the lock.
AfterFind(p) == IF want[p] = "master" THEN "idle" ELSE "lock"

FindMemLock(p) ==
  /\ at[p] = "find"
  /\ IF Found(p) = {}
     THEN Goto(p, "construct") /\ UNCHANGED ref
     ELSE /\ Goto(p, AfterFind(p))
          /\ \E m \in Found(p) : ref' = [ref EXCEPT ![p] = m]
  /\ UNCHANGED <<build, shared, temp, mapped, want, starts, uses>>

NewMutex(p) == [segment |-> mapped[p], name |-> want[p], nr |-> Cardinality(Found(p))]

\* Mutant: the race of the TODO: construct does not look for the name.
ConstructAnyway(p) ==
  /\ at[p] = "construct"
  /\ mutexes' = mutexes \cup {NewMutex(p)}
  /\ holder' = [m \in mutexes' |-> IF m \in mutexes THEN holder[m] ELSE None]
  /\ ref' = [ref EXCEPT ![p] = NewMutex(p)]
  /\ Goto(p, AfterFind(p))
  /\ UNCHANGED <<build, segment, segments, fileHolder, temp, mapped, want, starts, uses>>

ConstructMemLock(p) ==
  /\ at[p] = "construct"
  /\ Found(p) = {}
  /\ mutexes' = mutexes \cup {NewMutex(p)}
  /\ holder' = [m \in mutexes' |-> IF m \in mutexes THEN holder[m] ELSE None]
  /\ ref' = [ref EXCEPT ![p] = NewMutex(p)]
  /\ Goto(p, AfterFind(p))
  /\ UNCHANGED <<build, segment, segments, fileHolder, temp, mapped, want, starts, uses>>

\* The name is taken meanwhile, and construct throws: out of the constructor,
\* which ends the program, or out of commitSession.
ConstructThrows(p) ==
  /\ at[p] = "construct"
  /\ Found(p) # {}
  /\ IF want[p] = "master" THEN Unmap(p) ELSE Goto(p, "idle") /\ UNCHANGED <<mapped, ref>>
  /\ UNCHANGED <<build, shared, temp, want, starts, uses>>

-----------------------------------------------------------------------------
(* Lock::timedLockOrThrow on a mutex: Environment::commitSession.          *)

\* Configuration::maxLockTime: without a positive number, no limit.
Limited == maxLockTime > 0

\* timed_lock gives up where what is held compares as late.
GivesUp == Limited /\ deadline = "passed"

BeginCommit(p) ==
  /\ at[p] = "idle" /\ temp[p] = "out" /\ uses[p] > 0
  /\ uses' = [uses EXCEPT ![p] = @ - 1]
  /\ want' = [want EXCEPT ![p] = "session"]
  /\ Goto(p, "find")
  /\ UNCHANGED <<build, shared, temp, mapped, ref, starts>>

LockSession(p) ==
  /\ at[p] = "lock"
  /\ holder[ref[p]] = None
  /\ holder' = [holder EXCEPT ![ref[p]] = p]
  /\ Goto(p, "inside")
  /\ UNCHANGED <<build, segment, segments, mutexes, fileHolder, temp, mapped, want, ref, starts, uses>>

LockTimesOut(p) ==
  /\ at[p] = "lock"
  /\ holder[ref[p]] # None
  /\ GivesUp
  /\ Goto(p, "idle")
  /\ UNCHANGED <<build, shared, temp, mapped, want, ref, starts, uses>>

\* Mutant: the handle is closed without a destructor.
UnlockForgotten(p) ==
  /\ holder' = holder
  /\ Goto(p, "idle")

\* The handle's destructor unlocks, however commitSession is left.
Unlock(p) ==
  /\ holder' = [holder EXCEPT ![ref[p]] = None]
  /\ Goto(p, "idle")

EndCommit(p) ==
  /\ at[p] = "inside" /\ temp[p] = "out"
  /\ Unlock(p)
  /\ UNCHANGED <<build, segment, segments, mutexes, fileHolder, temp, mapped, want, ref, starts, uses>>

-----------------------------------------------------------------------------
(* The file lock: VFS::getTempPath, in a session and inside a commit.      *)

EnterTempPath(p) ==
  /\ at[p] \in {"idle", "inside"} /\ temp[p] = "out" /\ uses[p] > 0
  /\ uses' = [uses EXCEPT ![p] = @ - 1]
  /\ TempGoto(p, "lock")
  /\ UNCHANGED <<build, shared, at, mapped, want, ref, starts>>

LockFile(p) ==
  /\ temp[p] = "lock"
  /\ fileHolder = None
  /\ fileHolder' = p
  /\ TempGoto(p, "inside")
  /\ UNCHANGED <<build, segment, segments, mutexes, holder, at, mapped, want, ref, starts, uses>>

\* Mutant: the exception of the inner lock keeps the outer one.
FileTimesOutHolding(p) ==
  /\ temp[p] = "lock"
  /\ fileHolder # None
  /\ GivesUp
  /\ TempGoto(p, "out")
  /\ Goto(p, "idle")
  /\ UNCHANGED <<build, shared, mapped, want, ref, starts, uses>>

\* The exception leaves the commit as well.
FileTimesOut(p) ==
  /\ temp[p] = "lock"
  /\ fileHolder # None
  /\ GivesUp
  /\ TempGoto(p, "out")
  /\ IF at[p] = "inside" THEN Unlock(p) ELSE UNCHANGED <<holder, at>>
  /\ UNCHANGED <<build, segment, segments, mutexes, fileHolder, mapped, want, ref, starts, uses>>

UnlockFile(p) ==
  /\ temp[p] = "inside"
  /\ fileHolder' = None
  /\ TempGoto(p, "out")
  /\ UNCHANGED <<build, segment, segments, mutexes, holder, at, mapped, want, ref, starts, uses>>

-----------------------------------------------------------------------------
(* The end of a process.                                                   *)

EndProcess(p) ==
  /\ at[p] = "idle" /\ temp[p] = "out"
  /\ Unmap(p)
  /\ UNCHANGED <<build, shared, temp, want, starts, uses>>

\* Mutant: the lock file is locked in shared memory as well.
FileHeldByDead(p) == IF fileHolder = p THEN Dead ELSE fileHolder

\* The system unlocks the files of a process that dies.
FileUnlocked(p) == IF fileHolder = p THEN None ELSE fileHolder

Die(p) ==
  /\ MayDie
  /\ at[p] # "off"
  /\ holder' = [m \in mutexes |-> IF holder[m] = p THEN Dead ELSE holder[m]]
  /\ fileHolder' = FileUnlocked(p)
  /\ TempGoto(p, "out")
  /\ Unmap(p)
  /\ UNCHANGED <<build, segment, segments, mutexes, want, starts, uses>>

-----------------------------------------------------------------------------

\* What a process does by itself once it has begun.
LockStep(p) ==
  \/ ClearSharedMemory(p) \/ MapSharedMemory(p)
  \/ FindMemLock(p) \/ ConstructMemLock(p) \/ ConstructThrows(p)
  \/ LockSession(p) \/ LockTimesOut(p) \/ EndCommit(p)
  \/ LockFile(p) \/ FileTimesOut(p) \/ UnlockFile(p)

LocksNext ==
  \E p \in Process :
    \/ \E clearShm \in BOOLEAN : StartProcess(p, clearShm)
    \/ BeginCommit(p) \/ EnterTempPath(p)
    \/ LockStep(p)
    \/ EndProcess(p) \/ Die(p)

LocksSpec == LocksInit /\ [][LocksNext]_vars

FairLocks == LocksSpec /\ \A p \in Process : WF_vars(LockStep(p))

-----------------------------------------------------------------------------
(* Properties.                                                             *)

\* A mutex and the lock file are locked by exactly the process that is in the
\* section they guard, or by a dead one: every way out of a section, the
\* timeout of the inner lock included, gives back what it holds.
HeldWhileInside ==
  /\ \A m \in mutexes, p \in Process :
       holder[m] = p <=> (at[p] = "inside" /\ ref[p] = m)
  /\ \A p \in Process : fileHolder = p <=> temp[p] = "inside"

\* Two commits run at once only where one of them works in a segment that has
\* been cleared under it; finding and constructing a mutex in two calls does
\* not give two processes that start together two mutexes.
CommitsExclusive ==
  \A p, q \in Process :
    p # q /\ at[p] = "inside" /\ at[q] = "inside" =>
      mapped[p] # mapped[q]

\* Who waits for a lock gets it or gives up, unless a process died inside the
\* same commit lock: the lock file, taken inside a commit as well, never makes
\* two processes wait for each other.
WaitsEnd ==
  \A p \in Process :
    /\ at[p] = "lock" ~> (at[p] # "lock" \/ holder[ref[p]] = Dead)
    /\ temp[p] = "lock" ~> temp[p] # "lock"
=============================================================================

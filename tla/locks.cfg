SPECIFICATION FairLocks
CONSTANTS
  Process = {p1, p2}
  MaxLockTimes = {0, 10}
  Deadlines = {"passed"}
  MayClear = TRUE
  MayDie = TRUE
  MaxStarts = 2
  MaxUses = 2
  None = None
  Dead = Dead
CHECK_DEADLOCK FALSE
INVARIANTS LocksTypeOK HeldWhileInside CommitsExclusive
PROPERTY WaitsEnd

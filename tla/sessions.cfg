SPECIFICATION Spec
CONSTANTS
  Env = {p1, p2}
  Name = {"a"}
  None = None
  SeedFiles = 1
  SeedBlobs <- OneBlob
  MaxJournal = 4
  MaxSession = 3
  MaxFile = 1
  MaxBlob = 2
  MaxTriple = 1
  UseLevels = {"blob-exclusive", "unsafe"}
  Commands = {"add", "store", "rm", "metadata", "rollback", "exit", "clean"}
  Faults = {"commit"}
SYMMETRY Symmetry
CHECK_DEADLOCK FALSE
INVARIANTS JournalHasSession ObjectsHaveHandles HandlesHaveObjects ConflictsBlock LevelsOrdered

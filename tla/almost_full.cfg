SPECIFICATION Spec
CONSTANTS
  Env = {p1, p2}
  Name = {"a"}
  None = None
  SeedFiles = 1
  SeedBlobs <- OneBlob
  MaxJournal = 4
  MaxSession = 2
  MaxFile = 1
  MaxBlob = 1
  MaxTriple = 0
  UseLevels = {"almost-full"}
  Commands = {"store", "rm"}
  Faults = {}
SYMMETRY Symmetry
CHECK_DEADLOCK FALSE
INVARIANT AlmostFullNeverInvalidates

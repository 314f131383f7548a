SPECIFICATION FairSpec
CONSTANTS
  Env = {p1, p2}
  Name = {"a"}
  None = None
  SeedFiles = 1
  SeedBlobs <- OneBlob
  MaxJournal = 4
  MaxSession = 2
  MaxFile = 1
  MaxBlob = 2
  MaxTriple = 0
  UseLevels = {"blob-exclusive"}
  Commands = {"add", "rm", "store", "rollback", "exit"}
  Faults = {"commit", "store"}
CHECK_DEADLOCK FALSE
PROPERTIES LockReleased ClearingEnds

SPECIFICATION FileSpec
CONSTANTS
  Env = {p1, p2}
  Name = {"a"}
  None = None
  SeedFiles = 1
  SeedBlobs <- OneBlob
  MaxJournal = 3
  MaxSession = 2
  MaxFile = 1
  MaxBlob = 2
  MaxTriple = 0
  MaxBackup = 2
  UseLevels = {"unsafe"}
  Commands = {"add", "store", "rm"}
  Faults = {"commit", "finish", "crash"}
SYMMETRY Symmetry
CHECK_DEADLOCK FALSE
INVARIANTS FileTypeOK ContentKept UndoPossible

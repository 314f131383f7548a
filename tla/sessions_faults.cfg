SPECIFICATION Spec
CONSTANTS
  Env = {p1, p2}
  Name = {"a"}
  None = None
  SeedFiles = 0
  SeedBlobs <- NoBlobs
  MaxJournal = 3
  MaxSession = 2
  MaxFile = 1
  MaxBlob = 2
  MaxTriple = 0
  UseLevels = {"unsafe"}
  Commands = {"create", "add", "rm", "rollback"}
  Faults = {"crash", "commit", "finish", "rollback"}
SYMMETRY Symmetry
CHECK_DEADLOCK FALSE
INVARIANTS TypeOK PendingExactly BlobTableSound NoDirtyReads

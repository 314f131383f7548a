SPECIFICATION ClientSpec
CONSTANTS
  Spelling = {"lower", "upper"}
  Name = {1, 2}
  MaxBlob = 2
  MaxTriple = 1
  MaxCommands = 4
  None = None
CHECK_DEADLOCK FALSE
INVARIANTS ClientTypeOK ExceptionsExplained RmEmptiesFile TriplesReadBack RemovalIsFinal

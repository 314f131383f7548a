SPECIFICATION FairConnections
CONSTANTS
  Process = {p1, p2}
  Drivers = {"sqlite3", "mysql"}
  Operations = {"startSession", "addBlob"}
  Lookups = {"prefix", "type"}
  Name = {n1}
  MaxTasks = 2
  None = None
CHECK_DEADLOCK FALSE
INVARIANTS ConnectionsTypeOK CounterAhead OneCounterPerTable TransactionIdsDistinct ReportedIsCommitted IdleHoldsNothing OneEntryPerProcess ContentTypeOnce
PROPERTY OperationsEnd

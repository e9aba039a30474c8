\* An import submitted while the coordinator is leaving keeps its backlog.
CONSTANTS
  Task = {1, 2, 3, 4}
  Client = {c1}
  TaskType <- OnlyImport
  RestartableType <- OnlyImport
  ExclusiveType <- OnlyImport
  CancelSafeType <- OnlyImport
  RecurringType = "import"
  ApiType <- OnlyImport
  Coordinator = coordinator
  Nobody = nobody
  NoTask = 0
  Reserved = 3
  MaxBacklog = 2
  MaxFaults = 0
  MaxCancels = 0
  MaxRestarts = 0
  MaxDisturbances = 2
SPECIFICATION FairSpec
PROPERTIES
  BacklogDrains
CHECK_DEADLOCK FALSE

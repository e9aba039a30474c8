\* A cancel racing the start of an import lets two imports run.
CONSTANTS
  Task = {1, 2, 3}
  Client = {c1}
  TaskType <- OnlyImport
  RestartableType <- OnlyImport
  ExclusiveType <- OnlyImport
  CancelSafeType <- OnlyImport
  RecurringType = "import"
  ApiType <- OnlyImport
  Coordinator = coordinator
  Nobody = nobody
  NoTask = 0
  Reserved = 0
  MaxBacklog = 1
  MaxFaults = 0
  MaxCancels = 1
  MaxRestarts = 0
  MaxDisturbances = 2
SPECIFICATION Spec
INVARIANTS
  OneBatchAtATime
CHECK_DEADLOCK FALSE

\* The coordinator works the backlog off through faults, cancels and restarts.
CONSTANTS
  Task = {1, 2, 3, 4, 5}
  Client = {c1}
  TaskType <- OnlyImport
  RestartableType <- OnlyImport
  ExclusiveType <- OnlyImport
  CancelSafeType <- OnlyImport
  RecurringType = "import"
  ApiType = {}
  Coordinator = coordinator
  Nobody = nobody
  NoTask = 0
  Reserved = 0
  MaxBacklog = 2
  MaxFaults = 2
  MaxCancels = 1
  MaxRestarts = 1
  MaxDisturbances = 2
SPECIFICATION FairSpec
PROPERTIES
  BacklogDrains
  ImportsSettle
CHECK_DEADLOCK FALSE

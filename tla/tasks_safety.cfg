\* Requests, cancels, faults and restarts against two task types.
CONSTANTS
  Task = {1, 2, 3}
  Client = {c1}
  TaskType <- Both
  RestartableType <- OnlyImport
  ExclusiveType <- Both
  CancelSafeType <- OnlyImport
  RecurringType = "import"
  ApiType <- Both
  Coordinator = coordinator
  Nobody = nobody
  NoTask = 0
  Reserved = 1
  MaxBacklog = 1
  MaxFaults = 2
  MaxCancels = 2
  MaxRestarts = 1
  MaxDisturbances = 2
SPECIFICATION Spec
INVARIANTS
  TypeOK
  ExclusiveUnlessCancelled
  ActiveMeansOwned
  UnsafeNeverInterrupted
  CancelledInTimeNeverRuns
PROPERTIES
  OnlyDeadTasksReclaimed
  EndedStaysEnded
  KeepsLedger
CHECK_DEADLOCK FALSE

\* Three contenders, crashes and suspensions.
CONSTANTS
  panel = panel
  cli = cli
  scheduler = scheduler
  Proc = {panel, cli, scheduler}
  Scheduler = scheduler
  Host <- Containers
  Nobody = nobody
  NoFile = nofile
  Beat = 1
  Lease = 2
  Stale = 3
  Retries = 1
  MaxCrashes = 1
  MaxPauses = 1
  MaxErrors = 1
  MaxFaults = 1
SPECIFICATION Spec
INVARIANTS
  TypeOK
  OverlapExplained
  LeaseKept
CHECK_DEADLOCK FALSE

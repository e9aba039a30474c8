\* An abandoned lock is recovered.
CONSTANTS
  panel = panel
  cli = cli
  scheduler = scheduler
  Proc = {panel, scheduler}
  Scheduler = scheduler
  Host <- Containers
  Nobody = nobody
  NoFile = nofile
  Beat = 1
  Lease = 2
  Stale = 3
  Retries = 0
  MaxCrashes = 1
  MaxPauses = 1
  MaxErrors = 1
  MaxFaults = 1
SPECIFICATION FairSpec
PROPERTIES
  LockRecovered
CHECK_DEADLOCK FALSE

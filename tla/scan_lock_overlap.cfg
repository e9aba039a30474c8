\* Two contenders recover the lock of a crashed owner.
CONSTANTS
  panel = panel
  cli = cli
  scheduler = scheduler
  Proc = {panel, cli, scheduler}
  Scheduler = scheduler
  Host <- Containers
  Nobody = nobody
  NoFile = nofile
  Beat = 1
  Lease = 2
  Stale = 3
  Retries = 1
  MaxCrashes = 1
  MaxPauses = 0
  MaxErrors = 0
  MaxFaults = 1
SPECIFICATION Spec
INVARIANTS
  OneScanAtATime
CHECK_DEADLOCK FALSE

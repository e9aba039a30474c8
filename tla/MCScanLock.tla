------------------------------ MODULE MCScanLock ------------------------------
(* The panel and a CLI in one container, the scheduler in another.         *)
EXTENDS ScanLock

CONSTANTS panel, cli, scheduler

Containers == [p \in Proc |-> IF p = scheduler THEN "scheduler" ELSE "panel"]

================================================================================

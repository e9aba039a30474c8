----------------------------- MODULE MCTaskManager -----------------------------
(* Small instances of TaskManager: the catalog import, which is recurring, and  *)
(* the scan, which is exclusive and cannot be cancelled once it has started.    *)
EXTENDS TaskManager

Both       == {"import", "scan"}
OnlyImport == {"import"}
OnlyScan   == {"scan"}

================================================================================

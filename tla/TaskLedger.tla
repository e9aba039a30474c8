------------------------------- MODULE TaskLedger -------------------------------
(***************************************************************************)
(* What the table web_tasks promises about tasks nobody cancels, without   *)
(* threads, sessions or a process.  A task waits, is worked on and is      *)
(* done, in this order, except that a restart of the panel sends a task of *)
(* a restartable type back to the queue and ends the others.  A done task  *)
(* stays done, and of an exclusive type at most one task is open.          *)
(*                                                                         *)
(* A cancel request voids the promise: its task becomes "void", and the    *)
(* exclusivity of its type is no longer promised.                          *)
(***************************************************************************)
CONSTANTS Task, TaskType, RestartableType, ExclusiveType, DefaultType

VARIABLES
  phase,  \* absent, waiting, working, done or void
  kind    \* the type of each task

Phase == {"absent", "waiting", "working", "done", "void"}

Open(t) == phase[t] \in {"waiting", "working"}
OpenOf(ty) == {t \in Task : Open(t) /\ kind[t] = ty}
Promised(ty) == \A t \in Task : phase[t] = "void" => kind[t] # ty

Init ==
  /\ phase = [t \in Task |-> "absent"]
  /\ kind = [t \in Task |-> DefaultType]

\* Add task t of type ty; old is an open task given up at the same time, or t.
Add(t, ty, old) ==
  /\ phase[t] = "absent"
  /\ old # t => Open(old) /\ kind[old] = ty
  /\ ty \in ExclusiveType /\ Promised(ty) => OpenOf(ty) \subseteq {old}
  /\ phase' = [u \in Task |-> IF u = t THEN "waiting" ELSE IF u = old THEN "done" ELSE phase[u]]
  /\ kind' = [kind EXCEPT ![t] = ty]

Start(t) ==
  /\ phase[t] = "waiting"
  /\ phase' = [phase EXCEPT ![t] = "working"]
  /\ UNCHANGED kind

Finish(t) ==
  /\ Open(t)
  /\ phase' = [phase EXCEPT ![t] = "done"]
  /\ UNCHANGED kind

Void(t) ==
  /\ phase[t] # "absent"
  /\ phase' = [phase EXCEPT ![t] = "void"]
  /\ UNCHANGED kind

Restart ==
  /\ phase' = [t \in Task |-> IF ~Open(t) THEN phase[t]
                              ELSE IF kind[t] \in RestartableType THEN "waiting" ELSE "done"]
  /\ UNCHANGED kind

Next ==
  \/ \E t \in Task : Start(t) \/ Finish(t) \/ Void(t)
  \/ \E t, old \in Task, ty \in TaskType : Add(t, ty, old)
  \/ Restart

Spec == Init /\ [][Next]_<<phase, kind>>

================================================================================

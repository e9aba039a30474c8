--------------------------- MODULE TaskManagerProofs ---------------------------
(***************************************************************************)
(* Proofs about TaskManager for every set of tasks, clients and task       *)
(* types: each safety property the runs check, and the refinement of       *)
(* TaskLedger.  All follow from one inductive invariant, IInv.             *)
(***************************************************************************)
EXTENDS TaskManager, TLAPS

--------------------------------------------------------------------------------
(* The inductive invariant, beyond the types.                              *)

\* Nothing refers to a record that is not there.
AbsentInv ==
  /\ \A t \in Task : state[t] = "absent" =>
       worker[t] = "none" /\ outcome[t] = "none" /\ t \notin touched
  /\ last # NoTask => state[last] # "absent"
  /\ subOld # NoTask => state[subOld] # "absent"

\* Without a process there are no threads.
DownInv ==
  proc = "down" =>
    /\ \A t \in Task : worker[t] = "none"
    /\ guard = Nobody /\ coord = "off"
    /\ \A c \in Client : client[c] = Idle

\* What holds of every thread, also of those somebody cancels.
ThreadInv ==
  \A t \in Task :
    /\ worker[t] \in {"ended", "closing"} => outcome[t] # "none"
    /\ worker[t] = "created" => state[t] \in {"queued", "cancelled"}
    /\ taskType[t] \notin CancelSafeType => state[t] # "cancel_requested" /\ outcome[t] # "cancelled"

\* A thread has its record to itself, as long as nobody cancels the task.
OwnerInv ==
  \A t \in Task \ touched :
    /\ state[t] \notin {"cancel_requested", "cancelled"}
    /\ Owned(t) => Active(t)
    /\ worker[t] \in {"starting", "closing"} => seen[t] = state[t]
    /\ worker[t] \in {"created", "starting"} => state[t] = "queued"
    /\ worker[t] \in {"ended", "closing"} => outcome[t] \in {"completed", "failed"}
    /\ worker[t] = "exiting" => ~Active(t) \/ t \in orphaned

\* A cancel in flight is on record, decided on a state that allowed it.
CancelInv ==
  \A c \in Client : client[c].at = "cancelling" =>
    LET t == client[c].task IN
    /\ t \in touched
    /\ client[c].read # "queued" => taskType[t] \in CancelSafeType
    /\ worker[t] = "created" \/ promised[t] = "created" => client[c].read = "queued"

\* A cancel that came in time is final.
PromiseInv ==
  \A t \in Task : promised[t] = "created" =>
    /\ state[t] = "cancelled"
    /\ ~Busy(t)
    /\ coord = "orphaning" => last # t
    /\ guard # Nobody => subOld # t

\* The coordinator marks a record only after its thread has gone.
CoordInv ==
  /\ coord \in {"probe", "orphan", "orphaning"} => last # NoTask
  /\ coord \in {"orphan", "orphaning"} => worker[last] = "none"
  /\ coord = "orphaning" =>
       /\ coordRead \in ActiveState
       /\ last \notin touched => state[last] \in ActiveState \cup {"failed"}

\* And so does submit.
SubmitInv ==
  guard # Nobody =>
    /\ guard = Coordinator => coord = "submit"
    /\ subOld # NoTask =>
         /\ worker[subOld] = "none"
         /\ taskType[subOld] = subType
         /\ subRead \in ActiveState
         /\ subOld \notin touched => state[subOld] \in ActiveState \cup {"failed"}
    /\ subType \in ExclusiveType /\ Untouched(subType) =>
         \A t \in ActiveOf(subType) : t = subOld

\* One open record per exclusive type.
ExclusiveInv ==
  \A ty \in ExclusiveType : Untouched(ty) =>
    \A t, u \in ActiveOf(ty) : t = u

IInv ==
  /\ TypeOK
  /\ AbsentInv
  /\ DownInv
  /\ ThreadInv
  /\ OwnerInv
  /\ ActiveMeansOwned
  /\ CancelInv
  /\ PromiseInv
  /\ CoordInv
  /\ SubmitInv
  /\ ExclusiveInv

--------------------------------------------------------------------------------
(* IInv is inductive.                                                      *)

USE DEF ActiveState, TerminalState, TaskState, BusyAt, WorkerAt, Outcome, CoordAt, ClientAt, Idle

\* Every step of a worker thread preserves the invariant.
LEMMA ExecuteStep ==
  ASSUME IInv, NEW t \in Task, Execute(t)
  PROVE  IInv'
<1> USE ConstantsOK DEF IInv, taskVars, workerVars, guardVars, coordVars, catalog, bounds, history,
           SpendFault, CloseSession, Flush, Active, ActiveOf, Busy, Owned, Untouched
<1>1. CASE MarkRunningRead(t)
  <2> USE <1>1 DEF MarkRunningRead
  <2>1. \A u \in Task : worker'[u] = "created" => worker[u] = "created"
    BY DEF TypeOK
  <2>2. \A c \in Client : client[c].at = "cancelling" => client[c].task \in Task
    BY DEF CancelInv, TypeOK
  <2>3. TypeOK'
    BY DEF TypeOK
  <2>4. OwnerInv' /\ ActiveMeansOwned'
    BY DEF TypeOK, OwnerInv, ActiveMeansOwned
  <2>5. CancelInv'
    BY <2>1, <2>2 DEF CancelInv
  <2>6. AbsentInv' /\ DownInv' /\ ThreadInv' /\ PromiseInv' /\ CoordInv' /\ SubmitInv' /\
        ExclusiveInv'
    BY DEF TypeOK, AbsentInv, DownInv, ThreadInv, PromiseInv, CoordInv, SubmitInv, ExclusiveInv
  <2>7. QED
    BY <2>3, <2>4, <2>5, <2>6
<1>2. CASE MarkRunningCommit(t)
  <2> USE <1>2 DEF MarkRunningCommit
  <2>1. TypeOK'
    BY DEF TypeOK
  <2>2. OwnerInv' /\ ActiveMeansOwned'
    BY DEF TypeOK, OwnerInv, ActiveMeansOwned
  <2>3. PromiseInv'
    BY DEF PromiseInv
  <2>4. ExclusiveInv'
    BY DEF OwnerInv, ExclusiveInv
  <2>5. AbsentInv' /\ DownInv' /\ ThreadInv' /\ CancelInv' /\ CoordInv' /\ SubmitInv'
    BY DEF AbsentInv, DownInv, ThreadInv, OwnerInv, CancelInv, CoordInv, SubmitInv
  <2>6. QED
    BY <2>1, <2>2, <2>3, <2>4, <2>5
<1>3. CASE MarkRunningLocked(t)
  <2> USE <1>3 DEF MarkRunningLocked
  <2>1. TypeOK'
    BY DEF TypeOK
  <2>2. ThreadInv'
    BY DEF TypeOK, ThreadInv
  <2>3. OwnerInv' /\ ActiveMeansOwned'
    BY DEF TypeOK, OwnerInv, ActiveMeansOwned
  <2>4. AbsentInv' /\ DownInv' /\ CancelInv' /\ PromiseInv' /\ CoordInv' /\ SubmitInv' /\
        ExclusiveInv'
    BY DEF AbsentInv, DownInv, CancelInv, PromiseInv, CoordInv, SubmitInv, ExclusiveInv
  <2>5. QED
    BY <2>1, <2>2, <2>3, <2>4
<1>4. ASSUME NEW how \in Outcome \ {"none"}, EndHandler(t, how),
             how = "cancelled" => state[t] = "cancel_requested",
             pending' \in Nat, upstream' \in Nat, UNCHANGED bounds \/ SpendFault
      PROVE  IInv'
  <2> USE <1>4 DEF EndHandler
  <2>1. TypeOK'
    BY DEF TypeOK
  <2>2. ThreadInv'
    BY DEF TypeOK, ThreadInv
  <2>3. OwnerInv' /\ ActiveMeansOwned'
    BY DEF TypeOK, OwnerInv, ActiveMeansOwned
  <2>4. AbsentInv' /\ DownInv' /\ CancelInv' /\ PromiseInv' /\ CoordInv' /\ SubmitInv' /\
        ExclusiveInv'
    BY DEF AbsentInv, DownInv, CancelInv, PromiseInv, CoordInv, SubmitInv, ExclusiveInv
  <2>5. QED
    BY <2>1, <2>2, <2>3, <2>4
<1>5. CASE HandlerEnds(t)
  <2>1. CASE HandlerReturns(t)
    <3>1. ImportBatch => pending' \in Nat /\ upstream' \in Nat
      BY DEF ImportBatch, TypeOK
    <3>2. QED
      BY <1>4, <2>1, <3>1 DEF HandlerReturns, TypeOK
  <2>2. CASE HandlerRaises(t)
    BY <1>4, <2>2 DEF HandlerRaises, TypeOK
  <2>3. CASE CheckpointCancels(t)
    BY <1>4, <2>3 DEF CheckpointCancels, TypeOK
  <2>4. QED
    BY <1>5, <2>1, <2>2, <2>3 DEF HandlerEnds
<1>6. CASE CloseRead(t)
  <2> USE <1>6 DEF CloseRead
  <2>1. TypeOK'
    BY DEF TypeOK
  <2>2. OwnerInv' /\ ActiveMeansOwned'
    BY DEF TypeOK, OwnerInv, ActiveMeansOwned
  <2>3. AbsentInv' /\ DownInv' /\ ThreadInv' /\ CancelInv' /\ PromiseInv' /\ CoordInv' /\
        SubmitInv' /\ ExclusiveInv'
    BY DEF AbsentInv, DownInv, ThreadInv, CancelInv, PromiseInv, CoordInv, SubmitInv, ExclusiveInv
  <2>4. QED
    BY <2>1, <2>2, <2>3
<1>7. CASE CloseCommit(t)
  <2> USE <1>7 DEF CloseCommit, FinalState
  <2>1. TypeOK'
    BY DEF TypeOK, ThreadInv
  <2>2. ThreadInv'
    BY DEF TypeOK, ThreadInv
  <2>3. OwnerInv' /\ ActiveMeansOwned'
    BY DEF TypeOK, OwnerInv, ActiveMeansOwned
  <2>4. PromiseInv'
    BY DEF PromiseInv
  <2>5. ExclusiveInv'
    BY DEF TypeOK, ExclusiveInv
  <2>6. AbsentInv' /\ DownInv' /\ CancelInv' /\ CoordInv' /\ SubmitInv'
    BY DEF TypeOK, AbsentInv, DownInv, CancelInv, CoordInv, SubmitInv
  <2>7. QED
    BY <2>1, <2>2, <2>3, <2>4, <2>5, <2>6
<1>8. CASE CloseLocked(t)
  <2> USE <1>8 DEF CloseLocked
  <2>1. \A u \in Task : worker'[u] = "created" => worker[u] = "created"
    BY DEF TypeOK
  <2>2. \A c \in Client : client[c].at = "cancelling" => client[c].task \in Task
    BY DEF CancelInv, TypeOK
  <2>3. worker' \in [Task -> WorkerAt] /\ outcome' \in [Task -> Outcome]
    BY DEF TypeOK
  <2>4. seen' \in [Task -> TaskState] /\ orphaned' \subseteq Task
    BY DEF TypeOK
  <2>5. faults' \in 0 .. MaxFaults /\ cancels' = cancels /\ restarts' = restarts
    BY DEF TypeOK
  <2>6. TypeOK'
    BY <2>3, <2>4, <2>5 DEF TypeOK
  <2>7. ThreadInv'
    BY DEF TypeOK, ThreadInv
  <2>8. OwnerInv' /\ ActiveMeansOwned'
    BY DEF TypeOK, OwnerInv, ActiveMeansOwned
  <2>9. CancelInv'
    BY <2>1, <2>2 DEF CancelInv
  <2>10. AbsentInv' /\ DownInv' /\ PromiseInv' /\ CoordInv' /\ SubmitInv' /\ ExclusiveInv'
    BY DEF TypeOK, AbsentInv, DownInv, PromiseInv, CoordInv, SubmitInv, ExclusiveInv
  <2>11. QED
    BY <2>6, <2>7, <2>8, <2>9, <2>10
<1>9. CASE PopThread(t)
  <2> USE <1>9 DEF PopThread
  <2>1. TypeOK'
    BY DEF TypeOK
  <2>2. OwnerInv' /\ ActiveMeansOwned'
    BY DEF OwnerInv, ActiveMeansOwned
  <2>3. AbsentInv' /\ DownInv' /\ ThreadInv' /\ CancelInv' /\ PromiseInv' /\ CoordInv' /\
        SubmitInv' /\ ExclusiveInv'
    BY DEF TypeOK, AbsentInv, DownInv, ThreadInv, CancelInv, PromiseInv, CoordInv, SubmitInv,
         ExclusiveInv
  <2>4. QED
    BY <2>1, <2>2, <2>3
<1>10. QED
  BY <1>1, <1>2, <1>3, <1>5, <1>6, <1>7, <1>8, <1>9 DEF Execute

\* The query of submit preserves the invariant, for both callers.
LEMMA SubmitReadStep ==
  ASSUME IInv, NEW p \in Client \cup {Coordinator}, NEW ty \in TaskType, SubmitRead(p, ty),
         UNCHANGED coordVars, proc # "down", p = Coordinator => coord = "submit"
  PROVE  IInv'
<1> USE ConstantsOK DEF IInv, taskVars, workerVars, guardVars, coordVars, catalog, bounds, history,
           SpendFault, CloseSession, Flush, Active, ActiveOf, Busy, Owned, Untouched
<1>1. PICK old \in Task \cup {NoTask} :
        /\ TakeGuard(p, ty, old)
        /\ old # NoTask => old \in ActiveOf(ty) /\ ~ThreadAlive(old)
        /\ old = NoTask => ty \notin ExclusiveType \/ ActiveOf(ty) = {}
  BY DEF SubmitRead
<1>2. TypeOK'
  BY <1>1 DEF TakeGuard, ThreadAlive, TypeOK
<1>3. SubmitInv'
  BY <1>1 DEF TakeGuard, ThreadAlive, SubmitInv, ExclusiveInv
<1>4. PromiseInv'
  BY <1>1 DEF TakeGuard, ThreadAlive, PromiseInv
<1>5. AbsentInv' /\ DownInv' /\ ThreadInv' /\ OwnerInv' /\ ActiveMeansOwned' /\ CancelInv' /\
      CoordInv' /\ ExclusiveInv'
  BY <1>1 DEF TakeGuard, ThreadAlive, AbsentInv, DownInv, ThreadInv, OwnerInv, ActiveMeansOwned,
     CancelInv, CoordInv,
       ExclusiveInv
<1>6. QED
  BY <1>2, <1>3, <1>4, <1>5

\* The transaction of submit preserves the invariant, for both callers.
LEMMA SubmitEndStep ==
  ASSUME IInv, NEW p \in Client \cup {Coordinator}, SubmitCommit(p) \/ SubmitLocked(p)
  PROVE  IInv'
<1> USE ConstantsOK DEF IInv, taskVars, workerVars, guardVars, coordVars, catalog, bounds, history,
           SpendFault, CloseSession, Flush, Active, ActiveOf, Busy, Owned, Untouched
<1>1. CASE SubmitCommit(p)
  <2> USE <1>1 DEF SubmitCommit, AfterSubmit, ReleaseGuard, NextFresh, Fresh
  <2>1. worker' \in [Task -> WorkerAt]
    BY DEF TypeOK
  <2>2. state' \in [Task -> TaskState] /\ taskType' \in [Task -> TaskType]
    BY DEF TypeOK
  <2>3. client' \in [Client -> [at : ClientAt, task : Task \cup {NoTask}, read : TaskState]]
    BY DEF TypeOK
  <2>4. faults' \in 0 .. MaxFaults /\ cancels' = cancels /\ restarts' = restarts
    BY DEF TypeOK
  <2>5. TypeOK'
    BY <2>1, <2>2, <2>3, <2>4 DEF TypeOK
  <2>6. AbsentInv'
    BY DEF TypeOK, AbsentInv
  <2>7. ThreadInv'
    BY DEF TypeOK, AbsentInv, ThreadInv, SubmitInv
  <2>8. OwnerInv' /\ ActiveMeansOwned'
    BY DEF TypeOK, OwnerInv, ActiveMeansOwned, SubmitInv
  <2>9. CancelInv'
    BY DEF TypeOK, AbsentInv, CancelInv
  <2>10. PromiseInv'
    BY DEF TypeOK, PromiseInv
  <2>11. CoordInv'
    BY DEF TypeOK, AbsentInv, CoordInv
  <2>12. SubmitInv'
    BY DEF SubmitInv
  <2>13. ExclusiveInv'
    BY DEF TypeOK, AbsentInv, SubmitInv, ExclusiveInv
  <2>14. DownInv'
    BY DEF DownInv
  <2>15. QED
    BY <2>5, <2>6, <2>7, <2>8, <2>9, <2>10, <2>11, <2>12, <2>13, <2>14
<1>2. CASE SubmitLocked(p)
  <2> USE <1>2 DEF SubmitLocked, AfterSubmit, ReleaseGuard
  <2>1. TypeOK'
    BY DEF TypeOK, ActiveMeansOwned, SubmitInv
  <2>2. AbsentInv' /\ DownInv' /\ ThreadInv' /\ OwnerInv' /\ ActiveMeansOwned' /\ CancelInv' /\
        PromiseInv' /\ CoordInv' /\ SubmitInv' /\ ExclusiveInv'
    BY DEF TypeOK, AbsentInv, DownInv, ThreadInv, OwnerInv, ActiveMeansOwned, CancelInv,
         PromiseInv, CoordInv, SubmitInv, ExclusiveInv
  <2>3. QED
    BY <2>1, <2>2
<1>3. QED
  BY <1>1, <1>2

\* Every step of an API thread preserves the invariant.
LEMMA RequestStep ==
  ASSUME IInv, NEW c \in Client, Request(c)
  PROVE  IInv'
<1> USE ConstantsOK DEF IInv, taskVars, workerVars, guardVars, coordVars, catalog, bounds, history,
           SpendFault, CloseSession, Flush, Active, ActiveOf, Busy, Owned, Untouched
<1>1. ASSUME NEW ty \in ApiType, ClientSubmit(c, ty) PROVE IInv'
  BY <1>1, SubmitReadStep DEF ClientSubmit
<1>2. CASE SubmitCommit(c) \/ SubmitLocked(c)
  BY <1>2, SubmitEndStep
<1>3. ASSUME NEW t \in Task, CancelRead(c, t) PROVE IInv'
  <2> USE <1>3 DEF CancelRead
  <2>1. TypeOK'
    BY DEF TypeOK
  <2>2. CancelInv' /\ PromiseInv'
    BY DEF ThreadInv, CancelInv, PromiseInv
  <2>3. AbsentInv' /\ DownInv' /\ ThreadInv' /\ OwnerInv' /\ ActiveMeansOwned' /\ CoordInv' /\
        SubmitInv' /\ ExclusiveInv'
    BY DEF AbsentInv, DownInv, ThreadInv, OwnerInv, ActiveMeansOwned, CoordInv, SubmitInv,
         ExclusiveInv
  <2>4. QED
    BY <2>1, <2>2, <2>3
<1>4. CASE CancelCommit(c)
  <2> USE <1>4 DEF CancelCommit
  <2>1. client[c].task \in touched /\ client[c].task \in Task
    BY DEF CancelInv, TypeOK
  <2>2. state' \in [Task -> TaskState]
    BY <2>1 DEF TypeOK
  <2>3. promised' \in [Task -> WorkerAt]
    BY <2>1 DEF TypeOK
  <2>4. client' \in [Client -> [at : ClientAt, task : Task \cup {NoTask}, read : TaskState]]
    BY DEF TypeOK
  <2>5. TypeOK'
    BY <2>2, <2>3, <2>4 DEF TypeOK
  <2>6. ThreadInv'
    BY <2>1 DEF ThreadInv, CancelInv
  <2>7. CancelInv' /\ PromiseInv'
    BY <2>1 DEF TypeOK, CancelInv, PromiseInv, CoordInv, SubmitInv
  <2>8. AbsentInv' /\ DownInv' /\ OwnerInv' /\ ActiveMeansOwned' /\ CoordInv' /\ SubmitInv' /\
        ExclusiveInv'
    BY <2>1 DEF AbsentInv, DownInv, OwnerInv, ActiveMeansOwned, CoordInv, SubmitInv, ExclusiveInv
  <2>9. QED
    BY <2>5, <2>6, <2>7, <2>8
<1>5. CASE CancelLocked(c)
  <2> USE <1>5 DEF CancelLocked
  <2>1. TypeOK'
    BY DEF TypeOK
  <2>2. AbsentInv' /\ DownInv' /\ ThreadInv' /\ OwnerInv' /\ ActiveMeansOwned' /\ CancelInv' /\
        PromiseInv' /\ CoordInv' /\ SubmitInv' /\ ExclusiveInv'
    BY DEF AbsentInv, DownInv, ThreadInv, OwnerInv, ActiveMeansOwned, CancelInv, PromiseInv,
         CoordInv, SubmitInv, ExclusiveInv
  <2>3. QED
    BY <2>1, <2>2
<1>6. CASE EnsureRecurring(c)
  <2> USE <1>6 DEF EnsureRecurring
  <2>1. TypeOK'
    BY DEF TypeOK
  <2>2. AbsentInv' /\ DownInv' /\ ThreadInv' /\ OwnerInv' /\ ActiveMeansOwned' /\ CancelInv' /\
        PromiseInv' /\ CoordInv' /\ SubmitInv' /\ ExclusiveInv'
    BY DEF AbsentInv, DownInv, ThreadInv, OwnerInv, ActiveMeansOwned, CancelInv, PromiseInv,
         CoordInv, SubmitInv, ExclusiveInv
  <2>3. QED
    BY <2>1, <2>2
<1>7. QED
  BY <1>1, <1>2, <1>3, <1>4, <1>5, <1>6 DEF Request

\* Every step of the coordinator preserves the invariant.
LEMMA RecurringStep ==
  ASSUME IInv, Recurring
  PROVE  IInv'
<1> USE ConstantsOK DEF IInv, taskVars, workerVars, guardVars, coordVars, catalog, bounds, history,
           SpendFault, CloseSession, Flush, Active, ActiveOf, Busy, Owned, Untouched
<1> USE DEF RecurringUnchanged
<1>1. CASE RecurringStops
  <2> USE <1>1 DEF RecurringStops
  <2>1. TypeOK'
    BY DEF TypeOK
  <2>2. AbsentInv' /\ DownInv' /\ ThreadInv' /\ OwnerInv' /\ ActiveMeansOwned' /\ CancelInv' /\
        PromiseInv' /\ CoordInv' /\ SubmitInv' /\ ExclusiveInv'
    BY DEF AbsentInv, DownInv, ThreadInv, OwnerInv, ActiveMeansOwned, CancelInv, PromiseInv,
         CoordInv, SubmitInv, ExclusiveInv
  <2>3. QED
    BY <2>1, <2>2
<1>2. CASE RecurringPrevious
  <2> USE <1>2 DEF RecurringPrevious
  <2>1. TypeOK'
    BY DEF TypeOK
  <2>2. CoordInv'
    BY DEF CoordInv
  <2>3. AbsentInv' /\ DownInv' /\ ThreadInv' /\ OwnerInv' /\ ActiveMeansOwned' /\ CancelInv' /\
        PromiseInv' /\ SubmitInv' /\ ExclusiveInv'
    BY DEF AbsentInv, DownInv, ThreadInv, OwnerInv, ActiveMeansOwned, CancelInv, PromiseInv,
         SubmitInv, ExclusiveInv
  <2>4. QED
    BY <2>1, <2>2, <2>3
<1>3. CASE RecurringProbe
  <2> USE <1>3 DEF RecurringProbe, ThreadAlive
  <2>1. TypeOK'
    BY DEF TypeOK
  <2>2. CoordInv'
    BY DEF CoordInv
  <2>3. AbsentInv' /\ DownInv' /\ ThreadInv' /\ OwnerInv' /\ ActiveMeansOwned' /\ CancelInv' /\
        PromiseInv' /\ SubmitInv' /\ ExclusiveInv'
    BY DEF TypeOK, AbsentInv, DownInv, ThreadInv, OwnerInv, ActiveMeansOwned, CancelInv,
         PromiseInv, SubmitInv, ExclusiveInv
  <2>4. QED
    BY <2>1, <2>2, <2>3
<1>4. CASE MarkOrphanedRead
  <2> USE <1>4 DEF MarkOrphanedRead
  <2>1. TypeOK'
    BY DEF TypeOK
  <2>2. CoordInv'
    BY DEF CoordInv
  <2>3. PromiseInv'
    BY DEF PromiseInv
  <2>4. AbsentInv' /\ DownInv' /\ ThreadInv' /\ OwnerInv' /\ ActiveMeansOwned' /\ CancelInv' /\
        SubmitInv' /\ ExclusiveInv'
    BY DEF AbsentInv, DownInv, ThreadInv, OwnerInv, ActiveMeansOwned, CancelInv, SubmitInv,
         ExclusiveInv
  <2>5. QED
    BY <2>1, <2>2, <2>3, <2>4
<1>5. CASE MarkOrphanedCommit
  <2> USE <1>5 DEF MarkOrphanedCommit
  <2>1. TypeOK'
    BY DEF TypeOK, CoordInv
  <2>2. OwnerInv' /\ ActiveMeansOwned'
    BY DEF OwnerInv, ActiveMeansOwned, CoordInv
  <2>3. PromiseInv'
    BY DEF PromiseInv
  <2>4. ExclusiveInv'
    BY DEF ExclusiveInv
  <2>5. AbsentInv' /\ DownInv' /\ ThreadInv' /\ CancelInv' /\ CoordInv' /\ SubmitInv'
    BY DEF AbsentInv, DownInv, ThreadInv, CancelInv, CoordInv, SubmitInv
  <2>6. QED
    BY <2>1, <2>2, <2>3, <2>4, <2>5
<1>6. CASE MarkOrphanedLocked
  <2> USE <1>6 DEF MarkOrphanedLocked
  <2>1. TypeOK'
    BY DEF TypeOK
  <2>2. AbsentInv' /\ DownInv' /\ ThreadInv' /\ OwnerInv' /\ ActiveMeansOwned' /\ CancelInv' /\
        PromiseInv' /\ CoordInv' /\ SubmitInv' /\ ExclusiveInv'
    BY DEF AbsentInv, DownInv, ThreadInv, OwnerInv, ActiveMeansOwned, CancelInv, PromiseInv,
         CoordInv, SubmitInv, ExclusiveInv
  <2>3. QED
    BY <2>1, <2>2
<1>7. CASE ContinueActive
  <2> USE <1>7 DEF ContinueActive
  <2>1. TypeOK'
    BY DEF TypeOK
  <2>2. AbsentInv' /\ DownInv' /\ ThreadInv' /\ OwnerInv' /\ ActiveMeansOwned' /\ CancelInv' /\
        PromiseInv' /\ CoordInv' /\ SubmitInv' /\ ExclusiveInv'
    BY DEF TypeOK, AbsentInv, DownInv, ThreadInv, OwnerInv, ActiveMeansOwned, CancelInv,
         PromiseInv, CoordInv, SubmitInv, ExclusiveInv
  <2>3. QED
    BY <2>1, <2>2
<1>8. CASE ContinuePending
  <2> USE <1>8 DEF ContinuePending
  <2>1. TypeOK'
    BY DEF TypeOK
  <2>2. AbsentInv' /\ DownInv' /\ ThreadInv' /\ OwnerInv' /\ ActiveMeansOwned' /\ CancelInv' /\
        PromiseInv' /\ CoordInv' /\ SubmitInv' /\ ExclusiveInv'
    BY DEF AbsentInv, DownInv, ThreadInv, OwnerInv, ActiveMeansOwned, CancelInv, PromiseInv,
         CoordInv, SubmitInv, ExclusiveInv
  <2>3. QED
    BY <2>1, <2>2
<1>9. CASE RecurringConflict
  <2> USE <1>9 DEF RecurringConflict
  <2>1. TypeOK'
    BY DEF TypeOK
  <2>2. AbsentInv' /\ DownInv' /\ ThreadInv' /\ OwnerInv' /\ ActiveMeansOwned' /\ CancelInv' /\
        PromiseInv' /\ CoordInv' /\ SubmitInv' /\ ExclusiveInv'
    BY DEF AbsentInv, DownInv, ThreadInv, OwnerInv, ActiveMeansOwned, CancelInv, PromiseInv,
         CoordInv, SubmitInv, ExclusiveInv
  <2>3. QED
    BY <2>1, <2>2
<1>10. CASE RecurringReturns
  <2> USE <1>10 DEF RecurringReturns
  <2>1. TypeOK'
    BY DEF TypeOK
  <2>2. AbsentInv' /\ DownInv' /\ ThreadInv' /\ OwnerInv' /\ ActiveMeansOwned' /\ CancelInv' /\
        PromiseInv' /\ CoordInv' /\ SubmitInv' /\ ExclusiveInv'
    BY DEF AbsentInv, DownInv, ThreadInv, OwnerInv, ActiveMeansOwned, CancelInv, PromiseInv,
         CoordInv, SubmitInv, ExclusiveInv
  <2>3. QED
    BY <2>1, <2>2
<1>11. CASE RecurringSubmit
  BY <1>11, SubmitReadStep DEF RecurringSubmit, DownInv
<1>12. CASE SubmitCommit(Coordinator) \/ SubmitLocked(Coordinator)
  BY <1>12, SubmitEndStep
<1>13. QED
  BY <1>1, <1>2, <1>3, <1>4, <1>5, <1>6, <1>7, <1>8, <1>9, <1>10, <1>11, <1>12 DEF Recurring

\* A shutdown, a crash and a restart preserve the invariant.
LEMMA ProcessStep ==
  ASSUME IInv, Process
  PROVE  IInv'
<1> USE ConstantsOK DEF IInv, taskVars, workerVars, guardVars, coordVars, catalog, bounds, history,
           SpendFault, CloseSession, Flush, Active, ActiveOf, Busy, Owned, Untouched
<1>1. CASE Shutdown
  <2> USE <1>1 DEF Shutdown
  <2>1. TypeOK'
    BY DEF TypeOK
  <2>2. AbsentInv' /\ DownInv' /\ ThreadInv' /\ OwnerInv' /\ ActiveMeansOwned' /\ CancelInv' /\
        PromiseInv' /\ CoordInv' /\ SubmitInv' /\ ExclusiveInv'
    BY DEF TypeOK, AbsentInv, DownInv, ThreadInv, OwnerInv, ActiveMeansOwned, CancelInv,
         PromiseInv, CoordInv, SubmitInv, ExclusiveInv
  <2>3. QED
    BY <2>1, <2>2
<1>2. CASE Exit
  <2> USE <1>2 DEF Exit, ThreadsVanish, ReleaseGuard
  <2>1. TypeOK'
    BY DEF TypeOK
  <2>2. AbsentInv' /\ DownInv' /\ ThreadInv' /\ OwnerInv' /\ ActiveMeansOwned' /\ CancelInv' /\
        PromiseInv' /\ CoordInv' /\ SubmitInv' /\ ExclusiveInv'
    BY DEF AbsentInv, DownInv, ThreadInv, OwnerInv, ActiveMeansOwned, CancelInv, PromiseInv,
         CoordInv, SubmitInv, ExclusiveInv
  <2>3. QED
    BY <2>1, <2>2
<1>3. CASE Crash
  <2> USE <1>3 DEF Crash, ThreadsVanish, ReleaseGuard
  <2>1. TypeOK'
    BY DEF TypeOK
  <2>2. AbsentInv' /\ DownInv' /\ ThreadInv' /\ OwnerInv' /\ ActiveMeansOwned' /\ CancelInv' /\
        PromiseInv' /\ CoordInv' /\ SubmitInv' /\ ExclusiveInv'
    BY DEF TypeOK, AbsentInv, DownInv, ThreadInv, OwnerInv, ActiveMeansOwned, CancelInv,
         PromiseInv, CoordInv, SubmitInv, ExclusiveInv
  <2>3. QED
    BY <2>1, <2>2
<1>4. CASE Boot
  <2> USE <1>4 DEF Boot, Recovered
  <2>1. TypeOK'
    BY DEF TypeOK
  <2>2. OwnerInv' /\ ActiveMeansOwned'
    BY DEF OwnerInv, ActiveMeansOwned
  <2>3. PromiseInv'
    BY DEF PromiseInv
  <2>4. ExclusiveInv'
    BY DEF ExclusiveInv
  <2>5. AbsentInv' /\ DownInv' /\ ThreadInv' /\ CancelInv' /\ CoordInv' /\ SubmitInv'
    BY DEF TypeOK, AbsentInv, DownInv, ThreadInv, CancelInv, CoordInv, SubmitInv
  <2>6. QED
    BY <2>1, <2>2, <2>3, <2>4, <2>5
<1>5. QED
  BY <1>1, <1>2, <1>3, <1>4 DEF Process

\* IInv is an invariant of the task manager.
THEOREM Invariance == Spec => []IInv
<1>1. Init => IInv
  BY ConstantsOK DEF Init, IInv, TypeOK, AbsentInv, DownInv, ThreadInv, OwnerInv, ActiveMeansOwned,
     CancelInv, PromiseInv, CoordInv, SubmitInv, ExclusiveInv, Active, ActiveOf, Busy, Owned,
     Untouched
<1>2. IInv /\ UNCHANGED vars => IInv'
  BY DEF vars, taskVars, workerVars, guardVars, coordVars, catalog, bounds, history, IInv, TypeOK,
     AbsentInv, DownInv, ThreadInv, OwnerInv, ActiveMeansOwned, CancelInv, PromiseInv, CoordInv,
     SubmitInv, ExclusiveInv, Active, ActiveOf, Busy, Owned, Untouched
<1>3. IInv /\ [Next]_vars => IInv'
  BY <1>2, ExecuteStep, RequestStep, RecurringStep, ProcessStep DEF Next
<1>4. QED
  BY <1>1, <1>3, PTL DEF Spec

--------------------------------------------------------------------------------
(* The invariants the runs check.                                          *)

\* Every variable keeps its type.
THEOREM TypeCorrect == Spec => []TypeOK
<1>1. IInv => TypeOK
  BY DEF IInv
<1>2. QED
  BY Invariance, <1>1, PTL

\* Handlers of an exclusive type never overlap while nobody cancels a task of
\* the type: busy threads own active records, of which there is one.
THEOREM ExclusiveTheorem == Spec => []ExclusiveUnlessCancelled
<1>1. IInv => ExclusiveUnlessCancelled
  <2>1. SUFFICES ASSUME IInv, NEW ty \in ExclusiveType, Untouched(ty),
                        NEW t \in Task, NEW u \in Task, taskType[t] = ty, taskType[u] = ty,
                        Busy(t), Busy(u)
                 PROVE  t = u
    BY DEF ExclusiveUnlessCancelled
  <2>2. t \notin touched /\ u \notin touched
    BY <2>1 DEF Untouched
  <2>3. Active(t) /\ Active(u)
    BY <2>1, <2>2 DEF IInv, OwnerInv, Busy, Owned
  <2>4. QED
    BY <2>1, <2>3 DEF IInv, ExclusiveInv, ActiveOf
<1>2. QED
  BY Invariance, <1>1, PTL

\* Records of the running panel tell the truth about their threads.
THEOREM OwnedTheorem == Spec => []ActiveMeansOwned
<1>1. IInv => ActiveMeansOwned
  BY DEF IInv
<1>2. QED
  BY Invariance, <1>1, PTL

\* A task that is not cancel-safe is never interrupted.
THEOREM UnsafeTheorem == Spec => []UnsafeNeverInterrupted
<1>1. IInv => UnsafeNeverInterrupted
  BY DEF IInv, ThreadInv, UnsafeNeverInterrupted
<1>2. QED
  BY Invariance, <1>1, PTL

\* A cancel that commits before the thread has read the record is final.
THEOREM PromiseTheorem == Spec => []CancelledInTimeNeverRuns
<1>1. IInv => CancelledInTimeNeverRuns
  BY DEF IInv, PromiseInv, CancelledInTimeNeverRuns
<1>2. QED
  BY Invariance, <1>1, PTL

--------------------------------------------------------------------------------
(* What a step does to the records.                                        *)

\* The steps that change what web_tasks or the record of cancels say.
RecordChange ==
  \/ \E t \in Task : MarkRunningCommit(t) \/ CloseCommit(t)
  \/ \E p \in Client \cup {Coordinator} : SubmitCommit(p)
  \/ \E c \in Client : CancelCommit(c) \/ \E t \in Task : CancelRead(c, t)
  \/ MarkOrphanedCommit
  \/ Boot

\* Every other step leaves the records alone.
LEMMA RecordSteps ==
  ASSUME [Next]_vars
  PROVE  RecordChange \/ UNCHANGED <<state, taskType, touched>>
<1> USE DEF taskVars, history
<1>1. ASSUME NEW t \in Task, Execute(t)
      PROVE  RecordChange \/ UNCHANGED <<state, taskType, touched>>
  BY <1>1 DEF RecordChange, Execute, HandlerEnds, MarkRunningRead, MarkRunningLocked,
     HandlerReturns,
     HandlerRaises, CheckpointCancels, EndHandler, CloseRead, CloseLocked, PopThread
<1>2. ASSUME NEW c \in Client, Request(c)
      PROVE  RecordChange \/ UNCHANGED <<state, taskType, touched>>
  BY <1>2 DEF RecordChange, Request, ClientSubmit, SubmitRead, TakeGuard, SubmitLocked,
     CancelLocked,
     EnsureRecurring
<1>3. CASE Recurring
  BY <1>3 DEF RecordChange, Recurring, RecurringStops, RecurringPrevious, RecurringProbe,
     MarkOrphanedRead, MarkOrphanedLocked, ContinueActive, ContinuePending, RecurringConflict,
     RecurringReturns, RecurringSubmit, SubmitRead, TakeGuard, SubmitLocked, RecurringUnchanged
<1>4. CASE Process
  BY <1>4 DEF RecordChange, Process, Shutdown, Exit, Crash, ThreadsVanish
<1>5. CASE UNCHANGED vars
  BY <1>5 DEF vars
<1>6. QED
  BY <1>1, <1>2, <1>3, <1>4, <1>5 DEF Next

\* Only tasks whose thread has gone, or is about to, are failed.
THEOREM ReclaimTheorem == Spec => OnlyDeadTasksReclaimed
<1> DEFINE Reclaims == \A t \in Task :
             Active(t) /\ state'[t] = "failed" => worker[t] \in {"none", "closing"}
<1>1. ASSUME IInv, [Next]_vars PROVE Reclaims
  <2> USE <1>1 DEF IInv, TypeOK, Active, Flush
  <2>1. ASSUME NEW t \in Task, MarkRunningCommit(t) PROVE Reclaims
    BY <2>1 DEF MarkRunningCommit
  <2>2. ASSUME NEW t \in Task, CloseCommit(t) PROVE Reclaims
    BY <2>2 DEF CloseCommit
  <2>3. ASSUME NEW p \in Client \cup {Coordinator}, SubmitCommit(p) PROVE Reclaims
    BY <2>3, ConstantsOK DEF SubmitCommit, SubmitInv, NextFresh, Fresh
  <2>4. ASSUME NEW c \in Client, CancelCommit(c) PROVE Reclaims
    BY <2>4 DEF CancelCommit
  <2>5. ASSUME NEW c \in Client, NEW t \in Task, CancelRead(c, t) PROVE Reclaims
    BY <2>5 DEF CancelRead, taskVars
  <2>6. CASE MarkOrphanedCommit
    BY <2>6 DEF MarkOrphanedCommit, CoordInv
  <2>7. CASE Boot
    BY <2>7 DEF Boot, DownInv
  <2>8. CASE UNCHANGED <<state, taskType, touched>>
    BY <2>8
  <2>9. QED
    BY <2>1, <2>2, <2>3, <2>4, <2>5, <2>6, <2>7, <2>8, RecordSteps DEF RecordChange
<1>2. QED
  BY <1>1, Invariance, PTL DEF Spec, OnlyDeadTasksReclaimed

\* What ended without a cancel stays as it ended.
THEOREM EndedTheorem == Spec => EndedStaysEnded
<1> DEFINE Stays == \A t \in Task \ touched :
             state[t] \in TerminalState => state'[t] = state[t]
<1>1. ASSUME IInv, [Next]_vars PROVE Stays
  <2> USE <1>1 DEF IInv, TypeOK, Active, Flush
  <2>1. ASSUME NEW t \in Task, MarkRunningCommit(t) PROVE Stays
    BY <2>1 DEF MarkRunningCommit, OwnerInv
  <2>2. ASSUME NEW t \in Task, CloseCommit(t) PROVE Stays
    BY <2>2 DEF CloseCommit, OwnerInv, Owned
  <2>3. ASSUME NEW p \in Client \cup {Coordinator}, SubmitCommit(p) PROVE Stays
    BY <2>3, ConstantsOK DEF SubmitCommit, SubmitInv, NextFresh, Fresh
  <2>4. ASSUME NEW c \in Client, CancelCommit(c) PROVE Stays
    BY <2>4 DEF CancelCommit, CancelInv
  <2>5. ASSUME NEW c \in Client, NEW t \in Task, CancelRead(c, t) PROVE Stays
    BY <2>5 DEF CancelRead, taskVars
  <2>6. CASE MarkOrphanedCommit
    BY <2>6 DEF MarkOrphanedCommit, CoordInv
  <2>7. CASE Boot
    BY <2>7 DEF Boot, Recovered
  <2>8. CASE UNCHANGED <<state, taskType, touched>>
    BY <2>8
  <2>9. QED
    BY <2>1, <2>2, <2>3, <2>4, <2>5, <2>6, <2>7, <2>8, RecordSteps DEF RecordChange
<1>2. QED
  BY <1>1, Invariance, PTL DEF Spec, EndedStaysEnded
--------------------------------------------------------------------------------
(* Refinement of TaskLedger.                                               *)

\* The abstract state.
phase == [t \in Task |-> LedgerPhase(t)]

\* How the abstract phases read off the records.
LEMMA Phases ==
  ASSUME TypeOK, NEW t \in Task
  PROVE  /\ Ledger!Open(t) <=> Active(t) /\ t \notin touched
         /\ phase[t] = "void" <=> t \in touched
         /\ phase[t] = "absent" <=> state[t] = "absent" /\ t \notin touched
         /\ phase[t] = "waiting" <=> state[t] = "queued" /\ t \notin touched
BY DEF TypeOK, phase, LedgerPhase, Active, Ledger!Open

\* The records of uncancelled tasks behave as TaskLedger promises.
THEOREM LedgerTheorem == Spec => KeepsLedger
<1>1. Init => Ledger!Init
  BY DEF Init, Ledger!Init, LedgerPhase
<1>2. ASSUME IInv, [Next]_vars PROVE [Ledger!Next]_<<phase, taskType>>
  <2> USE <1>1, <1>2 DEF IInv
  <2>1. ASSUME NEW t \in Task, MarkRunningCommit(t) PROVE [Ledger!Next]_<<phase, taskType>>
    <3>1. CASE t \in touched
      <4>1. phase' = phase /\ taskType' = taskType
        BY <2>1, <3>1 DEF MarkRunningCommit, phase, LedgerPhase, Active, TypeOK, history
      <4>2. QED
        BY <4>1
    <3>2. CASE t \notin touched
      <4>1. state[t] = "queued" /\ state' = [state EXCEPT ![t] = "running"]
        BY <2>1, <3>2 DEF MarkRunningCommit, OwnerInv, Flush
      <4>2. touched' = touched /\ taskType' = taskType
        BY <2>1 DEF MarkRunningCommit, history
      <4>3. Ledger!Start(t)
        BY <3>2, <4>1, <4>2 DEF Ledger!Start, LedgerPhase, Active, TypeOK
      <4>4. QED
        BY <4>3 DEF Ledger!Next
    <3>3. QED
      BY <3>1, <3>2
  <2>2. ASSUME NEW t \in Task, CloseCommit(t) PROVE [Ledger!Next]_<<phase, taskType>>
    <3>1. CASE t \in touched
      <4>1. phase' = phase /\ taskType' = taskType
        BY <2>2, <3>1 DEF CloseCommit, phase, LedgerPhase, Active, TypeOK, history
      <4>2. QED
        BY <4>1
    <3>2. CASE t \notin touched
      <4>1. Active(t) /\ state'[t] \in {"completed", "failed"}
        BY <2>2, <3>2 DEF CloseCommit, FinalState, Active, TypeOK, OwnerInv, Owned, Flush
      <4>2. Ledger!Finish(t)
        BY <2>2, <3>2, <4>1 DEF CloseCommit, Ledger!Finish, Ledger!Open, LedgerPhase, Active,
           TypeOK, history
      <4>3. QED
        BY <4>2 DEF Ledger!Next
    <3>3. QED
      BY <3>1, <3>2
  <2>3. ASSUME NEW p \in Client \cup {Coordinator}, SubmitCommit(p)
        PROVE  [Ledger!Next]_<<phase, taskType>>
    <3>1. PICK t \in NextFresh :
            /\ state' = [u \in Task |-> IF u = t THEN "queued"
                                        ELSE IF u = subOld THEN Flush(u, subRead, "failed")
                                        ELSE state[u]]
            /\ taskType' = [taskType EXCEPT ![t] = subType]
      BY <2>3 DEF SubmitCommit
    <3>2. t \in Task /\ state[t] = "absent" /\ t \notin touched /\ t # subOld /\ guard # Nobody
      BY <2>3, ConstantsOK DEF NextFresh, Fresh, AbsentInv, SubmitCommit, TypeOK
    <3>3. touched' = touched
      BY <2>3 DEF SubmitCommit
    <3>4. DEFINE old == IF subOld # NoTask /\ subOld \notin touched /\ Active(subOld)
                        THEN subOld ELSE t
    <3>5. old \in Task
      BY <3>2 DEF TypeOK
    <3>6. subType \in ExclusiveType /\ Ledger!Promised(subType) => Ledger!OpenOf(subType) \subseteq {old}
      <4>1. Ledger!Promised(subType) => Untouched(subType)
        BY DEF Ledger!Promised, Untouched, LedgerPhase, TypeOK
      <4>2. \A u \in Ledger!OpenOf(subType) : u \in ActiveOf(subType) /\ u \notin touched
        BY Phases DEF Ledger!OpenOf, ActiveOf
      <4>3. SUFFICES ASSUME subType \in ExclusiveType, Untouched(subType),
                            NEW u \in Ledger!OpenOf(subType)
                     PROVE  u = old
        BY <4>1
      <4>4. u = subOld
        BY <3>2, <4>2, <4>3 DEF SubmitInv
      <4>5. QED
        BY <4>2, <4>4, ConstantsOK DEF ActiveOf
    <3>7. phase' = [u \in Task |-> IF u = t THEN "waiting" ELSE IF u = old THEN "done" ELSE phase[u]]
      <4>1. CASE subOld # NoTask /\ subOld \notin touched /\ Active(subOld)
        <5>1. old = subOld /\ subRead # "failed"
          BY <3>2, <4>1 DEF SubmitInv
        <5>2. QED
          BY <3>1, <3>2, <3>3, <4>1, <5>1 DEF phase, LedgerPhase, Active, Flush
      <4>2. CASE ~(subOld # NoTask /\ subOld \notin touched /\ Active(subOld))
        <5>1. old = t
          BY <4>2
        <5>2. subOld \in Task \ touched => state[subOld] = "failed"
          BY <3>2, <4>2, ConstantsOK DEF SubmitInv, Active
        <5>3. \A u \in Task : LedgerPhase(u)' = IF u = t THEN "waiting" ELSE LedgerPhase(u)
          BY <3>1, <3>2, <3>3, <5>2 DEF LedgerPhase, Active, Flush, SubmitInv
        <5>4. QED
          BY <5>1, <5>3 DEF phase
      <4>3. QED
        BY <4>1, <4>2
    <3>8. Ledger!Add(t, subType, old)
      BY <3>1, <3>2, <3>5, <3>6, <3>7 DEF Ledger!Add, Ledger!Open, LedgerPhase, phase, SubmitInv,
         Active
    <3>9. QED
      BY <3>2, <3>5, <3>8 DEF Ledger!Next, TypeOK
  <2>4. ASSUME NEW c \in Client, CancelCommit(c) PROVE [Ledger!Next]_<<phase, taskType>>
    <3>1. phase' = phase /\ taskType' = taskType
      BY <2>4 DEF CancelCommit, CancelInv, phase, LedgerPhase, Active, TypeOK
    <3>2. QED
      BY <3>1
  <2>5. ASSUME NEW c \in Client, NEW t \in Task, CancelRead(c, t)
        PROVE  [Ledger!Next]_<<phase, taskType>>
    <3>1. Ledger!Void(t)
      BY <2>5 DEF CancelRead, Ledger!Void, LedgerPhase, Active, TypeOK, taskVars
    <3>2. QED
      BY <3>1 DEF Ledger!Next
  <2>6. CASE MarkOrphanedCommit
    <3>1. last \in Task /\ taskType' = taskType /\ touched' = touched
      BY <2>6 DEF MarkOrphanedCommit, CoordInv, TypeOK, RecurringUnchanged, history
    <3>2. CASE last \in touched \/ ~Active(last)
      <4>1. phase' = phase
        BY <2>6, <3>1, <3>2 DEF MarkOrphanedCommit, CoordInv, phase, LedgerPhase, Active, TypeOK,
           Flush
      <4>2. QED
        BY <3>1, <4>1
    <3>3. CASE last \notin touched /\ Active(last)
      <4>1. Ledger!Finish(last)
        BY <2>6, <3>1, <3>3 DEF MarkOrphanedCommit, CoordInv, Ledger!Finish, Ledger!Open,
           LedgerPhase, Active, TypeOK, Flush
      <4>2. QED
        BY <3>1, <4>1 DEF Ledger!Next
    <3>4. QED
      BY <3>2, <3>3
  <2>7. CASE Boot
    <3>1. Ledger!Restart
      BY <2>7 DEF Boot, Recovered, Ledger!Restart, Ledger!Open, LedgerPhase, Active, TypeOK
    <3>2. QED
      BY <3>1 DEF Ledger!Next
  <2>8. CASE UNCHANGED <<state, taskType, touched>>
    BY <2>8 DEF phase, LedgerPhase, Active
  <2>9. QED
    BY <2>1, <2>2, <2>3, <2>4, <2>5, <2>6, <2>7, <2>8, RecordSteps DEF RecordChange
<1>3. QED
  BY <1>1, <1>2, Invariance, PTL DEF Spec, KeepsLedger, Ledger!Spec, phase
================================================================================

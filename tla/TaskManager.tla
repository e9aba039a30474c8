------------------------------ MODULE TaskManager ------------------------------
(***************************************************************************)
(* The persisted task runner of the local web panel (web/tasks.py) with    *)
(* its callers: API request threads that submit and cancel tasks, one      *)
(* worker thread per task, and the recurring coordinator of the portal     *)
(* catalog import.                                                         *)
(*                                                                         *)
(* Every database session of the source reads a row with session.get, runs *)
(* Python, and writes the changed columns when the session commits.        *)
(* pysqlite opens the transaction only at that first write, so a session   *)
(* is two steps here, a read and a commit, and other threads may run in    *)
(* between.  The ORM writes a column only if its value differs from the    *)
(* one it read (operator Flush).                                           *)
(***************************************************************************)
EXTENDS Naturals, FiniteSets

CONSTANTS
  Task,             \* task identifiers, numbered in the order of creation
  Client,           \* threads serving API requests
  TaskType,         \* task types with a handler
  RestartableType,  \* RESTARTABLE_TASK_TYPES
  ExclusiveType,    \* types every caller submits with exclusive=True
  CancelSafeType,   \* types every caller submits with cancel_safe=True
  RecurringType,    \* the type of the recurring coordinator
  ApiType,          \* types API requests submit
  Coordinator,      \* the recurring coordinator as a holder of the guard
  Nobody, NoTask,   \* null values
  Reserved,         \* number of identifiers API requests leave to the coordinator
  MaxBacklog,       \* bound on catalog entries pending or not yet imported
  MaxFaults,        \* bound on exhausted database retries and handler errors
  MaxCancels,       \* bound on cancel requests
  MaxRestarts,      \* bound on crashes and shutdowns
  MaxDisturbances   \* bound on the three together

ASSUME ConstantsOK ==
  /\ RestartableType \subseteq TaskType
  /\ ExclusiveType \subseteq TaskType
  /\ CancelSafeType \subseteq TaskType
  /\ ApiType \subseteq TaskType
  /\ RecurringType \in RestartableType \cap ExclusiveType \cap CancelSafeType
  /\ Coordinator \notin Client
  /\ Nobody \notin Client \cup {Coordinator}
  /\ Task \subseteq Nat /\ NoTask \notin Task
  /\ Reserved \in Nat /\ MaxBacklog \in Nat /\ MaxFaults \in Nat
  /\ MaxCancels \in Nat /\ MaxRestarts \in Nat /\ MaxDisturbances \in Nat

VARIABLES
  proc,       \* the panel process: up, stopping (graceful shutdown) or down
  state,      \* web_tasks.state of each task, "absent" before it is inserted
  taskType,   \* web_tasks.task_type
  worker,     \* where the thread of a task stands in _execute, "none" without one
  seen,       \* the state the open session of that thread has read
  outcome,    \* how the handler ended, once it has
  guard,      \* holder of LocalTaskManager._guard during submit
  subType,    \* the task type of that submit
  subOld,     \* the active record that submit found, to be marked orphaned
  subRead,    \* the state it had when it was read
  client,     \* API threads: [at, task, read]
  coord,      \* where _run_recurring stands, "off" when its thread is not alive
  last,       \* last_task_id of _run_recurring
  coordRead,  \* the state _mark_orphaned has read
  pending,    \* catalog entries in state pending_validation
  upstream,   \* public manifest entries the catalog does not hold yet
  faults, cancels, restarts,  \* counters of the bounds above
  touched,    \* history: tasks a cancel request got past the checks of cancel()
  orphaned,   \* history: tasks a failed write or thread start left without a worker
  promised    \* history: worker position when a cancel "before start" committed

taskVars   == <<state, taskType>>
workerVars == <<worker, seen, outcome>>
guardVars  == <<guard, subType, subOld, subRead>>
coordVars  == <<coord, last, coordRead>>
catalog    == <<pending, upstream>>
bounds     == <<faults, cancels, restarts>>
history    == <<touched, orphaned, promised>>
vars == <<proc, taskVars, workerVars, guardVars, client, coordVars, catalog, bounds, history>>

--------------------------------------------------------------------------------
ActiveState   == {"queued", "running", "cancel_requested"}
TerminalState == {"completed", "cancelled", "failed"}
TaskState     == {"absent"} \cup ActiveState \cup TerminalState

\* Positions of a thread in _execute.  "ended": the handler returned or raised
\* and the final write is due; "exiting": the finally clause is due.
BusyAt   == {"starting", "handling", "ended", "closing"}
WorkerAt == {"none", "created", "exiting"} \cup BusyAt
Outcome  == {"none", "completed", "cancelled", "failed"}

CoordAt == {"off", "top", "probe", "orphan", "orphaning", "list", "count", "submit", "leaving"}
ClientAt == {"idle", "cancelling", "ensuring"}
Idle == [at |-> "idle", task |-> NoTask, read |-> "absent"]

Active(t) == state[t] \in ActiveState
\* thread is not None and thread.is_alive()
ThreadAlive(t) == worker[t] # "none"
Fresh == {t \in Task : state[t] = "absent"}
NextFresh == {t \in Fresh : \A u \in Fresh : t <= u}
ActiveOf(ty) == {t \in Task : Active(t) /\ taskType[t] = ty}
\* What the UPDATE of a commit leaves in the column.
Flush(t, read, new) == IF read = new THEN state[t] ELSE new
\* The session of thread t is over: what it read is out of scope.
CloseSession(t) == seen' = [seen EXCEPT ![t] = "absent"]
Undisturbed == faults + cancels + restarts < MaxDisturbances
SpendFault == faults < MaxFaults /\ Undisturbed /\ faults' = faults + 1 /\ UNCHANGED <<cancels, restarts>>

--------------------------------------------------------------------------------
(* _execute: the worker thread of task t.                                  *)

\* Mutant: mark_running does not look at the state it reads.
MarkRunningReadBlind(t) ==
  /\ worker[t] = "created"
  /\ worker' = [worker EXCEPT ![t] = "starting"]
  /\ seen' = [seen EXCEPT ![t] = state[t]]
  /\ UNCHANGED <<proc, taskVars, outcome, guardVars, client, coordVars, catalog, bounds, history>>

\* mark_running reads the record; a cancelled one ends the thread.
MarkRunningRead(t) ==
  /\ worker[t] = "created"
  /\ IF state[t] = "cancelled"
     THEN worker' = [worker EXCEPT ![t] = "exiting"] /\ UNCHANGED seen
     ELSE /\ worker' = [worker EXCEPT ![t] = "starting"]
          /\ seen' = [seen EXCEPT ![t] = state[t]]
  /\ UNCHANGED <<proc, taskVars, outcome, guardVars, client, coordVars, catalog, bounds, history>>

MarkRunningCommit(t) ==
  /\ worker[t] = "starting"
  /\ state' = [state EXCEPT ![t] = Flush(t, seen[t], "running")]
  /\ worker' = [worker EXCEPT ![t] = "handling"]
  /\ CloseSession(t)
  /\ UNCHANGED <<proc, taskType, outcome, guardVars, client, coordVars, catalog, bounds, history>>

\* Mutant: the except clause does not fail the task.
MarkRunningLockedSilent(t) ==
  /\ worker[t] = "starting"
  /\ SpendFault
  /\ worker' = [worker EXCEPT ![t] = "exiting"]
  /\ CloseSession(t)
  /\ UNCHANGED <<proc, taskVars, outcome, guardVars, client, coordVars, catalog, history>>

\* The retries of mark_running are exhausted: the except clause fails the task.
MarkRunningLocked(t) ==
  /\ worker[t] = "starting"
  /\ SpendFault
  /\ worker' = [worker EXCEPT ![t] = "ended"]
  /\ outcome' = [outcome EXCEPT ![t] = "failed"]
  /\ CloseSession(t)
  /\ UNCHANGED <<proc, taskVars, guardVars, client, coordVars, catalog, history>>

EndHandler(t, how) ==
  /\ worker[t] = "handling"
  /\ worker' = [worker EXCEPT ![t] = "ended"]
  /\ outcome' = [outcome EXCEPT ![t] = how]
  /\ UNCHANGED <<proc, taskVars, seen, guardVars, client, coordVars, history>>

\* Mutant: a batch counts an entry as settled when none is waiting.
ImportBatchUnderflow ==
  \E merged \in {0, upstream} :
    /\ upstream' = upstream - merged
    /\ pending' = pending + merged - 1

\* An import merges the upstream manifests (unless no source answers), settles
\* part of the pending entries and saves the catalog.
ImportBatch ==
  \E merged \in {0, upstream} :
    LET waiting == pending + merged IN
    /\ upstream' = upstream - merged
    /\ IF waiting = 0 THEN pending' = 0 ELSE pending' \in 0 .. waiting - 1

HandlerReturns(t) ==
  /\ EndHandler(t, "completed")
  /\ IF taskType[t] = RecurringType THEN ImportBatch ELSE UNCHANGED catalog
  /\ UNCHANGED bounds

HandlerRaises(t) ==
  /\ EndHandler(t, "failed")
  /\ SpendFault
  /\ UNCHANGED catalog

\* TaskContext.progress finds the cancel request and raises TaskCancelled.
CheckpointCancels(t) ==
  /\ state[t] = "cancel_requested"
  /\ EndHandler(t, "cancelled")
  /\ UNCHANGED <<catalog, bounds>>

\* mark_completed, mark_cancelled or mark_failed reads the record.
CloseRead(t) ==
  /\ worker[t] = "ended"
  /\ seen' = [seen EXCEPT ![t] = state[t]]
  /\ worker' = [worker EXCEPT ![t] = "closing"]
  /\ UNCHANGED <<proc, taskVars, outcome, guardVars, client, coordVars, catalog, bounds, history>>

FinalState(t) ==
  IF outcome[t] = "completed" /\ seen[t] = "cancel_requested" THEN "cancelled" ELSE outcome[t]

CloseCommit(t) ==
  /\ worker[t] = "closing"
  /\ state' = [state EXCEPT ![t] = Flush(t, seen[t], FinalState(t))]
  /\ worker' = [worker EXCEPT ![t] = "exiting"]
  /\ CloseSession(t)
  /\ outcome' = [outcome EXCEPT ![t] = "none"]
  /\ UNCHANGED <<proc, taskType, guardVars, client, coordVars, catalog, bounds, history>>

\* The retries of the final write are exhausted.  A completed task is then
\* failed; a write of "failed" or "cancelled" is given up.
CloseLocked(t) ==
  /\ worker[t] = "closing"
  /\ SpendFault
  /\ \/ /\ outcome[t] = "completed"
        /\ outcome' = [outcome EXCEPT ![t] = "failed"]
        /\ worker' = [worker EXCEPT ![t] = "ended"]
        /\ UNCHANGED orphaned
     \/ /\ outcome[t] # "completed"
        /\ worker' = [worker EXCEPT ![t] = "exiting"]
        /\ orphaned' = orphaned \cup {t}
        /\ outcome' = [outcome EXCEPT ![t] = "none"]
  /\ CloseSession(t)
  /\ UNCHANGED <<proc, taskVars, guardVars, client, coordVars, catalog, touched, promised>>

\* finally: self._threads.pop under the guard.
PopThread(t) ==
  /\ worker[t] = "exiting"
  /\ guard = Nobody
  /\ worker' = [worker EXCEPT ![t] = "none"]
  /\ UNCHANGED <<proc, taskVars, seen, outcome, guardVars, client, coordVars, catalog, bounds, history>>

--------------------------------------------------------------------------------
(* submit, by an API thread or by the coordinator (both as p).             *)

ReleaseGuard ==
  /\ guard' = Nobody
  /\ subType' = RecurringType /\ subOld' = NoTask /\ subRead' = "absent"

TakeGuard(p, ty, old) ==
  /\ guard = Nobody
  /\ Fresh # {}
  /\ guard' = p
  /\ subType' = ty
  /\ subOld' = old
  /\ subRead' = IF old = NoTask THEN "absent" ELSE state[old]
  /\ UNCHANGED <<proc, taskVars, workerVars, client, catalog, bounds, history>>

\* Mutant: submit forgets the exclusive query.
SubmitReadShared(p, ty) == ty \in TaskType /\ TakeGuard(p, ty, NoTask)

\* The exclusive query returns any one of the active records of the type.
SubmitRead(p, ty) ==
  \/ /\ ty \notin ExclusiveType \/ ActiveOf(ty) = {}
     /\ TakeGuard(p, ty, NoTask)
  \/ /\ ty \in ExclusiveType
     /\ \E t \in ActiveOf(ty) : ~ThreadAlive(t) /\ TakeGuard(p, ty, t)

\* Where the caller goes on after submit: the import endpoint calls
\* ensure_automatic_catalog_import, the coordinator keeps the id.
AfterSubmit(p, newLast, next) ==
  /\ IF p = Coordinator
     THEN /\ coord' = "top" /\ last' = newLast /\ UNCHANGED <<client, coordRead>>
     ELSE /\ client' = [client EXCEPT ![p].at = next]
          /\ UNCHANGED coordVars
  /\ ReleaseGuard

\* Insert the record, fail the orphan it replaces, start the thread.  The
\* caller may miss the identifier when the read of self.get fails.
SubmitCommit(p) ==
  /\ guard = p
  /\ \E t \in NextFresh :
       /\ state' = [u \in Task |-> IF u = t THEN "queued"
                                   ELSE IF u = subOld THEN Flush(u, subRead, "failed")
                                   ELSE state[u]]
       /\ taskType' = [taskType EXCEPT ![t] = subType]
       /\ \/ /\ worker' = [worker EXCEPT ![t] = "created"]
             /\ AfterSubmit(p, t, IF subType = RecurringType THEN "ensuring" ELSE "idle")
             /\ UNCHANGED <<bounds, orphaned>>
          \/ /\ worker' = [worker EXCEPT ![t] = "created"]
             /\ AfterSubmit(p, NoTask, "idle")
             /\ SpendFault
             /\ UNCHANGED orphaned
          \/ /\ UNCHANGED worker  \* thread.start() raises
             /\ AfterSubmit(p, NoTask, "idle")
             /\ SpendFault
             /\ orphaned' = orphaned \cup {t}
  /\ UNCHANGED <<proc, seen, outcome, catalog, touched, promised>>

\* The transaction of submit fails and is rolled back.
SubmitLocked(p) ==
  /\ guard = p
  /\ SpendFault
  /\ AfterSubmit(p, NoTask, "idle")
  /\ UNCHANGED <<proc, taskVars, workerVars, catalog, history>>

--------------------------------------------------------------------------------
(* API requests.                                                           *)

ClientSubmit(c, ty) ==
  /\ proc = "up"
  /\ client[c].at = "idle"
  /\ Cardinality(Fresh) > Reserved
  /\ SubmitRead(c, ty)
  /\ UNCHANGED coordVars

\* Mutant: cancel() ignores cancel_safe.
CancelReadUnsafe(c, t) ==
  /\ proc = "up"
  /\ client[c].at = "idle" /\ guard # c
  /\ cancels < MaxCancels /\ Undisturbed
  /\ Active(t)
  /\ client' = [client EXCEPT ![c] = [at |-> "cancelling", task |-> t, read |-> state[t]]]
  /\ touched' = touched \cup {t}
  /\ cancels' = cancels + 1
  /\ UNCHANGED <<proc, taskVars, workerVars, guardVars, coordVars, catalog, faults, restarts,
                 orphaned, promised>>

\* cancel() reads the record and passes its checks.
CancelRead(c, t) ==
  /\ proc = "up"
  /\ client[c].at = "idle" /\ guard # c
  /\ cancels < MaxCancels /\ Undisturbed
  /\ Active(t)
  /\ state[t] # "queued" => taskType[t] \in CancelSafeType
  /\ client' = [client EXCEPT ![c] = [at |-> "cancelling", task |-> t, read |-> state[t]]]
  /\ touched' = touched \cup {t}
  /\ cancels' = cancels + 1
  /\ UNCHANGED <<proc, taskVars, workerVars, guardVars, coordVars, catalog, faults, restarts,
                 orphaned, promised>>

CancelCommit(c) ==
  /\ client[c].at = "cancelling"
  /\ LET t == client[c].task
         new == IF client[c].read = "queued" THEN "cancelled" ELSE "cancel_requested" IN
     /\ state' = [state EXCEPT ![t] = Flush(t, client[c].read, new)]
     /\ promised' = IF new = "cancelled" /\ promised[t] = "none"
                    THEN [promised EXCEPT ![t] = worker[t]] ELSE promised
  /\ client' = [client EXCEPT ![c] = Idle]
  /\ UNCHANGED <<proc, taskType, workerVars, guardVars, coordVars, catalog, bounds, touched,
                 orphaned>>

\* cancel() does not retry: a locked database aborts it.
CancelLocked(c) ==
  /\ client[c].at = "cancelling"
  /\ SpendFault
  /\ client' = [client EXCEPT ![c] = Idle]
  /\ UNCHANGED <<proc, taskVars, workerVars, guardVars, coordVars, catalog, history>>

\* start_recurring_until_complete: a coordinator whose thread is alive is kept.
EnsureRecurring(c) ==
  /\ client[c].at = "ensuring"
  /\ guard = Nobody
  /\ client' = [client EXCEPT ![c] = Idle]
  /\ IF coord = "off" THEN coord' = "top" /\ last' = NoTask ELSE UNCHANGED <<coord, last>>
  /\ UNCHANGED <<proc, taskVars, workerVars, guardVars, coordRead, catalog, bounds, history>>

--------------------------------------------------------------------------------
(* _run_recurring: the coordinator of the catalog import.                  *)

RecurringUnchanged == UNCHANGED <<proc, workerVars, guardVars, client, catalog, history>>

RecurringStops ==
  /\ coord = "top" /\ proc = "stopping"
  /\ coord' = "off"
  /\ UNCHANGED <<taskVars, last, coordRead, bounds>>
  /\ RecurringUnchanged

\* Reads the previous batch, when it submitted one.
RecurringPrevious ==
  /\ coord = "top" /\ proc = "up"
  /\ IF last # NoTask /\ Active(last)
     THEN coord' = "probe" /\ UNCHANGED last
     ELSE coord' = "list" /\ last' = NoTask
  /\ UNCHANGED <<taskVars, coordRead, bounds>>
  /\ RecurringUnchanged

\* Mutant: the coordinator takes an active record for an orphan.
RecurringProbeHasty ==
  /\ coord = "probe" /\ guard = Nobody
  /\ coord' = "orphan"
  /\ UNCHANGED <<taskVars, last, coordRead, bounds>>
  /\ RecurringUnchanged

\* _task_thread_alive, under the guard.
RecurringProbe ==
  /\ coord = "probe" /\ guard = Nobody
  /\ coord' = IF ThreadAlive(last) THEN "top" ELSE "orphan"
  /\ UNCHANGED <<taskVars, last, coordRead, bounds>>
  /\ RecurringUnchanged

\* Mutant: _mark_orphaned trusts the caller's older read.
MarkOrphanedReadTrusting ==
  /\ coord = "orphan"
  /\ coord' = "orphaning" /\ coordRead' = state[last]
  /\ UNCHANGED <<taskVars, last, bounds>>
  /\ RecurringUnchanged

\* _mark_orphaned reads the record again and leaves an ended one alone.
MarkOrphanedRead ==
  /\ coord = "orphan"
  /\ IF Active(last)
     THEN coord' = "orphaning" /\ coordRead' = state[last] /\ UNCHANGED last
     ELSE coord' = "list" /\ last' = NoTask /\ UNCHANGED coordRead
  /\ UNCHANGED <<taskVars, bounds>>
  /\ RecurringUnchanged

MarkOrphanedCommit ==
  /\ coord = "orphaning"
  /\ state' = [state EXCEPT ![last] = Flush(last, coordRead, "failed")]
  /\ coord' = "list" /\ last' = NoTask /\ coordRead' = "absent"
  /\ UNCHANGED <<taskType, bounds>>
  /\ RecurringUnchanged

MarkOrphanedLocked ==
  /\ coord = "orphaning"
  /\ SpendFault
  /\ coord' = "top" /\ coordRead' = "absent"
  /\ UNCHANGED <<taskVars, last>>
  /\ RecurringUnchanged

\* Mutant: should_continue does not look for active imports.
ContinueActiveBlind ==
  /\ coord = "list"
  /\ coord' = "count"
  /\ UNCHANGED <<taskVars, last, coordRead, bounds>>
  /\ RecurringUnchanged

\* should_continue: first the active imports, then the pending entries.
ContinueActive ==
  /\ coord = "list"
  /\ coord' = IF ActiveOf(RecurringType) # {} THEN "submit" ELSE "count"
  /\ UNCHANGED <<taskVars, last, coordRead, bounds>>
  /\ RecurringUnchanged

\* Mutant: off by one on the last pending entry.
ContinuePendingOffByOne ==
  /\ coord = "count"
  /\ coord' = IF pending > 1 THEN "submit" ELSE "leaving"
  /\ UNCHANGED <<taskVars, last, coordRead, bounds>>
  /\ RecurringUnchanged

ContinuePending ==
  /\ coord = "count"
  /\ coord' = IF pending > 0 THEN "submit" ELSE "leaving"
  /\ UNCHANGED <<taskVars, last, coordRead, bounds>>
  /\ RecurringUnchanged

RecurringSubmit ==
  /\ coord = "submit"
  /\ SubmitRead(Coordinator, RecurringType)
  /\ UNCHANGED coordVars

\* TaskConflictError: wait for the active import.
RecurringConflict ==
  /\ coord = "submit" /\ guard = Nobody
  /\ \E t \in ActiveOf(RecurringType) : ThreadAlive(t)
  /\ coord' = "top"
  /\ UNCHANGED <<taskVars, last, coordRead, bounds>>
  /\ RecurringUnchanged

\* The state is "completed"; the thread is alive until it has returned.
RecurringReturns ==
  /\ coord = "leaving"
  /\ coord' = "off"
  /\ UNCHANGED <<taskVars, last, coordRead, bounds>>
  /\ RecurringUnchanged

--------------------------------------------------------------------------------
(* The process.  Import threads are not daemons: shutdown waits for them.  *)

ThreadsVanish ==
  /\ proc' = "down"
  /\ worker' = [t \in Task |-> "none"]
  /\ seen' = [t \in Task |-> "absent"]
  /\ outcome' = [t \in Task |-> "none"]
  /\ ReleaseGuard
  /\ client' = [c \in Client |-> Idle]
  /\ coord' = "off" /\ last' = NoTask /\ coordRead' = "absent"
  /\ UNCHANGED <<taskVars, catalog, history>>

\* The server stops once its requests are answered, and calls shutdown().
Shutdown ==
  /\ proc = "up" /\ restarts < MaxRestarts /\ Undisturbed
  /\ guard \notin Client /\ \A c \in Client : client[c].at = "idle"
  /\ proc' = "stopping"
  /\ restarts' = restarts + 1
  /\ UNCHANGED <<taskVars, workerVars, guardVars, client, coordVars, catalog, faults, cancels,
                 history>>

Exit ==
  /\ proc = "stopping"
  /\ guard = Nobody
  /\ \A t \in Task : ThreadAlive(t) => taskType[t] \notin RestartableType
  /\ ThreadsVanish
  /\ UNCHANGED bounds

Crash ==
  /\ proc # "down" /\ restarts < MaxRestarts /\ Undisturbed
  /\ restarts' = restarts + 1
  /\ ThreadsVanish
  /\ UNCHANGED <<faults, cancels>>

\* Mutant: every interrupted task is requeued.
RecoveredAll(t) == IF Active(t) THEN "queued" ELSE state[t]

\* What recover_interrupted makes of a record.
Recovered(t) ==
  IF ~Active(t) THEN state[t]
  ELSE IF taskType[t] \in RestartableType THEN "queued" ELSE "failed"

\* recover_interrupted requeues and restarts the durable tasks and fails the
\* others; then create_app starts the coordinator.
Boot ==
  /\ proc = "down"
  /\ proc' = "up"
  /\ state' = [t \in Task |-> Recovered(t)]
  /\ worker' = [t \in Task |-> IF Recovered(t) \in ActiveState THEN "created" ELSE "none"]
  /\ coord' = "top" /\ last' = NoTask
  /\ orphaned' = {}
  /\ UNCHANGED <<taskType, seen, outcome, guardVars, client, coordRead, catalog, bounds, touched,
                 promised>>

--------------------------------------------------------------------------------
Init ==
  /\ proc = "up"
  /\ state = [t \in Task |-> "absent"]
  /\ taskType = [t \in Task |-> RecurringType]
  /\ worker = [t \in Task |-> "none"]
  /\ seen = [t \in Task |-> "absent"]
  /\ outcome = [t \in Task |-> "none"]
  /\ guard = Nobody /\ subType = RecurringType /\ subOld = NoTask /\ subRead = "absent"
  /\ client = [c \in Client |-> Idle]
  /\ coord = "top" /\ last = NoTask /\ coordRead = "absent"
  /\ pending \in 0 .. MaxBacklog /\ upstream \in 0 .. MaxBacklog - pending
  /\ faults = 0 /\ cancels = 0 /\ restarts = 0
  /\ touched = {} /\ orphaned = {}
  /\ promised = [t \in Task |-> "none"]

HandlerEnds(t) == HandlerReturns(t) \/ HandlerRaises(t) \/ CheckpointCancels(t)

Execute(t) ==
  \/ MarkRunningRead(t) \/ MarkRunningCommit(t) \/ MarkRunningLocked(t)
  \/ HandlerEnds(t)
  \/ CloseRead(t) \/ CloseCommit(t) \/ CloseLocked(t) \/ PopThread(t)

Request(c) ==
  \/ \E ty \in ApiType : ClientSubmit(c, ty)
  \/ SubmitCommit(c) \/ SubmitLocked(c)
  \/ \E t \in Task : CancelRead(c, t)
  \/ CancelCommit(c) \/ CancelLocked(c) \/ EnsureRecurring(c)

Recurring ==
  \/ RecurringStops \/ RecurringPrevious \/ RecurringProbe
  \/ MarkOrphanedRead \/ MarkOrphanedCommit \/ MarkOrphanedLocked
  \/ ContinueActive \/ ContinuePending \/ RecurringConflict \/ RecurringReturns
  \/ RecurringSubmit \/ SubmitCommit(Coordinator) \/ SubmitLocked(Coordinator)

Process == Shutdown \/ Exit \/ Crash \/ Boot

Next ==
  \/ \E t \in Task : Execute(t)
  \/ \E c \in Client : Request(c)
  \/ Recurring
  \/ Process

Spec == Init /\ [][Next]_vars

(***************************************************************************)
(* Handlers end, and a thread that can take a step takes it: the scheduler *)
(* of the operating system is fair, network calls have timeouts.  Compose  *)
(* restarts the panel (restart: unless-stopped).  Nothing makes a user     *)
(* send a request, and nothing makes a fault or a crash happen.            *)
(***************************************************************************)
Fairness ==
  /\ \A t \in Task :
       /\ WF_vars(MarkRunningRead(t)) /\ WF_vars(MarkRunningCommit(t))
       /\ WF_vars(HandlerEnds(t))
       /\ WF_vars(CloseRead(t)) /\ WF_vars(CloseCommit(t)) /\ WF_vars(PopThread(t))
  /\ \A c \in Client :
       WF_vars(SubmitCommit(c)) /\ WF_vars(CancelCommit(c)) /\ WF_vars(EnsureRecurring(c))
  /\ WF_vars(Recurring)
  /\ WF_vars(Exit) /\ WF_vars(Boot)

FairSpec == Spec /\ Fairness

--------------------------------------------------------------------------------
(* Properties.                                                             *)

TypeOK ==
  /\ proc \in {"up", "stopping", "down"}
  /\ state \in [Task -> TaskState]
  /\ taskType \in [Task -> TaskType]
  /\ worker \in [Task -> WorkerAt]
  /\ seen \in [Task -> TaskState]
  /\ outcome \in [Task -> Outcome]
  /\ guard \in Client \cup {Coordinator, Nobody}
  /\ subType \in TaskType /\ subOld \in Task \cup {NoTask} /\ subRead \in TaskState
  /\ client \in [Client -> [at : ClientAt, task : Task \cup {NoTask}, read : TaskState]]
  /\ coord \in CoordAt /\ last \in Task \cup {NoTask} /\ coordRead \in TaskState
  /\ pending \in Nat /\ upstream \in Nat
  /\ faults \in 0 .. MaxFaults /\ cancels \in 0 .. MaxCancels /\ restarts \in 0 .. MaxRestarts
  /\ touched \subseteq Task /\ orphaned \subseteq Task
  /\ promised \in [Task -> WorkerAt]

Busy(t) == worker[t] \in BusyAt
Owned(t) == worker[t] \in {"created"} \cup BusyAt
Untouched(ty) == \A t \in touched : taskType[t] # ty

\* Only a cancel request can break the exclusivity of a task type: without one
\* two of its handlers never overlap, through database faults, failed thread
\* starts, crashes, restarts and the coordinator racing the API.
ExclusiveUnlessCancelled ==
  \A ty \in ExclusiveType : Untouched(ty) =>
    \A t, u \in Task :
      taskType[t] = ty /\ taskType[u] = ty /\ Busy(t) /\ Busy(u) => t = u

\* The record tells the truth about the thread: while the panel is up a task no
\* cancel has touched is active exactly as long as a thread will settle it,
\* unless an exhausted retry or a failed thread start has orphaned it.
ActiveMeansOwned ==
  proc # "down" =>
    \A t \in Task \ (touched \cup orphaned) : Active(t) <=> Owned(t)

\* A task is given up as orphaned only when its thread is gone: neither submit
\* nor the coordinator fails a record some thread still works on.
OnlyDeadTasksReclaimed ==
  [][\A t \in Task :
       Active(t) /\ state'[t] = "failed" => worker[t] \in {"none", "closing"}]_vars

\* An ended task stays as it ended, whatever late read-then-write sessions do,
\* unless a cancel raced it.
EndedStaysEnded ==
  [][\A t \in Task \ touched :
       state[t] \in TerminalState => state'[t] = state[t]]_vars

\* A scan or a document generation is never interrupted at a checkpoint, also
\* when the cancel request was decided on an old read of its state.
UnsafeNeverInterrupted ==
  \A t \in Task :
    taskType[t] \notin CancelSafeType =>
      state[t] # "cancel_requested" /\ ~(Busy(t) /\ outcome[t] = "cancelled")

\* A cancel "before start" that commits while the thread has not read the record
\* is final: the handler of that task never runs, not even after a restart.
CancelledInTimeNeverRuns ==
  \A t \in Task : promised[t] = "created" => ~Busy(t)

\* "executa um unico lote por vez": one catalog import at a time (violated).
OneBatchAtATime ==
  \A t, u \in Task :
    taskType[t] = RecurringType /\ taskType[u] = RecurringType
      /\ worker[t] = "handling" /\ worker[u] = "handling" => t = u

\* The automatic queue is served: pending entries are worked off.
BacklogDrains == pending > 0 ~> pending = 0

\* An import that is queued or running is settled in the end, by its thread or,
\* when an exhausted retry or a failed start has orphaned it, by the coordinator.
ImportsSettle ==
  \A t \in Task :
    Active(t) /\ taskType[t] = RecurringType ~> ~Active(t) \/ t \in touched

--------------------------------------------------------------------------------
(* Refinement: the records of uncancelled tasks behave like TaskLedger.    *)

LedgerPhase(t) ==
  IF t \in touched THEN "void"
  ELSE IF state[t] = "absent" THEN "absent"
  ELSE IF state[t] = "queued" THEN "waiting"
  ELSE IF Active(t) THEN "working" ELSE "done"

Ledger == INSTANCE TaskLedger WITH
            phase <- [t \in Task |-> LedgerPhase(t)], kind <- taskType,
            DefaultType <- RecurringType

\* The panel keeps the promise of TaskLedger: queued, then running, then ended
\* once and for all, and one open task per exclusive type, also when sessions
\* of the worker, submit and the coordinator interleave, fail or are cut off.
KeepsLedger == Ledger!Spec

================================================================================

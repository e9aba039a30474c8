------------------------------ MODULE PanelThreads ------------------------------
(***************************************************************************)
(* The threads of the panel process: requests of the API, tasks, and the   *)
(* research bridge.  A thread is idle or somewhere in one call; a call is  *)
(* a record with the operation (op), the next thing it does (at), and what *)
(* it has read so far.  The modules that extend this one say what calls do *)
(* to their part of the state; Panel puts them together.                   *)
(*                                                                         *)
(* A session of the database is a read outside of any transaction and a    *)
(* later commit, as in TaskManager: whatever others commit in between goes *)
(* unnoticed.                                                              *)
(***************************************************************************)
EXTENDS Naturals, FiniteSets

CONSTANTS
  Thread,    \* threads of the panel
  Workload   \* bounds: the parts of the panel a history calls on, and how many calls

ASSUME ThreadsFinite == IsFiniteSet(Thread)
ASSUME WorkloadOK == \A w \in Workload : w.calls \in Nat

VARIABLES
  work,      \* the workload of this history
  call,      \* the call each thread is in
  served     \* number of calls begun

threads == <<work, call, served>>

Idle == [op |-> "none", at |-> "idle"]
ThreadsInit == work \in Workload /\ call = [t \in Thread |-> Idle] /\ served = 0

In(t, op, at) == call[t].op = op /\ call[t].at = at

Begin(t, c) ==
  /\ call[t] = Idle /\ served < work.calls
  /\ served' = served + 1 /\ UNCHANGED work
  /\ call' = [call EXCEPT ![t] = c]

Become(t, c) == call' = [call EXCEPT ![t] = c] /\ UNCHANGED <<work, served>>
Goto(t, at) == Become(t, [call[t] EXCEPT !.at = at])

\* The call returns or raises: either way its session and its locks are gone.
End(t) == Become(t, Idle)
================================================================================

------------------------------- MODULE ScanLock -------------------------------
(***************************************************************************)
(* The lock file state/scan.lock (scheduler.py) and the processes that     *)
(* scan under it: panel and CLI scan themselves (operations.execute_scan), *)
(* the scheduler holds the lock while a child process scans.               *)
(*                                                                         *)
(* The file is a path: O_EXCL creates it empty, the payload follows, and   *)
(* unlink removes whatever is there by then.  Every file system call is a  *)
(* step.  Time advances in Tick; it is measured by the age of the file.    *)
(***************************************************************************)
EXTENDS Naturals, FiniteSets

CONSTANTS
  Proc,        \* processes that scan
  Scheduler,   \* the one that scans in a child process
  Host,        \* hostname of each process (a container has its own)
  Nobody, NoFile,
  Beat,        \* LOCK_HEARTBEAT_SECONDS, in ticks
  Lease,       \* LOCK_LEASE_SECONDS
  Stale,       \* stale_seconds
  Retries,     \* retries of the scan child
  MaxCrashes,  \* bound on crashes
  MaxPauses,   \* bound on suspensions
  MaxErrors,   \* bound on calls of the file system that fail
  MaxFaults    \* bound on all three together

ASSUME ConstantsOK ==
  /\ Scheduler \in Proc /\ Nobody \notin Proc
  /\ DOMAIN Host = Proc
  /\ {Beat, Lease, Stale, Retries, MaxCrashes, MaxPauses, MaxErrors, MaxFaults} \subseteq Nat
  /\ 0 < Beat /\ Beat < Lease /\ Lease <= Stale
  /\ NoFile \notin [by : Proc \cup {Nobody}, written : BOOLEAN, dead : BOOLEAN, age : Nat]

VARIABLES
  pc,        \* where each process stands in acquire, its scan or release
  attempt,   \* loop variable of acquire
  age,       \* the age acquire has computed
  beat,      \* the heartbeat thread: off, on, or about to touch
  paused,    \* processes that are suspended
  file,      \* the lock file: creator, payload written, creator dead, age
  child,     \* the child of the scheduler runs
  launches,  \* children launched under this lock
  orphan,    \* a child has outlived its scheduler
  crashes, pauses, errors,
  lapsed,    \* history: owners that have been suspended, or whose heartbeat an
             \* error has ended
  replaced,  \* history: contenders whose file has gone since they looked
  raced,     \* history: an unlink has removed another file than the one judged
  expired    \* history: a living owner has been judged inactive

history == <<replaced, raced, expired>>
lock == <<file, history>>
scan == <<child, launches, orphan>>
faults == <<crashes, pauses, errors, lapsed>>
vars == <<pc, attempt, age, beat, paused, lock, scan, faults>>

At == {"idle", "create", "stat", "judge", "unlink", "write", "holding", "releasing", "removing"}
Owning == {"write", "holding", "releasing", "removing"}

Running(p) == p \notin paused
Goto(p, at) == pc' = [pc EXCEPT ![p] = at]
Mine(p) == file # NoFile /\ file.by = p /\ file.written /\ ~file.dead
\* The path names another file from now on, or none.
Replace(f) == file' = f /\ replaced' = {p \in Proc : pc[p] \in {"judge", "unlink"}}
\* The file of a process that lives and has yet to release it, or of no such one.
Owned == file # NoFile /\ file.by # Nobody /\ ~file.dead /\ pc[file.by] \in Owning
Abandoned == file # NoFile /\ ~Owned
MayFault == crashes + pauses + errors < MaxFaults
MayFail(p) == Running(p) /\ errors < MaxErrors /\ MayFault
\* p has nothing more to do with the lock.
Retire(p) == Goto(p, "idle") /\ lapsed' = lapsed \ {p}
NewFile(by) == [by |-> by, written |-> FALSE, dead |-> FALSE, age |-> 0]

--------------------------------------------------------------------------------
(* acquire                                                                 *)

Request(p) ==
  /\ pc[p] = "idle" /\ Running(p)
  /\ Goto(p, "create") /\ attempt' = [attempt EXCEPT ![p] = 0]
  /\ UNCHANGED <<age, beat, paused, lock, scan, faults>>

\* os.open with O_CREAT | O_EXCL
Create(p) ==
  /\ pc[p] = "create" /\ Running(p)
  /\ IF file = NoFile
     THEN Goto(p, "write") /\ Replace(NewFile(p))
     ELSE Goto(p, "stat") /\ UNCHANGED <<file, replaced>>
  /\ UNCHANGED <<attempt, age, beat, paused, raced, expired, scan, faults>>

\* Age of the existing file; the third attempt gives up.
Stat(p) ==
  /\ pc[p] = "stat" /\ Running(p)
  /\ IF attempt[p] < 2
     THEN Goto(p, "judge") /\ age' = [age EXCEPT ![p] = IF file = NoFile THEN 0 ELSE file.age]
     ELSE Goto(p, "idle") /\ UNCHANGED age
  /\ replaced' = replaced \ {p}
  /\ UNCHANGED <<attempt, beat, paused, file, raced, expired, scan, faults>>

\* Its pid runs on this host, and started no later than the file.
ProcessLives == ~file.dead

\* Mutant: a file without a payload counts forever.
OwnerActiveForever(p) ==
  IF file = NoFile \/ ~file.written THEN TRUE
  ELSE IF Host[file.by] # Host[p] THEN age[p] <= Lease
  ELSE ProcessLives

\* Mutant: a file without a payload is taken for abandoned.
OwnerActiveEager(p) ==
  IF file = NoFile \/ ~file.written THEN FALSE
  ELSE IF Host[file.by] # Host[p] THEN age[p] <= Lease
  ELSE ProcessLives

\* _existing_owner_is_active: an unreadable payload counts until it is stale,
\* another host until its lease ends, a process of this host while it lives.
OwnerActive(p) ==
  IF file = NoFile \/ ~file.written THEN age[p] <= Stale
  ELSE IF Host[file.by] # Host[p] THEN age[p] <= Lease
  ELSE ProcessLives

Decide(p, active) ==
  /\ pc[p] = "judge"
  /\ Goto(p, IF active THEN "idle" ELSE "unlink")
  /\ expired' = (expired \/ (~active /\ p \notin replaced /\ Owned))
  /\ age' = [age EXCEPT ![p] = 0]
  /\ UNCHANGED <<attempt, beat, paused, file, replaced, raced, scan>>

Judge(p) == Running(p) /\ Decide(p, OwnerActive(p)) /\ UNCHANGED faults

Unlink(p) ==
  /\ pc[p] = "unlink" /\ Running(p)
  /\ raced' = (raced \/ (file # NoFile /\ p \in replaced))
  /\ IF file = NoFile THEN UNCHANGED file /\ replaced' = replaced \ {p}
     ELSE file' = NoFile /\ replaced' = {q \in Proc \ {p} : pc[q] \in {"judge", "unlink"}}
  /\ attempt' = [attempt EXCEPT ![p] = @ + 1]
  /\ Goto(p, "create")
  /\ UNCHANGED <<age, beat, paused, expired, scan, faults>>

\* The payload goes to the file that was created, if the path still names it.
Write(p) ==
  /\ pc[p] = "write" /\ Running(p)
  /\ file' = IF file # NoFile /\ file.by = p /\ ~file.dead
             THEN [file EXCEPT !.written = TRUE, !.age = 0] ELSE file
  /\ Goto(p, "holding")
  /\ beat' = [beat EXCEPT ![p] = "on"]
  /\ UNCHANGED <<attempt, age, paused, history, scan, faults>>

--------------------------------------------------------------------------------
(* The heartbeat thread of an owner.                                       *)

\* It ends for good when the payload is not (or not yet, or no longer) its own.
BeatRead(p) ==
  /\ beat[p] = "on" /\ Running(p)
  /\ pc[p] = "holding"
  /\ file # NoFile => file.age >= Beat
  /\ beat' = [beat EXCEPT ![p] = IF Mine(p) THEN "touching" ELSE "off"]
  /\ UNCHANGED <<pc, attempt, age, paused, lock, scan, faults>>

\* An error of the read or of the touch ends it too, and the owner goes on.
BeatFails(p) ==
  /\ beat[p] # "off" /\ pc[p] = "holding" /\ MayFail(p)
  /\ beat' = [beat EXCEPT ![p] = "off"]
  /\ errors' = errors + 1 /\ lapsed' = lapsed \cup {p}
  /\ UNCHANGED <<pc, attempt, age, paused, lock, scan, crashes, pauses>>

\* Path.touch refreshes whatever file is there, or creates an empty one.
BeatTouch(p) ==
  /\ beat[p] = "touching" /\ Running(p)
  /\ beat' = [beat EXCEPT ![p] = "on"]
  /\ IF file = NoFile THEN Replace(NewFile(Nobody))
                      ELSE file' = [file EXCEPT !.age = 0] /\ UNCHANGED replaced
  /\ UNCHANGED <<pc, attempt, age, paused, raced, expired, scan, faults>>

--------------------------------------------------------------------------------
(* The scan under the lock.                                                *)

\* execute_scan of the panel or the CLI returns or raises: release either way.
ScanEnds(p) ==
  /\ pc[p] = "holding" /\ Running(p)
  /\ p # Scheduler
  /\ beat[p] # "touching"
  /\ Goto(p, "releasing") /\ beat' = [beat EXCEPT ![p] = "off"]
  /\ UNCHANGED <<attempt, age, paused, lock, scan, faults>>

Launch ==
  /\ pc[Scheduler] = "holding" /\ Running(Scheduler)
  /\ ~child
  /\ child' = TRUE /\ launches' = launches + 1
  /\ UNCHANGED <<pc, attempt, age, beat, paused, lock, orphan, faults>>

\* Mutant: one retry too many.
ChildFailsAgain ==
  /\ child /\ launches <= Retries + 1
  /\ Running(Scheduler)
  /\ child' = FALSE
  /\ UNCHANGED <<pc, attempt, age, beat, paused, lock, launches, orphan, faults>>

\* The child fails and a retry is left.
ChildFails ==
  /\ child /\ launches <= Retries
  /\ Running(Scheduler)
  /\ child' = FALSE
  /\ UNCHANGED <<pc, attempt, age, beat, paused, lock, launches, orphan, faults>>

\* Mutant: the scheduler gives the lock back when the child times out, but
\* leaves the child running.
ChildEndsUnkilled ==
  /\ child
  /\ Running(Scheduler) /\ beat[Scheduler] # "touching"
  /\ child' \in BOOLEAN /\ launches' = 0
  /\ Goto(Scheduler, "releasing") /\ beat' = [beat EXCEPT ![Scheduler] = "off"]
  /\ UNCHANGED <<attempt, age, paused, lock, orphan, faults>>

\* Success, the last failure, or a timeout, at which the child is killed.
ChildEnds ==
  /\ child
  /\ Running(Scheduler) /\ beat[Scheduler] # "touching"
  /\ child' = FALSE /\ launches' = 0
  /\ Goto(Scheduler, "releasing") /\ beat' = [beat EXCEPT ![Scheduler] = "off"]
  /\ UNCHANGED <<attempt, age, paused, lock, orphan, faults>>

OrphanEnds ==
  /\ orphan
  /\ orphan' = FALSE
  /\ UNCHANGED <<pc, attempt, age, beat, paused, lock, child, launches, faults>>

--------------------------------------------------------------------------------
(* release, its heartbeat stopped and joined                               *)

ReleaseRead(p) ==
  /\ pc[p] = "releasing" /\ Running(p)
  /\ IF Mine(p) THEN Goto(p, "removing") /\ UNCHANGED lapsed ELSE Retire(p)
  /\ UNCHANGED <<attempt, age, beat, paused, lock, scan, crashes, pauses, errors>>

ReleaseUnlink(p) ==
  /\ pc[p] = "removing" /\ Running(p)
  /\ IF file = NoFile THEN UNCHANGED <<file, replaced>> ELSE Replace(NoFile)
  /\ Retire(p)
  /\ UNCHANGED <<attempt, age, beat, paused, raced, expired, scan, crashes, pauses, errors>>

--------------------------------------------------------------------------------
(* Calls of the file system that fail.                                     *)

\* A payload that cannot be read counts until it is stale.
JudgeUnread(p) ==
  /\ MayFail(p) /\ Decide(p, age[p] <= Stale)
  /\ errors' = errors + 1 /\ UNCHANGED <<crashes, pauses, lapsed>>

\* An unlink of acquire that fails is tried once more.  A payload that cannot be
\* written ends acquire and leaves the file; an error of release leaves it too.
CallFails(p) ==
  /\ MayFail(p) /\ errors' = errors + 1
  /\ \/ /\ pc[p] = "unlink" /\ Goto(p, "create")
        /\ attempt' = [attempt EXCEPT ![p] = @ + 1]
        /\ replaced' = replaced \ {p} /\ UNCHANGED lapsed
     \/ /\ pc[p] \in {"write", "releasing", "removing"} /\ Retire(p)
        /\ UNCHANGED <<attempt, replaced>>
  /\ UNCHANGED <<age, beat, paused, file, raced, expired, scan, crashes, pauses>>

--------------------------------------------------------------------------------
(* The environment.                                                        *)

\* A process dies; it may be started again, under another pid.
Crash(p) ==
  /\ crashes < MaxCrashes /\ MayFault /\ (pc[p] # "idle" \/ Mine(p))
  /\ crashes' = crashes + 1
  /\ Retire(p) /\ beat' = [beat EXCEPT ![p] = "off"] /\ paused' = paused \ {p}
  /\ file' = IF file # NoFile /\ file.by = p THEN [file EXCEPT !.dead = TRUE] ELSE file
  /\ IF p = Scheduler
     THEN child' = FALSE /\ launches' = 0 /\ orphan' = (orphan \/ child)
     ELSE UNCHANGED scan
  /\ age' = [age EXCEPT ![p] = 0] /\ replaced' = replaced \ {p}
  /\ UNCHANGED <<attempt, raced, expired, pauses, errors>>

\* A container is paused, a laptop sleeps.
Pause(p) ==
  /\ pauses < MaxPauses /\ MayFault /\ Running(p) /\ pc[p] # "idle"
  /\ pauses' = pauses + 1
  /\ paused' = paused \cup {p}
  /\ lapsed' = IF pc[p] \in Owning THEN lapsed \cup {p} ELSE lapsed
  /\ UNCHANGED <<pc, attempt, age, beat, lock, scan, crashes, errors>>

Resume(p) ==
  /\ p \in paused
  /\ paused' = paused \ {p}
  /\ UNCHANGED <<pc, attempt, age, beat, lock, scan, faults>>

\* Time waits for no contender, but an owner that runs writes its payload,
\* makes a due heartbeat and releases before a tick has passed.
Prompt(p) ==
  Running(p) => /\ pc[p] \notin Owning \ {"holding"}
                /\ beat[p] # "touching"
                /\ beat[p] = "on" /\ Mine(p) => file.age < Beat

Tick ==
  /\ file # NoFile /\ file.age <= Stale
  /\ \A p \in Proc : Prompt(p)
  /\ file' = [file EXCEPT !.age = @ + 1]
  /\ UNCHANGED <<pc, attempt, age, beat, paused, history, scan, faults>>

--------------------------------------------------------------------------------
Init ==
  /\ pc = [p \in Proc |-> "idle"]
  /\ attempt = [p \in Proc |-> 0] /\ age = [p \in Proc |-> 0]
  /\ beat = [p \in Proc |-> "off"] /\ paused = {}
  /\ file = NoFile /\ replaced = {} /\ raced = FALSE /\ expired = FALSE
  /\ child = FALSE /\ launches = 0 /\ orphan = FALSE
  /\ crashes = 0 /\ pauses = 0 /\ errors = 0 /\ lapsed = {}

Acquire(p) == Create(p) \/ Stat(p) \/ Judge(p) \/ Unlink(p) \/ Write(p)
Heartbeat(p) == BeatRead(p) \/ BeatTouch(p)
Release(p) == ReleaseRead(p) \/ ReleaseUnlink(p)
ScheduledScan == Launch \/ ChildFails \/ ChildEnds

Failure(p) == BeatFails(p) \/ JudgeUnread(p) \/ CallFails(p)

Next ==
  \/ \E p \in Proc : \/ Request(p) \/ Acquire(p) \/ Heartbeat(p) \/ ScanEnds(p) \/ Release(p)
                     \/ Failure(p) \/ Crash(p) \/ Pause(p) \/ Resume(p)
  \/ ScheduledScan \/ OrphanEnds \/ Tick

Spec == Init /\ [][Next]_vars

(***************************************************************************)
(* Processes that run make progress, scans end, suspended processes come   *)
(* back, time passes, and the scheduler asks for the lock again and again. *)
(* Nobody makes a user start a scan.                                       *)
(***************************************************************************)
Fairness ==
  /\ \A p \in Proc :
       /\ WF_vars(Acquire(p)) /\ WF_vars(Heartbeat(p)) /\ WF_vars(Release(p))
       /\ SF_vars(ScanEnds(p)) /\ WF_vars(Resume(p))
  /\ WF_vars(Request(Scheduler))
  /\ WF_vars(Launch) /\ SF_vars(ChildEnds)
  /\ SF_vars(Tick)

FairSpec == Spec /\ Fairness

--------------------------------------------------------------------------------
(* Properties.                                                             *)

Files == [by : Proc \cup {Nobody}, written : BOOLEAN, dead : BOOLEAN, age : 0 .. Stale + 1]

TypeOK ==
  /\ pc \in [Proc -> At]
  /\ attempt \in [Proc -> 0 .. 2] /\ age \in [Proc -> 0 .. Stale + 1]
  /\ beat \in [Proc -> {"off", "on", "touching"}]
  /\ paused \subseteq Proc
  /\ file \in {NoFile} \cup Files
  /\ child \in BOOLEAN /\ launches \in 0 .. Retries + 1 /\ orphan \in BOOLEAN
  /\ crashes \in 0 .. MaxCrashes /\ pauses \in 0 .. MaxPauses /\ errors \in 0 .. MaxErrors
  /\ replaced \subseteq Proc /\ lapsed \subseteq Proc /\ {raced, expired} \subseteq BOOLEAN

\* Processes that scan or may start to at any moment.
Scanners == {p \in Proc : pc[p] = "holding" \/ (p = Scheduler /\ child)}

\* Two scans overlap only when two contenders raced to recover one stale lock,
\* or a living owner lost its lease (LeaseKept says which may), or a child
\* outlived its scheduler.  Crashes, unfinished payloads, heartbeats that touch
\* what is no longer theirs, late releases and calls of the file system that
\* fail never let a second scan in by themselves.
OverlapExplained ==
  ~raced /\ ~expired /\ ~orphan => Cardinality(Scanners) <= 1

\* The living owner of a file a contender has judged inactive, and is about to
\* unlink, has itself been suspended since it created the file, or its heartbeat
\* has ended on an error (the thread returns, the scan goes on): whatever befalls
\* the others, an owner that runs and whose heartbeat beats keeps its lease.
LeaseKept ==
  \A p \in Proc :
    pc[p] = "unlink" /\ p \notin replaced /\ Owned => file.by \in lapsed

\* The lock "prevents web search, CLI and scheduler from running at the same
\* time" (violated: two contenders may recover the same stale lock).
OneScanAtATime == Cardinality(Scanners) <= 1

\* A lock nobody will release, its owner dead or its payload never written, does
\* not block scans forever.  One that a release that failed has left behind does,
\* for contenders of its host, as long as its process lives.
LockRecovered ==
  LET Left == Abandoned /\ (file.written => file.dead)
  IN Left ~> ~Left

================================================================================

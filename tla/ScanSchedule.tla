------------------------------ MODULE ScanSchedule ------------------------------
(***************************************************************************)
(* The schedule loop (scheduler.serve_schedule_file) over the tracked      *)
(* scans of ScanRun: it polls the preferences file, launches a scan as a   *)
(* child process under the lock, and retries a child that fails.  The      *)
(* panel may scan, or save another schedule, at any moment.                *)
(***************************************************************************)
EXTENDS ScanRun

CONSTANTS
  Broken,     \* a preferences file that does not load
  Retries,    \* SCHEDULER_RETRIES
  MaxEdits    \* bound on changes of the file

ASSUME ScheduleConstants == Retries \in Nat /\ MaxEdits \in Nat

VARIABLES
  prefs,      \* the schedule in search_preferences.json
  loop,       \* poll, launch, wait
  known,      \* signature: the schedule last loaded
  target,     \* time of the next run, or None
  attempt,
  edits,
  owed       \* history: moments of the schedule that have come while the loop
             \* waited for them, and that no round has answered

schedule == <<prefs, edits>>
service == <<loop, known, target, attempt, owed>>
vars == <<scanVars, schedule, service>>

\* at: which of the two ticks of a day
Schedule == [on : BOOLEAN, at : 0..1]

\* None is no schedule and no time.
ASSUME NoneOK == None \notin Schedule /\ None \notin Nat

Init ==
  /\ ScanInit
  /\ prefs = [on |-> TRUE, at |-> 0] /\ edits = 0
  /\ loop = "poll" /\ known = None /\ target = None /\ attempt = 0 /\ owed = {}

\* Mutant: the day that has begun is left out.
NextRunTomorrow(s, t) == CHOOSE n \in (t + 2)..(t + 3) : n % 2 = s.at

\* next_run_at: the first moment of the schedule after t.
NextRun(s, t) == CHOOSE n \in (t + 1)..(t + 2) : n % 2 = s.at

--------------------------------------------------------------------------------
\* One round of the loop, when the file loads.  A file that differs from the one
\* known sets the target anew; the scan is due if the target has come.
Loaded == loop = "poll" /\ prefs # Broken
Aim == IF prefs = known THEN target
       ELSE IF prefs.on THEN NextRun(prefs, now) ELSE None
Due == prefs.on /\ Aim # None /\ now >= Aim

Reload ==
  /\ Loaded /\ ~Due /\ prefs # known
  /\ known' = prefs /\ target' = Aim /\ owed' = {}
  /\ UNCHANGED <<scanVars, schedule, loop, attempt>>

\* A run that is due while another scan holds the lock is skipped.
SkipBusy ==
  /\ Loaded /\ Due /\ holder # None
  /\ known' = prefs /\ target' = NextRun(prefs, now) /\ owed' = {}
  /\ UNCHANGED <<scanVars, schedule, loop, attempt>>

TakeLock ==
  /\ Loaded /\ Due /\ holder = None /\ id + Retries < MaxScans
  /\ known' = prefs /\ target' = Aim /\ owed' = {}
  /\ holder' = "schedule" /\ loop' = "launch" /\ attempt' = 0
  /\ UNCHANGED <<live, data, rows, files, reading, now, past, schedule>>

Launch ==
  /\ loop = "launch" /\ Begin("schedule")
  /\ loop' = "wait"
  /\ UNCHANGED <<schedule, known, target, attempt, owed>>

\* End of run_scheduled_once: the lock is released and the next run aimed at.
Finish ==
  /\ holder' = None /\ loop' = "poll" /\ attempt' = 0 /\ raised' = FALSE
  /\ target' = NextRun(known, now)
  /\ UNCHANGED <<schedule, known, owed>>

\* The child has exited: 0 if its scan returned, and a failure is retried.
ChildExits ==
  /\ loop = "wait" /\ stage = "off"
  /\ IF raised /\ attempt < Retries
     THEN /\ loop' = "launch" /\ attempt' = attempt + 1
          /\ UNCHANGED <<scanVars, schedule, known, target, owed>>
     ELSE Finish /\ UNCHANGED <<stage, id, marker, data, rows, files, reading, now, past>>

\* max_duration_minutes is over: the child is killed and not tried again.
ChildTimesOut ==
  /\ loop = "wait" /\ Kill /\ Finish

\* The child dies: for the loop it has failed.
ChildDies ==
  /\ loop = "wait" /\ Kill
  /\ raised' = TRUE
  /\ UNCHANGED <<holder, schedule, service>>

\* The scheduler is restarted: it knows no schedule and has no target.
Restart ==
  /\ Cardinality(killed) < MaxKills
  /\ IF holder = "schedule"
     THEN /\ holder' = None /\ raised' = FALSE
          /\ IF stage # "off" THEN Kill ELSE UNCHANGED <<stage, id, marker, data, rows, files, reading, now, past>>
     ELSE UNCHANGED scanVars
  /\ loop' = "poll" /\ known' = None /\ target' = None /\ attempt' = 0 /\ owed' = {}
  /\ UNCHANGED schedule

\* A scan spends its time collecting; nothing else of the outside world is let
\* happen between its writes.
Unhurried == stage \in {"off", "collect"}

\* The panel saves a schedule; an edit by hand may leave a file that is refused.
Edit ==
  /\ edits < MaxEdits /\ Unhurried
  /\ \E s \in Schedule \cup {Broken} : s # prefs /\ prefs' = s
  /\ edits' = edits + 1
  /\ UNCHANGED <<scanVars, service>>

\* The loop polls with the schedule of the file, and that is on.
Waiting == loop = "poll" /\ prefs # Broken /\ prefs = known /\ known.on

Tick ==
  /\ now < MaxNow /\ Unhurried
  /\ now' = now + 1
  /\ owed' = IF Waiting /\ (now + 1) % 2 = known.at THEN owed \cup {now + 1} ELSE owed
  /\ UNCHANGED <<holder, live, data, rows, files, reading, past, schedule, loop, known, target, attempt>>

Scan == (Step \/ PanelScan \/ PanelKilled \/ TaskReads) /\ UNCHANGED <<schedule, service>>
Serve == Reload \/ SkipBusy \/ TakeLock \/ Launch \/ ChildExits
Next == Scan \/ Serve \/ ChildTimesOut \/ ChildDies \/ Restart \/ Edit \/ Tick

Spec == Init /\ [][Next]_vars

--------------------------------------------------------------------------------
ScheduleOK ==
  /\ edits \in 0..MaxEdits /\ attempt \in 0..Retries
  /\ prefs \in Schedule \cup {Broken} /\ known \in Schedule \cup {None}
  /\ loop \in {"poll", "launch", "wait"} /\ target \in (0..MaxNow + 2) \cup {None}
  /\ owed \subseteq 0..MaxNow

TypeOK == ScanOK /\ ScheduleOK

\* A run is left as running only while it runs, or when its process was killed
\* or its closing session failed: no way through execute_scan forgets the row.
RowsClosed ==
  \A i \in 1..MaxScans :
    rows[i].status = "running" => (i = id /\ stage # "off") \/ i \in killed

\* A run's summary is the report of that run, never one an earlier run left on
\* disk, and a run that completed has it, unless it was interrupted: its row says
\* completed too, whether it has written a report or not.  A scan task may return
\* the report of a later scan, as the lock is free when it reads the file, but
\* never an older one.
ReportsOwn ==
  /\ \A i \in 1..MaxScans :
       /\ rows[i].summary \in {0, i}
       /\ rows[i].status = "completed" /\ i \notin interrupted => rows[i].summary = i
  /\ reading # 0 => report >= reading

\* While an entry stays in the history its first_seen never moves, and it is
\* marked removed only by a scan that its source answered without the posting
\* being among the records, unless the record names another company than the one
\* whose source lists it: otherwise a source that is down, or was not asked,
\* removes nothing.
HistoryFaithful ==
  [][\A u \in DOMAIN history' :
       /\ u \in DOMAIN history => history'[u].first = history[u].first
       /\ history'[u].life = "removed" =>
            u \in gone \/ (u \in DOMAIN history /\ history[u].life = "removed")]_vars

\* A posting that has been noted as seen is announced as new again only if the
\* limit has cut it out of the history since: a scan that dies between two files
\* is no reason.
NewIsNew ==
  stage = "history" =>
    \A u \in DOMAIN records : records[u] = "new" /\ u \in seen => u \in trimmed

\* A moment of the schedule that has come while the loop was waiting for it, with
\* that schedule loaded, is due and stays so until a round of the loop answers it:
\* with a scan, or by skipping it because another scan holds the lock.  Of several
\* (the loop was slow) one answer is for all.  What drops it unanswered is only a
\* change of the file or a restart before that round; a moment that comes while a
\* scheduled scan is under way is none the loop waits for.
MomentsKept ==
  loop = "poll" /\ owed # {} => target # None /\ \A m \in owed : target <= m /\ m <= now
================================================================================

-------------------------------- MODULE ScanRun --------------------------------
(***************************************************************************)
(* One tracked scan at a time: operations.execute_scan around              *)
(* scanner.run_scan, with the files it leaves under state/ and the row it  *)
(* keeps in search_runs.  The lock is taken as exclusive here (ScanLock    *)
(* says when it is not).  A scan writes its files one after the other, and *)
(* may raise or be killed between any two writes.                          *)
(*                                                                         *)
(* What is on the web is chosen afresh whenever a scan collects.  The      *)
(* panel starts scans as tasks; the schedule loop (module ScanSchedule)    *)
(* starts them as child processes.                                         *)
(***************************************************************************)
EXTENDS Naturals, FiniteSets

CONSTANTS
  Url,          \* canonical addresses of postings
  Company,      \* configured companies
  ListedBy,     \* the company whose source lists an address
  CompanyOf,    \* the company its record names: a page may name another
  Connectors,   \* connectors the user may give the companies
  PageLimit,    \* postings SmartRecruiters is asked for
  KeyOf,        \* semantic key of the posting (company, title, location)
  None,
  ReportLimit,  \* SearchRunReport: max_length of its lists
  HistoryLimit, \* state.history_limit
  MaxScans,     \* bound on runs
  MaxKills,     \* bound on crashes
  MaxNow        \* bound on the clock

ASSUME ScanConstants ==
  /\ IsFiniteSet(Url)
  /\ DOMAIN ListedBy = Url /\ DOMAIN CompanyOf = Url /\ DOMAIN KeyOf = Url
  /\ \A u \in Url : {ListedBy[u], CompanyOf[u]} \subseteq Company
  /\ \A u, v \in Url : KeyOf[u] = KeyOf[v] => CompanyOf[u] = CompanyOf[v]
  /\ PageLimit \in Nat /\ ReportLimit \in Nat /\ HistoryLimit \in Nat \ {0}
  /\ MaxScans \in Nat /\ MaxKills \in Nat /\ MaxNow \in Nat

\* The JSON-LD of a page may name another hiringOrganization.  The connectors of
\* job boards put the company they ask for.
NamesOther(u) == CompanyOf[u] # ListedBy[u]

ASSUME OnlyPagesName ==
  \A kind \in Connectors, u \in Url : NamesOther(u) => kind[ListedBy[u]] = "generic_html"

VARIABLES
  holder,    \* who holds the scan lock: panel, schedule or None
  stage,     \* next thing the scan does
  id,        \* number of the current run, 0 before the first
  marker,    \* run whose report was on disk when this one began
  raised,    \* an exception is on its way to the closing code
  big,       \* more companies were scanned than a report can list
  records,   \* lifecycle of each posting found, by address
  merged,    \* the history the scan has computed
  rows,      \* search_runs: status and summary of each run
  history,   \* job_history.json
  seen,      \* seen_jobs.json: seen_urls
  report,    \* last_run_report.json: the run that wrote it, 0 if none
  reading,   \* panel run whose task has yet to read the report, 0 if none
  now,       \* clock, two ticks a day
  gone,      \* history: entries this scan has reason to mark removed
  trimmed,   \* history: addresses the limit has cut out of the file
  killed,    \* history: runs that ended without their closing code
  interrupted \* runs of which what is raised is no Exception: a KeyboardInterrupt

live == <<stage, id, marker, raised>>
data == <<big, records, merged, gone>>
files == <<history, seen, report>>
past == <<trimmed, killed, interrupted>>
scanVars == <<holder, live, data, rows, files, reading, now, past>>

Work == {"collect", "history", "seen", "report"}
Life == {"new", "known", "republished", "removed"}
Status == {"none", "running", "completed", "failed"}
Today == now \div 2
NoFile == [u \in {} |-> None]
Unmerge == merged' = NoFile /\ gone' = {} /\ records' = NoFile
Forget == Unmerge /\ big' = FALSE

ScanInit ==
  /\ holder = None /\ stage = "off" /\ id = 0 /\ marker = 0 /\ raised = FALSE
  /\ big = FALSE /\ records = NoFile /\ merged = NoFile /\ gone = {}
  /\ rows = [i \in 1..MaxScans |-> [status |-> "none", summary |-> 0]]
  /\ history = NoFile /\ seen = {} /\ report = 0 /\ reading = 0
  /\ now = 0 /\ trimmed = {} /\ killed = {} /\ interrupted = {}

--------------------------------------------------------------------------------
(* execute_scan, before the scan                                           *)

\* The run is recorded as running, unless persistence is off or the database
\* cannot be reached: then the scan goes on without a row.
Begin(by) ==
  /\ stage = "off" /\ id < MaxScans
  /\ stage' = "collect" /\ id' = id + 1 /\ marker' = report /\ raised' = FALSE
  /\ \/ rows' = [rows EXCEPT ![id + 1].status = "running"]
     \/ UNCHANGED rows
  /\ holder' = by
  /\ UNCHANGED <<data, files, reading, now, past>>

\* One scan task at a time: the task type is exclusive.
PanelScan == holder = None /\ reading = 0 /\ Begin("panel")

--------------------------------------------------------------------------------
(* run_scan                                                                *)

Twins(u) == {v \in DOMAIN history : KeyOf[v] = KeyOf[u]}

Lifecycle(u) ==
  IF u \in DOMAIN history THEN "known"
  ELSE IF Twins(u) # {} THEN "republished" ELSE "new"

\* first_seen of the same address, else of the posting it republishes, else
\* today.  Of several the last in the file counts: the one seen longest ago.
FirstSeen(u) ==
  IF u \in DOMAIN history THEN history[u].first
  ELSE IF Twins(u) # {}
  THEN history[CHOOSE v \in Twins(u) : \A w \in Twins(u) : history[v].last <= history[w].last].first
  ELSE Today

\* Mutant: a company whose connector failed counts as scanned too.
MarksRemovedAlways(u, ok, found) == u \notin found

\* An older entry no record carries the address of, naming a company that answered.
MarksRemoved(u, ok, found) == u \notin found /\ CompanyOf[u] \in ok

\* _apply_lifecycle
Merged(ok, found) ==
  [u \in DOMAIN history \cup found |->
     IF u \in found THEN [life |-> Lifecycle(u), first |-> FirstSeen(u), last |-> Today]
     ELSE IF MarksRemoved(u, ok, found) THEN [history[u] EXCEPT !.life = "removed"]
     ELSE history[u]]

\* Mutant: the history grows without limit.
NewestAll(entries) == {DOMAIN entries}

\* The newest entries by last_seen; among equals the choice is left open.
Newest(entries) ==
  {kept \in SUBSET DOMAIN entries :
     /\ Cardinality(kept) =
          IF Cardinality(DOMAIN entries) < HistoryLimit THEN Cardinality(DOMAIN entries) ELSE HistoryLimit
     /\ \A u \in kept, v \in DOMAIN entries \ kept : entries[u].last >= entries[v].last}

\* deduplicate_jobs: one posting of each semantic key stays.
OnePerKey(listed) ==
  {keep \in SUBSET listed :
     /\ \A u, v \in keep : KeyOf[u] = KeyOf[v] => u = v
     /\ {KeyOf[u] : u \in keep} = {KeyOf[u] : u \in listed}}

\* Mutant: the addresses seen are noted before the history is written.
SeenFirst == [collect |-> "seen", seen |-> "history", history |-> "report"]

\* The order in which run_scan writes its files.
FileAfter == [collect |-> "history", history |-> "seen", seen |-> "report"]

Advance ==
  /\ stage' = FileAfter[stage]
  /\ IF stage' = "report" THEN Unmerge ELSE UNCHANGED <<records, merged, gone>>

\* What a connector that reports success may return of the postings online; an
\* item without title, address or id is none.
\* Greenhouse, Ashby and Workable: all of them, or none if the answer
\* has another shape.
Board(online) == {online, {}}
\* Lever: an answer of another shape is a failure.
List(online) == {online}
\* SmartRecruiters: the first page, or none.
Page(online) ==
  {{}} \cup {s \in SUBSET online : IF Cardinality(online) <= PageLimit THEN s = online
                                 ELSE Cardinality(s) = PageLimit}
\* Pages on the web: what their static HTML shows.
Html(online) == SUBSET online

\* build_connector
Answers(kind, online) ==
  CASE kind \in {"greenhouse", "ashby", "workable"} -> Board(online)
    [] kind = "lever" -> List(online)
    [] kind = "smartrecruiters" -> Page(online)
    [] kind = "generic_html" -> Html(online)

\* What the companies that answered list together.
Listings(kind, ok, online) ==
  {listed \in SUBSET online :
     \A c \in Company :
       LET own == {u \in listed : ListedBy[u] = c}
       IN IF c \in ok THEN own \in Answers(kind[c], {u \in online : ListedBy[u] = c}) ELSE own = {}}

\* The companies are asked, their postings merged with the history.  A company
\* counts as scanned when its connector reports success; a failed one adds
\* nothing, not even what it had read.  last_scan.json takes the records at the
\* end; no scan reads it back.
Collect ==
  /\ stage = "collect"
  /\ \E companies \in SUBSET Company \ {{}} : \E ok \in SUBSET companies :
     \E kind \in Connectors, online \in SUBSET Url : \E listed \in Listings(kind, ok, online) :
     \E found \in OnePerKey(listed) :
       /\ big' = (Cardinality(companies) > ReportLimit)
       /\ records' = [u \in found |-> Lifecycle(u)]
       /\ \E kept \in Newest(Merged(ok, found)) : merged' = [u \in kept |-> Merged(ok, found)[u]]
       /\ gone' = {u \in DOMAIN history \ found : ListedBy[u] \in ok \/ NamesOther(u)}
  /\ stage' = FileAfter.collect
  /\ UNCHANGED <<holder, id, marker, raised, rows, files, reading, now, past>>

WriteHistory ==
  /\ stage = "history" /\ Advance
  /\ history' = merged
  /\ trimmed' = (trimmed \cup DOMAIN history \cup DOMAIN records) \ DOMAIN merged
  /\ UNCHANGED <<holder, id, marker, raised, big, rows, seen, report, reading, now, killed, interrupted>>

WriteSeen ==
  /\ stage = "seen" /\ Advance
  /\ seen' = seen \cup DOMAIN records
  /\ UNCHANGED <<holder, id, marker, raised, big, rows, history, report, reading, now, past>>

\* The exports, then the report.  Every list of the report is limited, the
\* sources and the errors among them: a scan of more companies has none.
WriteReport ==
  /\ stage = "report" /\ ~big
  /\ report' = id
  /\ stage' = "close"
  /\ UNCHANGED <<holder, id, marker, raised, data, rows, history, seen, reading, now, past>>

\* Any step may raise: the network, the database, the disk, or the report.
Raise ==
  /\ stage \in Work
  /\ raised' = TRUE /\ stage' = "close" /\ Forget
  /\ UNCHANGED <<holder, id, marker, rows, files, reading, now, past>>

\* The scan child is interrupted.  In the panel the main thread would be, and
\* the scan is in another.
Interrupt ==
  /\ holder = "schedule" /\ stage \in Work \cup {"close"} /\ ~raised
  /\ interrupted' = interrupted \cup {id}
  /\ raised' = TRUE /\ stage' = "close" /\ Forget
  /\ UNCHANGED <<holder, id, marker, rows, files, reading, now, trimmed, killed>>

--------------------------------------------------------------------------------
(* execute_scan, after the scan                                            *)

\* Mutant: whatever report is on disk is taken for this run's.
FreshReportAny == report

\* The report on disk, if it has been written since the run began.
FreshReport == IF report = marker THEN 0 ELSE report

\* completed_with_errors, when a company did not answer, counts as completed.
\* Only an Exception makes a run failed.
FinalStatus == IF raised /\ id \notin interrupted THEN "failed" ELSE "completed"

\* The row of the run, if it has one, gets its status and report.
CloseRow ==
  /\ rows[id].status = "running"
  /\ rows' = [rows EXCEPT ![id] = [status |-> FinalStatus, summary |-> FreshReport]]
  /\ UNCHANGED killed

\* The session fails to commit: the exception replaces the outcome of the scan.
CloseRowFails ==
  /\ rows[id].status = "running"
  /\ killed' = killed \cup {id}
  /\ UNCHANGED rows

\* Mutant: a scan that raised is left without its closing session.
NoRowOrRaised == rows[id].status = "none" \/ raised

\* The run began without a row.
NoRow == rows[id].status = "none"

\* An exception ends the task of a panel scan.
AfterScan(failed) == IF failed THEN 0 ELSE id

\* Whatever happens the lock of a panel scan is released.
Close ==
  /\ stage = "close"
  /\ \E failed \in BOOLEAN :
       /\ \/ CloseRow /\ failed = raised
          \/ NoRow /\ failed = raised /\ UNCHANGED <<rows, killed>>
          \/ CloseRowFails /\ failed
       /\ IF holder = "panel"
          THEN holder' = None /\ reading' = AfterScan(failed) /\ raised' = FALSE
          ELSE raised' = failed /\ UNCHANGED <<holder, reading>>
  /\ stage' = "off" /\ marker' = 0 /\ Forget
  /\ UNCHANGED <<id, files, now, trimmed, interrupted>>

\* The scan task returns what the report file holds by now: the lock is free.
TaskReads ==
  /\ reading # 0
  /\ reading' = 0
  /\ UNCHANGED <<holder, live, data, rows, files, now, past>>

\* The scanning process is killed: nothing of it is closed.  (The lock file of a
\* dead panel is taken over later: ScanLock.)
Kill ==
  /\ Cardinality(killed) < MaxKills /\ stage # "off"
  /\ killed' = killed \cup {id}
  /\ stage' = "off" /\ marker' = 0 /\ Forget
  /\ UNCHANGED <<id, rows, files, reading, now, trimmed, interrupted>>

PanelKilled == holder = "panel" /\ Kill /\ holder' = None /\ raised' = FALSE

Step == \/ Collect \/ WriteHistory \/ WriteSeen
        \/ WriteReport \/ Raise \/ Interrupt \/ Close

--------------------------------------------------------------------------------
HistoryFile(file) ==
  /\ DOMAIN file \subseteq Url /\ Cardinality(DOMAIN file) <= HistoryLimit
  /\ \A u \in DOMAIN file : file[u] \in [life : Life, first : 0..MaxNow, last : 0..MaxNow]

RunOK ==
  /\ holder \in {"panel", "schedule", None} /\ stage \in Work \cup {"off", "close"}
  /\ id \in 0..MaxScans /\ marker \in 0..MaxScans
  /\ report \in 0..MaxScans /\ reading \in 0..MaxScans
  /\ killed \cup interrupted \subseteq 1..MaxScans /\ now \in 0..MaxNow

FlagsOK == raised \in BOOLEAN /\ big \in BOOLEAN
RowsOK == rows \in [1..MaxScans -> [status : Status, summary : 0..MaxScans]]

PostingsOK ==
  /\ DOMAIN records \subseteq Url
  /\ \A u \in DOMAIN records : records[u] \in Life \ {"removed"}
  /\ HistoryFile(history) /\ HistoryFile(merged)
  /\ seen \subseteq Url /\ trimmed \subseteq Url /\ gone \subseteq Url

ScanOK == RunOK /\ FlagsOK /\ RowsOK /\ PostingsOK
================================================================================

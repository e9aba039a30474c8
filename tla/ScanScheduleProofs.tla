--------------------------- MODULE ScanScheduleProofs ---------------------------
(***************************************************************************)
(* Proofs about ScanSchedule, and with it ScanRun, for any postings,       *)
(* companies, connectors, limits and bounds: the type invariant and every  *)
(* property of the runs, all from one inductive invariant, IInv.           *)
(***************************************************************************)
EXTENDS ScanSchedule, LeastElements, FiniteSetTheorems, TLAPS

--------------------------------------------------------------------------------
(* The inductive invariant, beyond the types and the properties themselves. *)

\* The scan under way wrote the report on disk if it has got past it, and some
\* earlier scan did if not.
ReportInv ==
  /\ report <= id /\ reading <= report
  /\ stage # "off" => marker < id /\ report \in {marker, id}
  /\ stage \in Work => report = marker /\ ~raised
  /\ stage = "close" /\ ~raised => report = id
  /\ \A i \in 1..MaxScans : i > id => rows[i].status = "none" /\ rows[i].summary = 0

\* Every address noted as seen is in the history, or has been cut out of it.
SeenInv ==
  /\ seen \subseteq DOMAIN history \cup trimmed
  /\ stage = "history" => \A u \in DOMAIN records : records[u] = "new" => u \notin DOMAIN history
  /\ stage = "seen" => DOMAIN records \subseteq DOMAIN history \cup trimmed

\* The history about to be written says of the one on disk what HistoryFaithful
\* asks of a step.
MergeInv ==
  stage = "history" => \A u \in DOMAIN merged :
    /\ u \in DOMAIN history => merged[u].first = history[u].first
    /\ merged[u].life = "removed" =>
         u \in gone \/ (u \in DOMAIN history /\ history[u].life = "removed")

\* A target is the first moment of the schedule known, whatever the file says by
\* now, and a schedule that is on has one.
TargetInv ==
  /\ loop # "poll" => known \in Schedule /\ known.on /\ owed = {}
  /\ loop = "poll" /\ known # None => known \in Schedule /\ (known.on => target # None)
  /\ loop = "poll" /\ target # None =>
       /\ known \in Schedule /\ known.on /\ target % 2 = known.at
       /\ \A n \in (now + 1)..(target - 1) : n % 2 # known.at

ScanInv == ScanOK /\ ReportInv /\ SeenInv /\ MergeInv /\ RowsClosed /\ ReportsOwn
LoopInv == ScheduleOK /\ TargetInv /\ MomentsKept
IInv == ScanInv /\ LoopInv

--------------------------------------------------------------------------------
(* What the operators of the model return.                                 *)

\* next_run_at: the first moment of the schedule, at most a day ahead.
LEMMA NextRunFirst ==
  ASSUME NEW s \in Schedule, NEW t \in Nat
  PROVE  /\ NextRun(s, t) \in (t + 1)..(t + 2)
         /\ NextRun(s, t) % 2 = s.at
         /\ \A n \in (t + 1)..(NextRun(s, t) - 1) : n % 2 # s.at
<1>1. s.at \in 0..1
  BY DEF Schedule
<1>2. \E n \in (t + 1)..(t + 2) : n % 2 = s.at
  <2>1. (t + 1) % 2 = s.at \/ (t + 2) % 2 = s.at
    BY <1>1
  <2>2. QED
    BY <2>1
<1>3. NextRun(s, t) \in (t + 1)..(t + 2) /\ NextRun(s, t) % 2 = s.at
  BY <1>2 DEF NextRun
<1>4. \A n \in (t + 1)..(NextRun(s, t) - 1) : n % 2 # s.at
  <2>1. CASE NextRun(s, t) = t + 1
    BY <2>1
  <2>2. CASE NextRun(s, t) = t + 2
    <3>1. \A n \in (t + 1)..(t + 1) : n % 2 # s.at
      BY <1>3, <2>2
    <3>2. QED
      BY <2>2, <3>1
  <2>3. QED
    BY <1>3, <2>1, <2>2
<1>5. QED
  BY <1>3, <1>4

\* first_seen is a day.
LEMMA FirstSeenType ==
  ASSUME RunOK, PostingsOK, NEW u \in Url
  PROVE  FirstSeen(u) \in 0..MaxNow
<1>1. Today \in 0..MaxNow
  BY ScanConstants DEF RunOK, Today
<1>2. CASE u \in DOMAIN history
  BY <1>2 DEF FirstSeen, PostingsOK, HistoryFile
<1>3. CASE u \notin DOMAIN history /\ Twins(u) # {}
  <2> DEFINE days == {history[v].last : v \in Twins(u)}
  <2>1. days # {} /\ days \subseteq Nat
    BY <1>3, ScanConstants DEF Twins, PostingsOK, HistoryFile
  <2>2. PICK d \in days : \A e \in days : d <= e
    BY <2>1, LeastElement
  <2>3. \E v \in Twins(u) : \A w \in Twins(u) : history[v].last <= history[w].last
    BY <2>2
  <2>4. QED
    BY <1>3, <2>3 DEF FirstSeen, Twins, PostingsOK, HistoryFile
<1>4. CASE u \notin DOMAIN history /\ Twins(u) = {}
  BY <1>1, <1>4 DEF FirstSeen
<1>5. QED
  BY <1>2, <1>3, <1>4

\* The merged history keeps to its types and its limit.
LEMMA MergedType ==
  ASSUME RunOK, PostingsOK, NEW ok \in SUBSET Company, NEW found \in SUBSET Url,
         NEW kept \in Newest(Merged(ok, found))
  PROVE  /\ kept \subseteq DOMAIN history \cup found
         /\ HistoryFile([u \in kept |-> Merged(ok, found)[u]])
<1> DEFINE all == Merged(ok, found)
<1>1. DOMAIN all = DOMAIN history \cup found /\ DOMAIN all \subseteq Url
  BY DEF Merged, PostingsOK, HistoryFile
<1>2. kept \subseteq DOMAIN all
  BY DEF Newest
<1>3. Cardinality(kept) <= HistoryLimit
  <2>1. Cardinality(DOMAIN all) \in Nat
    BY <1>1, ScanConstants, FS_Subset, FS_CardinalityType
  <2>2. QED
    BY <2>1, ScanConstants DEF Newest
<1>4. ASSUME NEW u \in kept PROVE all[u] \in [life : Life, first : 0..MaxNow, last : 0..MaxNow]
  <2>1. Today \in 0..MaxNow
    BY ScanConstants DEF RunOK, Today
  <2>2. CASE u \in found
    BY <1>1, <1>2, <1>4, <2>1, <2>2, FirstSeenType DEF Merged, Lifecycle, Life
  <2>3. CASE u \notin found
    <3>1. u \in DOMAIN history /\ history[u] \in [life : Life, first : 0..MaxNow, last : 0..MaxNow]
      BY <1>1, <1>2, <1>4, <2>3 DEF PostingsOK, HistoryFile
    <3>2. QED
      BY <1>1, <2>3, <3>1 DEF Merged, Life
  <2>4. QED
    BY <2>2, <2>3
<1>5. QED
  BY <1>1, <1>2, <1>3, <1>4 DEF HistoryFile

\* What the merged history says of the one on disk.
LEMMA MergedSays ==
  ASSUME RunOK, PostingsOK, NEW ok \in SUBSET Company, NEW found \in SUBSET Url,
         NEW u \in DOMAIN history \cup found
  PROVE  /\ u \in DOMAIN history => Merged(ok, found)[u].first = history[u].first
         /\ Merged(ok, found)[u].life = "removed" =>
              \/ u \in DOMAIN history \ found /\ (ListedBy[u] \in ok \/ NamesOther(u))
              \/ u \in DOMAIN history /\ history[u].life = "removed"
<1>1. CASE u \in found
  BY <1>1 DEF Merged, Lifecycle, FirstSeen
<1>2. CASE u \notin found
  <2>1. u \in DOMAIN history /\ history[u] \in [life : Life, first : 0..MaxNow, last : 0..MaxNow]
    BY <1>2 DEF PostingsOK, HistoryFile
  <2>2. QED
    BY <1>2, <2>1 DEF Merged, MarksRemoved, NamesOther
<1>3. QED
  BY <1>1, <1>2

--------------------------------------------------------------------------------
(* IInv is inductive.                                                      *)

LEMMA InitIInv == Init => IInv
<1> SUFFICES ASSUME Init PROVE IInv
  OBVIOUS
<1> USE DEF Init, ScanInit
<1>1. RunOK /\ FlagsOK
  <2>1. RunOK
    BY ScanConstants DEF RunOK
  <2>2. FlagsOK
    BY DEF FlagsOK
  <2>3. QED
    BY <2>1, <2>2
<1>2. RowsOK
  BY ScanConstants DEF RowsOK, Status
<1>3. PostingsOK
  <2>1. Cardinality(DOMAIN NoFile) = 0 /\ DOMAIN NoFile = {}
    BY FS_EmptySet DEF NoFile
  <2>2. HistoryFile(NoFile)
    BY <2>1, ScanConstants DEF HistoryFile
  <2>3. QED
    BY <2>1, <2>2 DEF PostingsOK
<1>4. ScheduleOK
  BY ScheduleConstants DEF ScheduleOK, Schedule
<1>5. ReportInv /\ SeenInv /\ MergeInv /\ TargetInv /\ MomentsKept /\ RowsClosed /\ ReportsOwn
  BY ScanConstants DEF ReportInv, SeenInv, MergeInv, TargetInv, MomentsKept, RowsClosed, ReportsOwn, Work
<1>6. QED
  BY <1>1, <1>2, <1>3, <1>4, <1>5 DEF IInv, ScanInv, ScanOK, LoopInv

\* Forgetting what a scan has computed.
LEMMA UnmergeType ==
  ASSUME Unmerge
  PROVE  gone' = {} /\ HistoryFile(merged)' /\ DOMAIN records' = {}
<1>1. Cardinality(DOMAIN NoFile) = 0 /\ DOMAIN NoFile = {}
  BY FS_EmptySet DEF NoFile
<1>2. HistoryFile(NoFile)
  BY <1>1, ScanConstants DEF HistoryFile
<1>3. QED
  BY <1>1, <1>2 DEF Unmerge, HistoryFile

\* Nothing but the clock, the lock and the loop changes.
LEMMA IdleStep ==
  ASSUME ScanInv, UNCHANGED <<stage, id, marker, data, rows, files, past>>,
         holder' \in {"panel", "schedule", None}, now' \in 0..MaxNow,
         raised' = raised \/ (stage = "off" /\ raised' \in BOOLEAN),
         reading' \in {reading, 0}
  PROVE  ScanInv'
<1>1. UNCHANGED <<stage, id, marker, big, records, merged, gone, rows, history, seen, report, trimmed, killed, interrupted>>
  BY DEF data, files, past
<1>2. RunOK' /\ FlagsOK'
  <2>1. RunOK'
    BY <1>1, ScanConstants DEF ScanInv, ScanOK, RunOK
  <2>2. FlagsOK'
    BY <1>1 DEF ScanInv, ScanOK, FlagsOK
  <2>3. QED
    BY <2>1, <2>2
<1>3. RowsOK' /\ PostingsOK'
  BY <1>1 DEF ScanInv, ScanOK, RowsOK, PostingsOK, HistoryFile
<1>4. ReportInv'
  BY <1>1 DEF ScanInv, ScanOK, RunOK, ReportInv, Work
<1>5. SeenInv' /\ MergeInv' /\ RowsClosed'
  BY <1>1 DEF ScanInv, ScanOK, SeenInv, MergeInv, RowsClosed
<1>6. ReportsOwn'
  BY <1>1 DEF ScanInv, ScanOK, RunOK, ReportsOwn
<1>7. QED
  BY <1>2, <1>3, <1>4, <1>5, <1>6 DEF ScanInv, ScanOK

\* A run begins when no scan is under way.
LEMMA BeginStep ==
  ASSUME ScanInv, NEW by \in {"panel", "schedule"}, Begin(by)
  PROVE  ScanInv'
<1>1. /\ id' \in 1..MaxScans /\ id' = id + 1 /\ stage = "off" /\ stage' = "collect"
      /\ holder' \in {"panel", "schedule"} /\ marker' = report /\ raised' = FALSE
      /\ UNCHANGED <<big, records, merged, gone, history, seen, report, reading, now, trimmed, killed, interrupted>>
  BY ScanConstants DEF Begin, ScanInv, ScanOK, RunOK, data, files, past
<1>2. /\ RowsOK'
      /\ \A i \in 1..MaxScans : i # id' => rows'[i] = rows[i]
      /\ rows'[id'].summary = rows[id'].summary
      /\ rows'[id'].status \in {rows[id'].status, "running"}
  <2>1. CASE rows' = [rows EXCEPT ![id + 1].status = "running"]
    BY <1>1, <2>1 DEF ScanInv, ScanOK, RowsOK, Status
  <2>2. CASE UNCHANGED rows
    BY <1>1, <2>2 DEF ScanInv, ScanOK, RowsOK
  <2>3. QED
    BY <2>1, <2>2 DEF Begin
<1>3. RunOK' /\ FlagsOK'
  <2>1. RunOK'
    BY <1>1, ScanConstants DEF ScanInv, ScanOK, RunOK, Work
  <2>2. FlagsOK'
    BY <1>1 DEF ScanInv, ScanOK, FlagsOK
  <2>3. QED
    BY <2>1, <2>2
<1>4. PostingsOK'
  BY <1>1 DEF ScanInv, ScanOK, PostingsOK, HistoryFile
<1>5. ReportInv'
  BY <1>1, <1>2, ScanConstants DEF ScanInv, ScanOK, RunOK, ReportInv, Work
<1>6. SeenInv' /\ MergeInv'
  BY <1>1 DEF ScanInv, ScanOK, SeenInv, MergeInv
<1>7. RowsClosed'
  BY <1>1, <1>2 DEF ScanInv, ScanOK, RunOK, RowsClosed
<1>8. ReportsOwn'
  BY <1>1, <1>2 DEF ScanInv, ScanOK, RunOK, ReportsOwn, ReportInv
<1>9. QED
  BY <1>2, <1>3, <1>4, <1>5, <1>6, <1>7, <1>8 DEF ScanInv, ScanOK

LEMMA CollectStep ==
  ASSUME ScanInv, Collect
  PROVE  ScanInv'
<1>1. PICK ok \in SUBSET Company, found \in SUBSET Url :
        /\ records' = [u \in found |-> Lifecycle(u)]
        /\ \E kept \in Newest(Merged(ok, found)) : merged' = [u \in kept |-> Merged(ok, found)[u]]
        /\ gone' = {u \in DOMAIN history \ found : ListedBy[u] \in ok \/ NamesOther(u)}
  BY DEF Collect, Listings, OnePerKey
<1> PICK kept \in Newest(Merged(ok, found)) : merged' = [u \in kept |-> Merged(ok, found)[u]]
  BY <1>1
<1>2. /\ stage = "collect" /\ stage' = "history" /\ big' \in BOOLEAN
      /\ UNCHANGED <<holder, id, marker, raised, rows, history, seen, report, reading, now, trimmed, killed, interrupted>>
  BY DEF Collect, FileAfter, files, past
<1>3. RunOK' /\ FlagsOK' /\ RowsOK'
  <2>1. RunOK'
    BY <1>2 DEF ScanInv, ScanOK, RunOK, Work
  <2>2. FlagsOK' /\ RowsOK'
    BY <1>2 DEF ScanInv, ScanOK, FlagsOK, RowsOK
  <2>3. QED
    BY <2>1, <2>2
<1>4. PostingsOK'
  <2>1. HistoryFile(merged)'
    BY <1>1, MergedType DEF ScanInv, ScanOK, HistoryFile
  <2>2. \A u \in DOMAIN records' : records'[u] \in Life \ {"removed"}
    BY <1>1 DEF Lifecycle, Life
  <2>3. QED
    BY <1>1, <1>2, <2>1, <2>2 DEF ScanInv, ScanOK, PostingsOK, HistoryFile
<1>5. ReportInv'
  BY <1>2 DEF ScanInv, ReportInv, Work
<1>6. SeenInv'
  <2>1. \A u \in DOMAIN records' : records'[u] = "new" => u \notin DOMAIN history
    BY <1>1 DEF Lifecycle
  <2>2. QED
    BY <1>2, <2>1 DEF ScanInv, SeenInv
<1>7. MergeInv'
  <2>1. DOMAIN merged' = kept /\ kept \subseteq DOMAIN history \cup found
    BY <1>1, MergedType DEF ScanInv, ScanOK
  <2>2. \A u \in kept : merged'[u] = Merged(ok, found)[u]
    BY <1>1
  <2>3. QED
    BY <1>1, <1>2, <2>1, <2>2, MergedSays DEF ScanInv, ScanOK, MergeInv
<1>8. RowsClosed' /\ ReportsOwn'
  BY <1>2 DEF ScanInv, RowsClosed, ReportsOwn
<1>9. QED
  BY <1>3, <1>4, <1>5, <1>6, <1>7, <1>8 DEF ScanInv, ScanOK

LEMMA WriteHistoryStep ==
  ASSUME ScanInv, WriteHistory
  PROVE  ScanInv'
<1>1. /\ stage = "history" /\ stage' = "seen" /\ history' = merged
      /\ trimmed' = (trimmed \cup DOMAIN history \cup DOMAIN records) \ DOMAIN merged
      /\ UNCHANGED <<holder, id, marker, raised, big, records, merged, gone, rows, seen, report,
                     reading, now, killed, interrupted>>
  BY DEF WriteHistory, Advance, FileAfter
<1>2. RunOK' /\ FlagsOK' /\ RowsOK'
  <2>1. RunOK'
    BY <1>1 DEF ScanInv, ScanOK, RunOK, Work
  <2>2. FlagsOK' /\ RowsOK'
    BY <1>1 DEF ScanInv, ScanOK, FlagsOK, RowsOK
  <2>3. QED
    BY <2>1, <2>2
<1>3. PostingsOK'
  BY <1>1 DEF ScanInv, ScanOK, PostingsOK, HistoryFile
<1>4. ReportInv'
  BY <1>1 DEF ScanInv, ReportInv, Work
<1>5. SeenInv' /\ MergeInv'
  BY <1>1 DEF ScanInv, SeenInv, MergeInv
<1>6. RowsClosed' /\ ReportsOwn'
  BY <1>1 DEF ScanInv, RowsClosed, ReportsOwn
<1>7. QED
  BY <1>2, <1>3, <1>4, <1>5, <1>6 DEF ScanInv, ScanOK

LEMMA WriteSeenStep ==
  ASSUME ScanInv, WriteSeen
  PROVE  ScanInv'
<1>1. /\ stage = "seen" /\ stage' = "report" /\ seen' = seen \cup DOMAIN records
      /\ Unmerge
      /\ UNCHANGED <<holder, id, marker, raised, big, rows, history, report, reading, now, trimmed, killed, interrupted>>
  BY DEF WriteSeen, Advance, FileAfter, past
<1>2. RunOK' /\ FlagsOK' /\ RowsOK'
  <2>1. RunOK'
    BY <1>1 DEF ScanInv, ScanOK, RunOK, Work
  <2>2. FlagsOK' /\ RowsOK'
    BY <1>1 DEF ScanInv, ScanOK, FlagsOK, RowsOK
  <2>3. QED
    BY <2>1, <2>2
<1>3. PostingsOK'
  BY <1>1, UnmergeType DEF ScanInv, ScanOK, PostingsOK, HistoryFile
<1>4. ReportInv'
  BY <1>1 DEF ScanInv, ReportInv, Work
<1>5. SeenInv' /\ MergeInv'
  BY <1>1 DEF ScanInv, SeenInv, MergeInv
<1>6. RowsClosed' /\ ReportsOwn'
  BY <1>1 DEF ScanInv, RowsClosed, ReportsOwn
<1>7. QED
  BY <1>2, <1>3, <1>4, <1>5, <1>6 DEF ScanInv, ScanOK

LEMMA WriteReportStep ==
  ASSUME ScanInv, WriteReport
  PROVE  ScanInv'
<1>1. /\ stage = "report" /\ stage' = "close" /\ report' = id
      /\ UNCHANGED <<holder, id, marker, raised, big, records, merged, gone, rows, history, seen,
                     reading, now, trimmed, killed, interrupted>>
  BY DEF WriteReport, data, past
<1>2. RunOK' /\ FlagsOK' /\ RowsOK'
  <2>1. RunOK'
    BY <1>1 DEF ScanInv, ScanOK, RunOK, Work
  <2>2. FlagsOK' /\ RowsOK'
    BY <1>1 DEF ScanInv, ScanOK, FlagsOK, RowsOK
  <2>3. QED
    BY <2>1, <2>2
<1>3. PostingsOK'
  BY <1>1 DEF ScanInv, ScanOK, PostingsOK, HistoryFile
<1>4. ReportInv'
  BY <1>1 DEF ScanInv, ScanOK, RunOK, ReportInv, Work
<1>5. SeenInv' /\ MergeInv' /\ RowsClosed'
  BY <1>1 DEF ScanInv, SeenInv, MergeInv, RowsClosed
<1>6. ReportsOwn'
  BY <1>1 DEF ScanInv, ScanOK, RunOK, ReportsOwn, ReportInv
<1>7. QED
  BY <1>2, <1>3, <1>4, <1>5, <1>6 DEF ScanInv, ScanOK

LEMMA RaiseStep ==
  ASSUME ScanInv, Raise
  PROVE  ScanInv'
<1>1. /\ stage \in Work /\ stage' = "close" /\ raised' = TRUE /\ big' = FALSE /\ Unmerge
      /\ UNCHANGED <<holder, id, marker, rows, history, seen, report, reading, now, trimmed, killed, interrupted>>
  BY DEF Raise, Forget, files, past
<1>2. RunOK' /\ FlagsOK' /\ RowsOK'
  <2>1. RunOK'
    BY <1>1 DEF ScanInv, ScanOK, RunOK
  <2>2. FlagsOK' /\ RowsOK'
    BY <1>1 DEF ScanInv, ScanOK, FlagsOK, RowsOK
  <2>3. QED
    BY <2>1, <2>2
<1>3. PostingsOK'
  BY <1>1, UnmergeType DEF ScanInv, ScanOK, PostingsOK, HistoryFile
<1>4. ReportInv'
  BY <1>1 DEF ScanInv, ReportInv, Work
<1>5. SeenInv' /\ MergeInv' /\ RowsClosed' /\ ReportsOwn'
  BY <1>1 DEF ScanInv, SeenInv, MergeInv, RowsClosed, ReportsOwn, Work
<1>6. QED
  BY <1>2, <1>3, <1>4, <1>5 DEF ScanInv, ScanOK

LEMMA InterruptStep ==
  ASSUME ScanInv, Interrupt
  PROVE  ScanInv'
<1>1. /\ stage \in Work \cup {"close"} /\ ~raised /\ stage' = "close" /\ raised' = TRUE
      /\ big' = FALSE /\ Unmerge /\ interrupted' = interrupted \cup {id}
      /\ UNCHANGED <<holder, id, marker, rows, history, seen, report, reading, now, trimmed, killed>>
  BY DEF Interrupt, Forget, files
<1>2. stage # "off" /\ id \in 1..MaxScans
  <2>1. stage # "off"
    BY <1>1 DEF Work
  <2>2. QED
    BY <2>1 DEF ScanInv, ScanOK, RunOK, ReportInv
<1>3. RunOK' /\ FlagsOK' /\ RowsOK'
  <2>1. RunOK'
    BY <1>1, <1>2 DEF ScanInv, ScanOK, RunOK
  <2>2. FlagsOK' /\ RowsOK'
    BY <1>1 DEF ScanInv, ScanOK, FlagsOK, RowsOK
  <2>3. QED
    BY <2>1, <2>2
<1>4. PostingsOK'
  BY <1>1, UnmergeType DEF ScanInv, ScanOK, PostingsOK, HistoryFile
<1>5. ReportInv'
  BY <1>1, <1>2 DEF ScanInv, ReportInv, Work
<1>6. SeenInv' /\ MergeInv' /\ RowsClosed' /\ ReportsOwn'
  BY <1>1, <1>2 DEF ScanInv, SeenInv, MergeInv, RowsClosed, ReportsOwn
<1>7. QED
  BY <1>3, <1>4, <1>5, <1>6 DEF ScanInv, ScanOK

\* A row that is closed gets the status of its run and its own report, or none.
LEMMA CloseRowStep ==
  ASSUME ScanInv, stage = "close", CloseRow
  PROVE  /\ RowsOK' /\ UNCHANGED killed
         /\ \A i \in 1..MaxScans : i # id => rows'[i] = rows[i]
         /\ rows'[id].summary \in {0, id} /\ rows'[id].status \in {"completed", "failed"}
         /\ rows'[id].status = "completed" /\ id \notin interrupted => rows'[id].summary = id
<1>1. id \in 1..MaxScans /\ report \in 0..MaxScans /\ marker < id /\ report \in {marker, id}
  BY DEF ScanInv, ScanOK, RunOK, ReportInv
<1>2. FreshReport \in {0, id} /\ (FinalStatus = "completed" /\ id \notin interrupted => FreshReport = id)
  BY <1>1 DEF ScanInv, ScanOK, RunOK, ReportInv, FreshReport, FinalStatus
<1>3. FinalStatus \in {"completed", "failed"}
  BY DEF FinalStatus
<1>4. rows' = [rows EXCEPT ![id] = [status |-> FinalStatus, summary |-> FreshReport]] /\ UNCHANGED killed
  BY DEF CloseRow
<1>5. RowsOK'
  <2>1. FinalStatus \in Status /\ FreshReport \in 0..MaxScans
    BY <1>1, <1>2, <1>3, ScanConstants DEF Status
  <2>2. [status |-> FinalStatus, summary |-> FreshReport] \in [status : Status, summary : 0..MaxScans]
    BY <2>1
  <2>3. QED
    BY <1>1, <1>4, <2>2 DEF ScanInv, ScanOK, RowsOK
<1>6. rows'[id] = [status |-> FinalStatus, summary |-> FreshReport]
  BY <1>1, <1>4 DEF ScanInv, ScanOK, RowsOK
<1>7. \A i \in 1..MaxScans : i # id => rows'[i] = rows[i]
  BY <1>1, <1>4 DEF ScanInv, ScanOK, RowsOK
<1>8. QED
  BY <1>2, <1>3, <1>4, <1>5, <1>6, <1>7

LEMMA CloseStep ==
  ASSUME ScanInv, Close
  PROVE  ScanInv'
<1>1. /\ stage = "close" /\ stage' = "off" /\ marker' = 0 /\ big' = FALSE /\ Unmerge
      /\ UNCHANGED <<id, history, seen, report, now, trimmed, interrupted>>
  BY DEF Close, Forget, files
<1>2. PICK failed \in BOOLEAN :
        /\ \/ CloseRow /\ failed = raised
           \/ NoRow /\ failed = raised /\ UNCHANGED <<rows, killed>>
           \/ CloseRowFails /\ failed
        /\ IF holder = "panel"
           THEN holder' = None /\ reading' = AfterScan(failed) /\ raised' = FALSE
           ELSE raised' = failed /\ UNCHANGED <<holder, reading>>
  BY DEF Close
<1>3. /\ id \in 1..MaxScans /\ report \in 0..MaxScans /\ report <= id
      /\ ~failed => report = id
  BY <1>1, <1>2 DEF ScanInv, ScanOK, RunOK, ReportInv
<1>4. holder' \in {"panel", "schedule", None} /\ reading' \in {reading, 0, id}
      /\ (reading' = reading \/ reading' <= report)
  BY <1>2, <1>3 DEF ScanInv, ScanOK, RunOK, AfterScan
<1>5. /\ RowsOK' /\ killed' \in {killed, killed \cup {id}}
      /\ \A i \in 1..MaxScans : i # id => rows'[i] = rows[i]
      /\ rows'[id].summary \in {0, id}
      /\ rows'[id].status = "completed" /\ id \notin interrupted => rows'[id].summary = id
      /\ rows'[id].status = "running" => id \in killed'
  <2>1. CASE CloseRow
    BY <1>1, <2>1, CloseRowStep
  <2>2. CASE NoRow /\ UNCHANGED <<rows, killed>>
    BY <1>3, <2>2 DEF ScanInv, ScanOK, RowsOK, NoRow, ReportsOwn
  <2>3. CASE CloseRowFails
    BY <1>3, <2>3 DEF ScanInv, ScanOK, RowsOK, CloseRowFails, ReportsOwn
  <2>4. QED
    BY <1>2, <2>1, <2>2, <2>3
<1>6. RunOK' /\ FlagsOK'
  <2>1. RunOK'
    BY <1>1, <1>3, <1>4, <1>5, ScanConstants DEF ScanInv, ScanOK, RunOK
  <2>2. FlagsOK'
    BY <1>1, <1>2 DEF FlagsOK
  <2>3. QED
    BY <2>1, <2>2
<1>7. PostingsOK'
  BY <1>1, UnmergeType DEF ScanInv, ScanOK, PostingsOK, HistoryFile
<1>8. ReportInv'
  BY <1>1, <1>3, <1>4, <1>5 DEF ScanInv, ScanOK, RunOK, ReportInv, Work
<1>9. SeenInv' /\ MergeInv'
  BY <1>1 DEF ScanInv, SeenInv, MergeInv
<1>10. RowsClosed'
  BY <1>1, <1>3, <1>5 DEF ScanInv, RowsClosed
<1>11. ReportsOwn'
  BY <1>1, <1>3, <1>4, <1>5 DEF ScanInv, ReportsOwn
<1>12. QED
  BY <1>5, <1>6, <1>7, <1>8, <1>9, <1>10, <1>11 DEF ScanInv, ScanOK

\* The scanning process dies, and whoever waits for it goes on.
LEMMA KillStep ==
  ASSUME ScanInv, Kill, holder' \in {"panel", "schedule", None}, raised' \in BOOLEAN
  PROVE  ScanInv'
<1>1. /\ stage # "off" /\ stage' = "off" /\ marker' = 0 /\ big' = FALSE /\ Unmerge
      /\ killed' = killed \cup {id}
      /\ UNCHANGED <<id, rows, history, seen, report, reading, now, trimmed, interrupted>>
  BY DEF Kill, Forget, files
<1>2. id \in 1..MaxScans
  BY <1>1 DEF ScanInv, ScanOK, RunOK, ReportInv
<1>3. RunOK' /\ FlagsOK' /\ RowsOK'
  <2>1. RunOK'
    BY <1>1, <1>2, ScanConstants DEF ScanInv, ScanOK, RunOK
  <2>2. FlagsOK' /\ RowsOK'
    BY <1>1 DEF ScanInv, ScanOK, FlagsOK, RowsOK
  <2>3. QED
    BY <2>1, <2>2
<1>4. PostingsOK'
  BY <1>1, UnmergeType DEF ScanInv, ScanOK, PostingsOK, HistoryFile
<1>5. ReportInv' /\ SeenInv' /\ MergeInv'
  BY <1>1 DEF ScanInv, ReportInv, SeenInv, MergeInv, Work
<1>6. RowsClosed' /\ ReportsOwn'
  BY <1>1 DEF ScanInv, RowsClosed, ReportsOwn
<1>7. QED
  BY <1>3, <1>4, <1>5, <1>6 DEF ScanInv, ScanOK

LEMMA ScanStep ==
  ASSUME ScanInv, Step \/ PanelScan \/ PanelKilled \/ TaskReads
  PROVE  ScanInv'
<1>1. CASE PanelScan
  BY <1>1, BeginStep DEF PanelScan
<1>2. CASE PanelKilled
  BY <1>2, KillStep DEF PanelKilled
<1>3. CASE TaskReads
  <2>1. RunOK
    BY DEF ScanInv, ScanOK
  <2>2. QED
    BY <1>3, <2>1, IdleStep DEF TaskReads, live, RunOK
<1>4. QED
  BY <1>1, <1>2, <1>3, CollectStep, WriteHistoryStep, WriteSeenStep, WriteReportStep, RaiseStep,
     InterruptStep, CloseStep DEF Step

\* The loop aims at moments of the schedule it knows.
LEMMA AimAt ==
  ASSUME IInv, NEW s \in Schedule, s.on,
         known' = s, loop' = "poll", now' = now, target' = NextRun(s, now), owed' = {}
  PROVE  target' \in (0..MaxNow + 2) \cup {None} /\ TargetInv' /\ MomentsKept'
<1>1. now \in 0..MaxNow /\ now \in Nat
  BY ScanConstants DEF IInv, ScanInv, ScanOK, RunOK
<1>2. target' \in 0..MaxNow + 2
  <2>1. NextRun(s, now) \in (now + 1)..(now + 2)
    BY <1>1, NextRunFirst
  <2>2. MaxNow \in Nat
    BY ScanConstants
  <2>3. QED
    BY <1>1, <2>1, <2>2
<1>3. TargetInv' /\ MomentsKept'
  <2>1. target' % 2 = s.at /\ \A n \in (now + 1)..(target' - 1) : n % 2 # s.at
    BY <1>1, NextRunFirst
  <2>2. target' # None
    BY <1>1, NextRunFirst, NoneOK
  <2>3. TargetInv'
    BY <2>1, <2>2 DEF TargetInv
  <2>4. QED
    BY <2>3 DEF MomentsKept
<1>4. QED
  BY <1>2, <1>3

\* The loop finishes a run: ScanInv is left to the step it is part of.
LEMMA FinishStep ==
  ASSUME IInv, Finish, loop # "poll", now' = now
  PROVE  LoopInv' /\ holder' = None /\ raised' = FALSE
<1>1. known \in Schedule /\ known.on /\ owed = {} /\ ScheduleOK
  BY DEF IInv, LoopInv, TargetInv
<1>2. target' \in (0..MaxNow + 2) \cup {None} /\ TargetInv' /\ MomentsKept'
  BY <1>1, AimAt DEF Finish
<1>3. ScheduleOK'
  BY <1>1, <1>2, ScheduleConstants DEF ScheduleOK, Finish, schedule
<1>4. QED
  BY <1>2, <1>3 DEF LoopInv, Finish

LEMMA ServeStep ==
  ASSUME IInv, Reload \/ SkipBusy \/ TakeLock \/ Launch \/ ChildExits
  PROVE  IInv'
<1>1. /\ ScanInv /\ ScheduleOK /\ TargetInv /\ MomentsKept
      /\ holder \in {"panel", "schedule", None} /\ now \in 0..MaxNow
  BY DEF IInv, LoopInv, ScanInv, ScanOK, RunOK
<1>2. CASE Reload
  <2>1. /\ prefs \in Schedule /\ loop = "poll" /\ loop' = "poll" /\ known' = prefs /\ now' = now
        /\ owed' = {}
    BY <1>1, <1>2 DEF Reload, Loaded, ScheduleOK, scanVars
  <2>2. target' = IF prefs.on THEN NextRun(prefs, now) ELSE None
    BY <1>2 DEF Reload, Aim
  <2>3. target' \in (0..MaxNow + 2) \cup {None} /\ TargetInv' /\ MomentsKept'
    <3>1. CASE prefs.on
      BY <2>1, <2>2, <3>1, AimAt
    <3>2. CASE ~prefs.on
      BY <2>1, <2>2, <3>2 DEF TargetInv, MomentsKept
    <3>3. QED
      BY <3>1, <3>2
  <2>4. ScheduleOK'
    BY <1>1, <1>2, <2>1, <2>3 DEF ScheduleOK, Reload, schedule
  <2>5. ScanInv'
    BY <1>1, <1>2, IdleStep DEF Reload, scanVars, live
  <2>6. QED
    BY <2>3, <2>4, <2>5 DEF IInv, LoopInv
<1>3. CASE SkipBusy
  <2>1. /\ prefs \in Schedule /\ loop = "poll" /\ loop' = "poll" /\ known' = prefs /\ now' = now
        /\ prefs.on /\ owed' = {}
    BY <1>1, <1>3 DEF SkipBusy, Loaded, Due, ScheduleOK, scanVars
  <2>2. target' \in (0..MaxNow + 2) \cup {None} /\ TargetInv' /\ MomentsKept'
    BY <1>3, <2>1, AimAt DEF SkipBusy
  <2>3. ScheduleOK'
    BY <1>1, <1>3, <2>1, <2>2 DEF ScheduleOK, SkipBusy, schedule
  <2>4. ScanInv'
    BY <1>1, <1>3, IdleStep DEF SkipBusy, scanVars, live
  <2>5. QED
    BY <2>2, <2>3, <2>4 DEF IInv, LoopInv
<1>4. CASE TakeLock
  <2>1. /\ prefs \in Schedule /\ loop' = "launch" /\ known' = prefs /\ holder' = "schedule" /\ attempt' = 0
        /\ prefs.on /\ owed' = {}
    BY <1>1, <1>4 DEF TakeLock, Loaded, Due, ScheduleOK
  <2>2. target' \in (0..MaxNow + 2) \cup {None}
    <3>1. target' \in {target, NextRun(prefs, now), None}
      BY <1>4 DEF TakeLock, Aim
    <3>2. NextRun(prefs, now) \in 0..MaxNow + 2
      BY <1>1, <2>1, NextRunFirst, ScanConstants
    <3>3. QED
      BY <1>1, <3>1, <3>2 DEF ScheduleOK
  <2>3. ScheduleOK' /\ TargetInv' /\ MomentsKept'
    BY <1>1, <1>4, <2>1, <2>2, ScheduleConstants DEF ScheduleOK, TargetInv, MomentsKept, TakeLock, schedule
  <2>4. ScanInv'
    BY <1>1, <1>4, <2>1, IdleStep DEF TakeLock, live
  <2>5. QED
    BY <2>3, <2>4 DEF IInv, LoopInv
<1>5. CASE Launch
  <2>1. loop = "launch" /\ loop' = "wait" /\ UNCHANGED <<prefs, edits, known, target, attempt, owed>>
    BY <1>5 DEF Launch, schedule
  <2>2. ScheduleOK' /\ TargetInv' /\ MomentsKept'
    BY <1>1, <2>1 DEF ScheduleOK, TargetInv, MomentsKept
  <2>3. ScanInv'
    BY <1>1, <1>5, BeginStep DEF Launch
  <2>4. QED
    BY <2>2, <2>3 DEF IInv, LoopInv
<1>6. CASE ChildExits
  <2>1. CASE raised /\ attempt < Retries
    <3>1. /\ loop = "wait" /\ loop' = "launch" /\ attempt' = attempt + 1
          /\ UNCHANGED <<scanVars, prefs, edits, known, target, owed>>
      BY <1>6, <2>1 DEF ChildExits, schedule
    <3>2. ScheduleOK' /\ TargetInv' /\ MomentsKept'
      BY <1>1, <2>1, <3>1, ScheduleConstants DEF ScheduleOK, TargetInv, MomentsKept
    <3>3. ScanInv'
      BY <1>1, <3>1, IdleStep DEF scanVars, live
    <3>4. QED
      BY <3>2, <3>3 DEF IInv, LoopInv
  <2>2. CASE ~(raised /\ attempt < Retries)
    <3>1. /\ loop = "wait" /\ stage = "off" /\ Finish
          /\ UNCHANGED <<stage, id, marker, data, rows, files, reading, now, past>>
      BY <1>6, <2>2 DEF ChildExits
    <3>2. LoopInv' /\ holder' = None /\ raised' = FALSE
      BY <3>1, FinishStep
    <3>3. ScanInv'
      BY <1>1, <3>1, <3>2, IdleStep
    <3>4. QED
      BY <3>2, <3>3 DEF IInv
  <2>3. QED
    BY <2>1, <2>2
<1>7. QED
  BY <1>2, <1>3, <1>4, <1>5, <1>6

LEMMA OutsideStep ==
  ASSUME IInv, ChildTimesOut \/ ChildDies \/ Restart \/ Edit \/ Tick
  PROVE  IInv'
<1>1. /\ ScanInv /\ ScheduleOK /\ TargetInv /\ MomentsKept
      /\ holder \in {"panel", "schedule", None} /\ now \in 0..MaxNow
  BY DEF IInv, LoopInv, ScanInv, ScanOK, RunOK
<1>2. CASE ChildTimesOut
  <2>1. LoopInv' /\ holder' = None /\ raised' = FALSE
    BY <1>2, FinishStep DEF ChildTimesOut, Kill
  <2>2. ScanInv'
    BY <1>1, <1>2, <2>1, KillStep DEF ChildTimesOut
  <2>3. QED
    BY <2>1, <2>2 DEF IInv
<1>3. CASE ChildDies
  <2>1. ScanInv'
    BY <1>1, <1>3, KillStep DEF ChildDies
  <2>2. loop = "wait" /\ UNCHANGED <<prefs, edits, loop, known, target, attempt, owed>>
    BY <1>3 DEF ChildDies, schedule, service
  <2>3. ScheduleOK' /\ TargetInv' /\ MomentsKept'
    <3>1. now' = now
      BY <1>3 DEF ChildDies, Kill
    <3>2. QED
      BY <1>1, <2>2, <3>1 DEF ScheduleOK, TargetInv, MomentsKept
  <2>4. QED
    BY <2>1, <2>3 DEF IInv, LoopInv
<1>4. CASE Restart
  <2>1. /\ loop' = "poll" /\ known' = None /\ target' = None /\ attempt' = 0 /\ owed' = {}
        /\ UNCHANGED <<prefs, edits>>
    BY <1>4 DEF Restart, schedule
  <2>2. ScheduleOK' /\ TargetInv' /\ MomentsKept'
    BY <1>1, <2>1, ScheduleConstants DEF ScheduleOK, TargetInv, MomentsKept
  <2>3. ScanInv'
    <3>1. CASE holder = "schedule" /\ stage # "off"
      BY <1>1, <1>4, <3>1, KillStep DEF Restart
    <3>2. CASE holder = "schedule" /\ stage = "off"
      BY <1>1, <1>4, <3>2, IdleStep DEF Restart
    <3>3. CASE holder # "schedule"
      BY <1>1, <1>4, <3>3, IdleStep DEF Restart, scanVars, live
    <3>4. QED
      BY <3>1, <3>2, <3>3
  <2>4. QED
    BY <2>2, <2>3 DEF IInv, LoopInv
<1>5. CASE Edit
  <2>1. prefs' \in Schedule \cup {Broken} /\ edits' = edits + 1 /\ edits < MaxEdits
        /\ UNCHANGED <<scanVars, loop, known, target, attempt, owed>>
    BY <1>5 DEF Edit, service
  <2>2. ScheduleOK' /\ TargetInv' /\ MomentsKept'
    <3>1. now' = now
      BY <2>1 DEF scanVars
    <3>2. QED
      BY <1>1, <2>1, <3>1, ScheduleConstants DEF ScheduleOK, TargetInv, MomentsKept
  <2>3. ScanInv'
    BY <1>1, <2>1, IdleStep DEF scanVars, live
  <2>4. QED
    BY <2>2, <2>3 DEF IInv, LoopInv
<1>6. CASE Tick
  <2>1. /\ now' = now + 1 /\ now' \in 0..MaxNow
        /\ owed' = IF Waiting /\ (now + 1) % 2 = known.at THEN owed \cup {now + 1} ELSE owed
        /\ UNCHANGED <<prefs, edits, loop, known, target, attempt>>
    BY <1>1, <1>6, ScanConstants DEF Tick, schedule
  <2>2. ScheduleOK'
    BY <1>1, <2>1 DEF ScheduleOK
  <2>3. target # None => target \in Nat
    BY <1>1, ScanConstants DEF ScheduleOK
  <2>4. TargetInv'
    BY <1>1, <2>1, <2>3 DEF TargetInv, Waiting
  <2>5. MomentsKept'
    <3>1. SUFFICES ASSUME loop = "poll", NEW m \in owed'
                   PROVE  target # None /\ target <= m /\ m <= now'
      BY <2>1 DEF MomentsKept
    <3>2. CASE m \in owed
      BY <1>1, <2>1, <3>1, <3>2 DEF MomentsKept, ScheduleOK
    <3>3. CASE m \notin owed
      <4>1. m = now + 1 /\ Waiting /\ (now + 1) % 2 = known.at
        BY <2>1, <3>3
      <4>2. known # None /\ known.on
        BY <1>1, <4>1, NoneOK DEF Waiting, ScheduleOK
      <4>3. target # None /\ target \in Nat
        BY <1>1, <2>3, <3>1, <4>2 DEF TargetInv
      <4>4. now + 1 \notin (now + 1)..(target - 1)
        BY <1>1, <3>1, <4>1, <4>3 DEF TargetInv
      <4>5. QED
        BY <1>1, <2>1, <4>1, <4>3, <4>4
    <3>4. QED
      BY <3>2, <3>3
  <2>6. ScanInv'
    BY <1>1, <1>6, <2>1, IdleStep DEF Tick, live
  <2>7. QED
    BY <2>2, <2>4, <2>5, <2>6 DEF IInv, LoopInv
<1>7. QED
  BY <1>2, <1>3, <1>4, <1>5, <1>6

\* IInv holds in every reachable state of ScanSchedule.
THEOREM Invariance == Spec => []IInv
<1>1. IInv /\ [Next]_vars => IInv'
  <2> SUFFICES ASSUME IInv, [Next]_vars PROVE IInv'
    OBVIOUS
  <2>1. CASE Scan
    <3>1. ScanInv' /\ UNCHANGED <<prefs, edits, loop, known, target, attempt, owed>>
      BY <2>1, ScanStep DEF Scan, IInv, schedule, service
    <3>2. now' = now
      BY <2>1 DEF Scan, Step, Collect, WriteHistory, WriteSeen, WriteReport, Raise, Interrupt, Close, PanelScan,
         Begin, PanelKilled, Kill, TaskReads
    <3>3. LoopInv'
      BY <3>1, <3>2 DEF IInv, LoopInv, ScheduleOK, TargetInv, MomentsKept
    <3>4. QED
      BY <3>1, <3>3 DEF IInv
  <2>2. CASE UNCHANGED vars
    BY <2>2 DEF vars, scanVars, live, data, files, past, schedule, service, IInv, LoopInv, ScanInv,
       ScanOK, RunOK, FlagsOK, RowsOK, PostingsOK, HistoryFile, ScheduleOK, TargetInv, MomentsKept, ReportInv,
       SeenInv, MergeInv, RowsClosed, ReportsOwn
  <2>3. QED
    BY <2>1, <2>2, ServeStep, OutsideStep DEF Next, Serve
<1>2. QED
  BY <1>1, InitIInv, PTL DEF Spec

--------------------------------------------------------------------------------
(* What follows.                                                           *)

\* Every variable keeps its type: run numbers, files within the history limit,
\* targets at most a day ahead.
THEOREM TypeCorrect == Spec => []TypeOK
<1>1. IInv => TypeOK
  BY DEF IInv, LoopInv, ScanInv, TypeOK
<1>2. QED
  BY <1>1, Invariance, PTL

\* execute_scan leaves no row behind as running, however it ends.
THEOREM RowsTheorem == Spec => []RowsClosed
<1>1. IInv => RowsClosed
  BY DEF IInv, ScanInv
<1>2. QED
  BY <1>1, Invariance, PTL

\* No run is given the report of another, and one that completed without having
\* been interrupted has its own; no task returns an older one than its own.
THEOREM ReportsTheorem == Spec => []ReportsOwn
<1>1. IInv => ReportsOwn
  BY DEF IInv, ScanInv
<1>2. QED
  BY <1>1, Invariance, PTL

\* What is announced as new has not been seen, or was cut out of the history.
THEOREM NewTheorem == Spec => []NewIsNew
<1>1. IInv => NewIsNew
  BY DEF IInv, ScanInv, SeenInv, NewIsNew
<1>2. QED
  BY <1>1, Invariance, PTL

\* A moment the schedule loop was waiting for when it came stays due until a round
\* answers it, the file changes or the loop is restarted.
THEOREM MomentsTheorem == Spec => []MomentsKept
<1>1. IInv => MomentsKept
  BY DEF IInv, LoopInv
<1>2. QED
  BY <1>1, Invariance, PTL

\* Every step keeps first_seen, and marks removed only what it has reason to.
THEOREM HistoryTheorem == Spec => HistoryFaithful
<1> DEFINE Faithful ==
      \A u \in DOMAIN history' :
        /\ u \in DOMAIN history => history'[u].first = history[u].first
        /\ history'[u].life = "removed" =>
             u \in gone \/ (u \in DOMAIN history /\ history[u].life = "removed")
<1>1. IInv /\ [Next]_vars => [Faithful]_vars
  <2> SUFFICES ASSUME IInv, Next PROVE Faithful
    OBVIOUS
  <2>1. CASE WriteHistory
    BY <2>1 DEF WriteHistory, IInv, ScanInv, MergeInv
  <2>2. CASE ~WriteHistory
    <3>1. history' = history
      BY <2>2 DEF Next, Scan, Step, Collect, WriteSeen, WriteReport, Raise, Interrupt, Close, PanelScan,
         PanelKilled, Kill, TaskReads, Serve, Reload, SkipBusy, TakeLock, Launch, Begin, ChildExits,
         ChildTimesOut, ChildDies, Restart, Edit, Tick, scanVars, files
    <3>2. QED
      BY <3>1
  <2>3. QED
    BY <2>1, <2>2
<1>2. QED
  BY <1>1, Invariance, PTL DEF Spec, HistoryFaithful

================================================================================

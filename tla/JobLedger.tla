------------------------------- MODULE JobLedger -------------------------------
(***************************************************************************)
(* What the tables jobs, job_snapshots and job_sources promise to whoever  *)
(* reads them between two transactions (ADR 0002): a job is never removed  *)
(* and keeps the URL and the company it was found under, its descriptions  *)
(* stay auditable, and where it has appeared is not forgotten.  Nothing is *)
(* said of postings, sessions, rollbacks or of how a job is recognized.    *)
(***************************************************************************)
EXTENDS Naturals, SequencesExt

CONSTANT None

VARIABLES
  jobs,    \* a sequence of records, in the order of creation
  sources  \* where each job has appeared

Init == jobs = <<>> /\ sources = {}

\* The snapshots are the descriptions a job has had, each change once, the current
\* one last.
Told(job) ==
  /\ IF job.snapshots = <<>> THEN job.text = 0 ELSE Last(job.snapshots) = job.text
  /\ \A i \in 1..Len(job.snapshots) - 1 : job.snapshots[i] # job.snapshots[i + 1]

\* A job some time later.
Later(old, new) ==
  /\ new.url = old.url /\ new.company = old.company
  /\ old.location # None => new.location # None
  /\ IsPrefix(old.snapshots, new.snapshots)

\* An appearance of the same job under the same name and external id.
Same(r, s) == r.job = s.job /\ r.source = s.source /\ r.ext = s.ext

Commit ==
  /\ Len(jobs) <= Len(jobs')
  /\ \A j \in DOMAIN jobs : Later(jobs[j], jobs'[j])
  /\ \A j \in DOMAIN jobs' : Told(jobs'[j]) /\ \E s \in sources' : s.job = j
  /\ \A s \in sources : \E r \in sources' : Same(r, s)

Spec == Init /\ [][Commit]_<<jobs, sources>>

================================================================================

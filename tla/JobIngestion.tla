------------------------------ MODULE JobIngestion ------------------------------
(***************************************************************************)
(* From the postings a scan has collected to the jobs of the database:     *)
(* deduplicate_jobs, then JobIngestionService.ingest in batches, one       *)
(* session and one transaction each (scanner._persist_jobs).               *)
(*                                                                         *)
(* The sessions of Database have autoflush off.  A query selects rows by   *)
(* what has been flushed, and returns the objects in memory; what ingest   *)
(* changes after its last flush is invisible to the queries for the next   *)
(* posting.  So a session has two stores, the one in memory and the one    *)
(* its queries see.                                                        *)
(***************************************************************************)
EXTENDS Naturals, SequencesExt

CONSTANTS
  Posting,      \* what the connectors return: records of the fields below
  Similar,      \* pairs of texts with a similarity of at least 0.94
  None,         \* no external id, no location
  BatchSize,    \* AUTOPILOT_DB_INGEST_BATCH_SIZE
  MaxCollected, \* bound on the postings of one scan
  MaxScans,     \* bound on the scans
  MaxFaults     \* bound on sessions that fail and on crashes

\* A text is its number, 0 if there is none: equal texts have equal hashes, and
\* the larger number is the longer text.
ASSUME ConstantsOK ==
  /\ \A p \in Posting :
       /\ DOMAIN p = {"url", "source", "ext", "company", "title", "location", "text"}
       /\ p.text \in Nat
  /\ BatchSize \in Nat \ {0} /\ MaxCollected \in Nat /\ MaxScans \in Nat /\ MaxFaults \in Nat

VARIABLES
  collected, \* the postings of a scan, until their ingestion starts
  queue,     \* those still to be ingested
  db,        \* the database: companies, jobs in the order of creation, sources
  mem, seen, \* the store in memory, and as the queries of the session see it
  inBatch,   \* postings ingested in this session
  scans, faults,
  batch,     \* history: the postings ingested in this session
  known,     \* history: the postings ingested in sessions that have committed
  missed     \* history: a job was created next to one that matched before the last posting

store == <<db, mem, seen>>
vars == <<collected, queue, store, inBatch, scans, faults, batch, known, missed>>

Empty == [companies |-> {}, jobs |-> <<>>, sources |-> {}]

--------------------------------------------------------------------------------
(* deduplicate_jobs: acc.kept is by_url, an ordered dictionary.            *)

SemanticKey(p) == <<p.company, p.title, p.location>>
At(kept, url) == {i \in DOMAIN kept : kept[i].url = url}
WithKey(semantic, p) ==
  [k \in DOMAIN semantic \cup {SemanticKey(p)} |-> IF k = SemanticKey(p) THEN p.url ELSE semantic[k]]

\* Mutant: the entry of a shorter duplicate is dropped, the longer one is not put in.
DropShorter(acc, p) ==
  LET same == At(acc.kept, p.url)
      key == SemanticKey(p)
      twin == IF key \in DOMAIN acc.semantic THEN At(acc.kept, acc.semantic[key]) ELSE {}
  IN  IF same = {} /\ twin # {}
      THEN LET i == CHOOSE i \in twin : TRUE IN
           IF p.text > acc.kept[i].text THEN [acc EXCEPT !.kept = RemoveAt(@, i)] ELSE acc
      ELSE IF same # {} THEN acc
      ELSE [kept |-> Append(acc.kept, p), semantic |-> WithKey(acc.semantic, p)]

\* A posting of a known URL, or of a known company, title and location, is a
\* duplicate: the longer text stays.
DedupStep(acc, p) ==
  LET same == At(acc.kept, p.url)
      key == SemanticKey(p)
      twin == IF key \in DOMAIN acc.semantic THEN At(acc.kept, acc.semantic[key]) ELSE {}
  IN  IF same # {}
      THEN LET i == CHOOSE i \in same : TRUE IN
           IF p.text > acc.kept[i].text THEN [acc EXCEPT !.kept[i] = p] ELSE acc
      ELSE IF twin # {}
      THEN LET i == CHOOSE i \in twin : TRUE IN
           IF p.text > acc.kept[i].text
           THEN [kept |-> Append(RemoveAt(acc.kept, i), p), semantic |-> WithKey(acc.semantic, p)]
           ELSE acc
      ELSE [kept |-> Append(acc.kept, p), semantic |-> WithKey(acc.semantic, p)]

Dedup(postings) ==
  LET acc[i \in 0..Len(postings)] ==
        IF i = 0 THEN [kept |-> <<>>, semantic |-> <<>>] ELSE DedupStep(acc[i - 1], postings[i])
  IN  acc[Len(postings)].kept

--------------------------------------------------------------------------------
(* JobIngestionService                                                     *)

\* The four rules of _find_existing; q is what the queries see.
ByExternalId(p, q) ==
  {s.job : s \in {s \in q.sources : p.ext # None /\ s.source = p.source /\ s.ext = p.ext}}
ByUrl(p, q) == {j \in DOMAIN q.jobs : q.jobs[j].url = p.url}
ByText(p, q) ==
  {j \in DOMAIN q.jobs : p.text # 0 /\ q.jobs[j].company = p.company /\ q.jobs[j].text = p.text}
\* The title is compared by the query, the location on the object it returns.
ByPlace(p, q) ==
  {j \in DOMAIN q.jobs :
     /\ q.jobs[j].company = p.company /\ q.jobs[j].title = p.title
     /\ mem.jobs[j].location = p.location
     /\ \/ p.text = 0
        \/ q.jobs[j].snapshots # <<>> /\ <<Last(q.jobs[j].snapshots), p.text>> \in Similar}

FirstNonEmpty(sets) ==
  LET hits == {i \in DOMAIN sets : sets[i] # {}} IN
  IF hits = {} THEN {} ELSE sets[CHOOSE i \in hits : \A k \in hits : i <= k]

\* Mutant: the URL is tried before the external id.
UrlFirst(p, q) == FirstNonEmpty(<<ByUrl(p, q), ByExternalId(p, q), ByText(p, q), ByPlace(p, q)>>)
\* No query has an order: of several matches any may be taken.
Matches(p, q) == FirstNonEmpty(<<ByExternalId(p, q), ByUrl(p, q), ByText(p, q), ByPlace(p, q)>>)

\* Mutant: the source of a job that is there already is not recorded.
SourceIgnored(sources, j, p) ==
  IF \E s \in sources : s.job = j THEN sources
  ELSE sources \cup {[job |-> j, source |-> p.source, ext |-> p.ext, url |-> p.url]}
\* _upsert_source: by external id if there is one, by URL otherwise.
UpsertSource(sources, j, p) ==
  LET mine == {s \in sources : /\ s.job = j /\ s.source = p.source
                               /\ IF p.ext # None THEN s.ext = p.ext ELSE s.url = p.url}
  IN  IF mine = {}
      THEN sources \cup {[job |-> j, source |-> p.source, ext |-> p.ext, url |-> p.url]}
      ELSE (sources \ mine) \cup {[s EXCEPT !.url = p.url] : s \in mine}

\* Mutant: the first text a job gets is not kept as a snapshot.
FirstTextSkipped(old, p) == p.text # 0 /\ old # 0 /\ p.text # old
\* description_changed or not old_hash
NeedsSnapshot(old, p) == p.text # 0 /\ p.text # old

NewJob(p) == [url |-> p.url, company |-> p.company, title |-> p.title, location |-> p.location,
              text |-> p.text, snapshots |-> <<>>]

Updated(job, p) ==
  [job EXCEPT !.title = p.title,
              !.location = IF p.location # None THEN p.location ELSE @,
              !.text = IF p.text # 0 THEN p.text ELSE @,
              !.snapshots = IF NeedsSnapshot(job.text, p) THEN Append(@, p.text) ELSE @]

\* Mutant: _upsert_source leaves its flush to the commit.
SourceUnflushed(j, p) == [seen EXCEPT !.companies = mem.companies \cup {p.company},
                                      !.sources = UpsertSource(mem.sources, j, p)]
\* What the queries see after _upsert_source.
SourceFlushed(j, p) == [mem EXCEPT !.companies = @ \cup {p.company},
                                   !.sources = UpsertSource(@, j, p)]

\* Jobs the session holds changes of that its queries do not see.
Unflushed == {j \in DOMAIN seen.jobs : seen.jobs[j] # mem.jobs[j]}

\* get_or_create flushes when it creates the company; the new job is flushed
\* before its snapshot is added, an existing one before it is changed.
Ingest ==
  /\ queue # <<>> /\ inBatch < BatchSize
  /\ LET p == Head(queue)
         q == IF p.company \in mem.companies THEN seen ELSE mem
         found == Matches(p, q)
     IN
     /\ \/ /\ found = {}
           /\ LET j == Len(mem.jobs) + 1
                  jobs == Append(mem.jobs, NewJob(p))
              IN  seen' = [companies |-> mem.companies \cup {p.company}, jobs |-> jobs,
                           sources |-> UpsertSource(mem.sources, j, p)]
           /\ mem' = [seen' EXCEPT !.jobs[Len(seen'.jobs)].snapshots =
                        IF NeedsSnapshot(0, p) THEN <<p.text>> ELSE <<>>]
        \/ \E j \in found :
             /\ seen' = SourceFlushed(j, p)
             /\ mem' = [mem EXCEPT !.companies = seen'.companies, !.sources = seen'.sources,
                                   !.jobs[j] = Updated(@, p)]
     /\ missed' = (missed \/ (found = {} /\ Matches(p, mem) \ Unflushed # {}))
     /\ batch' = batch \cup {p}
  /\ queue' = Tail(queue)
  /\ collected' = <<>>
  /\ inBatch' = inBatch + 1
  /\ UNCHANGED <<db, scans, faults, known>>

--------------------------------------------------------------------------------
(* The scan                                                                *)

\* The connectors have answered.
Collect ==
  /\ queue = <<>> /\ inBatch = 0
  /\ scans < MaxScans
  /\ scans' = scans + 1
  /\ collected' \in BoundedSeq(Posting, MaxCollected)
  /\ queue' = Dedup(collected')
  /\ UNCHANGED <<store, inBatch, faults, batch, known, missed>>

\* Mutant: the commit does not write what has not been flushed.
CommitUnflushed ==
  /\ inBatch = BatchSize \/ (queue = <<>> /\ inBatch > 0)
  /\ db' = seen /\ seen' = mem
  /\ known' = known \cup batch /\ batch' = {}
  /\ inBatch' = 0
  /\ UNCHANGED <<collected, queue, mem, scans, faults, missed>>

\* The session of a slice ends: commit, and a new session for the next one.
Commit ==
  /\ inBatch = BatchSize \/ (queue = <<>> /\ inBatch > 0)
  /\ db' = mem /\ seen' = mem
  /\ known' = known \cup batch /\ batch' = {}
  /\ inBatch' = 0
  /\ UNCHANGED <<collected, queue, mem, scans, faults, missed>>

\* An error ends the scan or a crash the process: the slice is rolled back, the
\* slices before it stay.
Fail ==
  /\ queue # <<>> \/ inBatch > 0
  /\ faults < MaxFaults
  /\ faults' = faults + 1
  /\ mem' = db /\ seen' = db
  /\ collected' = <<>> /\ queue' = <<>> /\ inBatch' = 0 /\ batch' = {}
  /\ UNCHANGED <<db, scans, known, missed>>

Init ==
  /\ collected = <<>> /\ queue = <<>>
  /\ db = Empty /\ mem = Empty /\ seen = Empty
  /\ inBatch = 0 /\ scans = 0 /\ faults = 0
  /\ batch = {} /\ known = {} /\ missed = FALSE

Next == Collect \/ Ingest \/ Commit \/ Fail

Spec == Init /\ [][Next]_vars

--------------------------------------------------------------------------------
(* Properties                                                              *)

Of(field) == {p[field] : p \in Posting}
Job == [url : Of("url"), company : Of("company"), title : Of("title"),
        location : Of("location"), text : Of("text") \cup {0}, snapshots : Seq(Of("text"))]
JobSource == [job : Nat, source : Of("source"), ext : Of("ext"), url : Of("url")]

StoreOK(s) ==
  /\ s \in [companies : SUBSET Of("company"), jobs : Seq(Job), sources : SUBSET JobSource]
  /\ \A j \in DOMAIN s.jobs : s.jobs[j].company \in s.companies
  /\ \A r \in s.sources : r.job \in DOMAIN s.jobs

\* Types; every job has its company and every source its job (the foreign keys
\* of models.py), in each of the three stores.
TypeOK ==
  /\ \A s \in {db, mem, seen} : StoreOK(s)
  /\ collected \in Seq(Posting) /\ queue \in Seq(Posting)
  /\ inBatch \in 0..BatchSize /\ scans \in 0..MaxScans /\ faults \in 0..MaxFaults
  /\ batch \subseteq Posting /\ known \subseteq Posting /\ missed \in BOOLEAN
  /\ inBatch = 0 => mem = db /\ seen = db

\* No flush of a session can meet a unique key: no two jobs of one canonical URL,
\* no two sources of one name and external id (models.py), though a posting may
\* match one job by its external id and another by its URL.
UniqueKeys ==
  /\ \A i, j \in DOMAIN mem.jobs : mem.jobs[i].url = mem.jobs[j].url => i = j
  /\ \A r, s \in mem.sources :
       r.ext # None /\ r.source = s.source /\ r.ext = s.ext => r = s

Ledger == INSTANCE JobLedger WITH jobs <- db.jobs, sources <- db.sources

\* Whatever the postings of a batch mix up, and wherever a batch fails, the database
\* moves as the ledger of ADR 0002 does: a commit removes no job and no source, moves
\* no source to another job, leaves the canonical URL of a job to its first posting
\* ("nao substituirao silenciosamente a URL oficial") and only adds to its snapshots,
\* which tell every description it has had ("alteracoes de descricao continuam
\* auditaveis").
KeepsLedger == Ledger!Spec

\* A posting with an external id that was persisted once is never taken for a new
\* job again, whatever other postings have made of its job since.
KnownAgain ==
  \A p \in known : p.ext # None => ByExternalId(p, seen) # {}

\* What the queries of a session miss is at most what the last posting has
\* changed: one job, and never a source, a company or a job as such.  So a second
\* job is created only next to the job the posting before has touched (ADR 0002
\* knows no such exception).
StaleByOne ==
  /\ seen.sources = mem.sources /\ seen.companies = mem.companies
  /\ DOMAIN seen.jobs = DOMAIN mem.jobs
  /\ \A i, j \in Unflushed : i = j
  /\ ~missed

Linked(p, r) == p.url = r.url \/ SemanticKey(p) = SemanticKey(r)

\* No posting of S is linked to one of C but not in it.
ClosedIn(C, S) == \A p \in S, r \in C : Linked(p, r) => p \in C

\* deduplicate_jobs keeps one URL once, and drops a posting only if it is linked
\* to one that stays by a chain of equal URLs or equal company, title, location:
\* whatever holds those that stay and all that are linked holds every posting.
DedupCovers ==
  LET all == ToSet(collected) IN
  collected # <<>> =>
    /\ ToSet(queue) \subseteq all
    /\ \A C \in SUBSET all : ToSet(queue) \subseteq C /\ ClosedIn(C, all) => C = all
    /\ \A i, j \in DOMAIN queue : queue[i].url = queue[j].url => i = j

================================================================================

# TLA+ model of buscadorvagas

TLA+ modules, TLC configurations and TLAPS proofs for the Python program under
`src/job_hunt`: a local job-search agent with a FastAPI panel, a command line
and a scheduler that share SQLite and a few JSON files.

## 1. The system

Three kinds of processes run at once (`compose.yaml`): the panel, the scheduler
in a container of its own, and commands a user starts. They share the SQLite
database (WAL mode, 60 s busy timeout), the JSON files of `state/` and
`config/`, `companies.json`, and the lock file `state/scan.lock`.

| Component | State | Operations | What is hard |
|---|---|---|---|
| Task manager `web/tasks.py` | rows of `web_tasks`, `_threads`, recurring coordinator | submit, execute, cancel, recover, shutdown | a session is a read and a later write; the guard covers submit only; crashes, retries, thread starts |
| Scan lock `scheduler.py`, `operations.py` | one file, a heartbeat thread, a child process | acquire, touch, release, run the scan child | every call names a path, not a file; liveness by lease or pid; suspended owners |
| Scanner `scanner.py` | four JSON files, reports | collect, deduplicate, score, mark lifecycle, write | order of the writes, crash in between, merge by URL and by title |
| Ingestion `persistence/job_ingestion.py` | jobs, sources, snapshots | match, update, insert | `autoflush=False`: what a query sees of the same batch; four match rules against three unique keys |
| Portal catalog `portal_catalog.py` | `portal_catalog.json`, `companies.json` | import batch, status | two files, a batch of minutes between read and write, retry after a failure |
| Company and preference files `web/application_services.py`, `state_store.py` | JSON files | read, change, replace | no lock; in-place writes on bind mounts |
| Discovery `discovery.py`, OpenClaw bridge `openclaw_bridge.py` | proposals, alerts, inbox files | save, approve, reject, process | approval changes two stores; inbox files delivered twice |
| Resume versions `resume_import` | versions with approved and active | create, edit, validate, approve, activate, delete | at most one active, approved content |
| Documents `documents/generator.py`, `web/application_services.py` | numbered files and rows | package, studio helper, edit, delete | two ways to number, files written long before their rows |
| Applications `applications.py`, learning `learning.py` | application rows and events, answers, dispositions, semantic index | change status, answer, publish, refresh | allowed transitions and reopening on a stale read; one row for all answers; two index files |
| LLM `llm/router.py`, `ollama.py`, analysis `analysis/*` | semaphores, attempts | chat, embed, review | permits across retries and errors, fallback to the deterministic score |
| HTTP `http_client.py` | slot and clock per host, cache | get | redirects, retries, validation and rate limit together |
| Everything else | none of its own | parsing, rendering, settings | |

### What makes each component correct

* Task manager: one open task per exclusive type; a record is active as long as
  a thread will settle it; what has ended stays ended; nothing that is not
  cancel-safe is interrupted; the catalog queue is served.
* Scan lock: one scan at a time; an owner that runs and beats keeps its lease; an
  abandoned lock is recovered.
* Scan: a run row does not stay "running" after its run, and its summary is its
  own; a source that is down marks nothing removed; a scan that dies between two
  files announces nothing twice.
* Schedule: a moment the loop has waited for is answered, by a scan or by a skip
  because another scan holds the lock.
* Ingestion: no unique key is violated, snapshots record each change, a posting
  with an external id is known again.
* Catalog: an activated entry has a company and a company has one entry; a
  failed batch can be repeated; writers do not undo each other.
* Resume versions: at most one active version, and it is approved as it stands.
* Documents: the file a row names is what the call of that row has written.
* Applications: the events tell how the application came to its status.
* Research inbox: a receipt claims nothing that was not saved, and a batch does
  not leave the inbox without one.
* Learning: an answer that was given stays; the description of the semantic
  index is of an index that was made.
* Model: a permit is held exactly as long as a request is under way.
* HTTP: every request, redirected or retried, goes to a host that was validated
  (what the name stands for may have changed since), and clients keep their
  distance on each host.

## 2. Modules

| Module | Models | Role |
|---|---|---|
| `TaskLedger` | the promise of `web_tasks` | abstract specification |
| `TaskManager` | `web/tasks.py` and its callers in `web/app.py` | detailed specification, implements `TaskLedger` |
| `ScanLock` | `ScanLock`, `execute_scan`, the scan child of the scheduler | detailed specification |
| `ScanRun` | `operations.execute_scan` around `scanner.run_scan`, the connectors' answers | one tracked scan and the files it leaves |
| `ScanSchedule` | `scheduler.serve_schedule_file`, the scan task of the panel | the schedule loop over `ScanRun` |
| `CompanyRegistry` | `companies.json` and its writers: `CompanyConfigService`, approval of proposals, `import_and_activate`; `state_store.py` | detailed specification |
| `JobLedger` | the promise of ADR 0002 about `jobs`, `job_snapshots`, `job_sources` | abstract specification |
| `JobIngestion` | `deduplicate_jobs`, `_persist_jobs`, `JobIngestionService` | detailed specification, implements `JobLedger`; pure deduplication against a reference |
| `PanelThreads` | threads of the panel and the calls they are in | base of the next seven |
| `ResumeVersions` | `resume_import/versions.py` and its API | component |
| `GeneratedDocuments` | `documents/generator.py`, `LocalDocumentStudio`, editing and deletion in the panel | component, over `ResumeVersions` |
| `ApplicationPipeline` | `applications.py` | component |
| `ResearchInbox` | inbox and receipts of `openclaw_bridge.py`, proposals of `discovery.py` | component |
| `SemanticMemory` | `learning.py`, the context and the index of `openclaw_bridge.py` | component, over `ResearchInbox` |
| `OllamaCalls` | `ollama.py`, `llm/router.py`, the review of `analysis/` | component |
| `HttpClient` | `http_client.py` | component |
| `Panel` | the process of the panel | composes the seven, adds the crash |
| `TaskManagerProofs`, `ScanScheduleProofs`, `ScanLockProofs`, `CompanyRegistryProofs`, `JobIngestionProofs`, `PanelProofs`, `PanelDocumentProofs`, `LeastElements` | | theorems and the lemmas they share |
| `MCTaskManager`, `MCScanLock`, `MCScanSchedule`, `MCCompanyRegistry`, `MCJobIngestion`, `MCPanel` | | small instances |

### TaskManager

One session of SQLAlchemy is `session.get`, Python, `commit`. pysqlite opens its
transaction at the first write, so the read is outside of it, and the ORM
updates a column only if its value differs from the one it read. A session is
therefore two actions, a read that keeps what it saw (`seen`, `client.read`,
`subRead`, `coordRead`) and a commit that writes through `Flush`.

| Code | Actions |
|---|---|
| `_execute` | `MarkRunningRead`, `MarkRunningCommit`, `HandlerReturns`, `HandlerRaises`, `CheckpointCancels`, `CloseRead`, `CloseCommit`, `PopThread` |
| exhausted `_retry_locked` | `MarkRunningLocked`, `CloseLocked`, `SubmitLocked`, `CancelLocked`, `MarkOrphanedLocked` |
| `submit` under the guard | `SubmitRead` (by `ClientSubmit` or `RecurringSubmit`), `SubmitCommit` |
| `cancel` | `CancelRead`, `CancelCommit` |
| `start_recurring_until_complete` | `EnsureRecurring` |
| `_run_recurring` | `RecurringPrevious`, `RecurringProbe`, `MarkOrphanedRead`, `MarkOrphanedCommit`, `ContinueActive`, `ContinuePending`, `RecurringSubmit`, `RecurringConflict`, `RecurringReturns`, `RecurringStops` |
| `recover_interrupted`, `create_app` | `Boot` |
| `shutdown`, a kill | `Shutdown`, `Exit`, `Crash` |

A retry that succeeds is a later read and commit, so only its exhaustion is an
action. An import batch is one step, when its handler returns: it may add the
upstream entries and settles at least one entry if any is pending. Progress and
messages are left out. `should_continue` looks at the ten newest imports in the
code and at all of them here. `touched`, `orphaned` and `promised` are history
variables the properties read.

### ScanLock

Every call on the file system is an action. The file has a creator, a payload
or none yet, and an age; `Tick` advances it. `replaced` remembers contenders
whose file has gone since they looked at it, which is how a property can say
that an unlink hit another file than the one judged. Panel and CLI scan
themselves (`ScanEnds`), the scheduler scans in a child (`Launch`, `ChildFails`,
`ChildEnds`) that can outlive it (`Crash`, `OrphanEnds`).

| Code | Actions |
|---|---|
| `acquire` | `Request`, `Create`, `Stat`, `Judge`, `Unlink`, `Write` |
| the heartbeat thread | `BeatRead`, `BeatTouch` |
| `release` | `ReleaseRead`, `ReleaseUnlink` |
| a call of the file system that fails | `BeatFails`, `JudgeUnread`, `CallFails` |

Any of these calls may fail (`MaxErrors`). A payload that cannot be read counts
until it is stale. An unlink in `acquire` is tried again; a payload that cannot
be written, or a release that fails, leaves the file. An error of the heartbeat
is the one that matters most: the thread returns, and the owner scans on without
it. `lapsed` remembers the owners this has befallen and those that have been
suspended; they are the only ones that may lose their lease (`LeaseKept`). A file
that a failed release has left blocks the contenders of its host as long as its
process lives, who take it for an owner: `LockRecovered` leaves it out.

`Prompt` is the one assumption on speed: a process that is not suspended writes its payload, makes
a due heartbeat and releases within a tick. A suspended process is exempt.
Times are scaled to one tick per heartbeat, `Beat < Lease <= Stale`; the code
has 5, 30 and 7800 seconds.

### CompanyRegistry

A writer is a thread with a request. `Load` is `load_json_state` and the checks
of the operation; `Replace` is `os.replace`; `Copy`, `Truncate` and `Write` are
the fallback for a file that is a mount point of its own (`inPlace`), as
`companies.json` is in `compose.yaml`. No lock spans them, so any other thread
may come in between. A truncated or torn file is loaded as an empty list.

| Code | Actions |
|---|---|
| companies API, `CompanyConfigService` | `Add`, `Update`, `Delete`, `Duplicate`, then `Load` and the file steps |
| `atomic_write_json` | `Replace`, or `Copy`, `Truncate`, `Write`; `WriteFails` |
| approve and reject | `Approve`, `ApproveCommit`, `RejectRead`, `RejectCommit`, `DecisionFails` |
| `save_suggestions` | `Suggest` |
| `import_and_activate` | `ImportRead`, `ImportKeys`, `ImportEntry`, the file steps, `ImportSave`, `ImportFails` |

A company is a value with a name and a site; the list is a bag, since two equal
records may exist. A request refused for its content may end at `Load`, after
the file is read. `invalid`, `disabled` and `linked_existing` entries of the
catalog are one status, `inactive`: no later step tells them apart. What the
manifests offer is any set of entries not in the catalog yet (`Candidates`), and
the check of a portal any `Verdict`. There is one batch at a time;
`tasks_one_batch` shows when the panel runs two. `confirmed`,
`imported`, `added`, `overlapped` and `cut` are history variables.

### JobIngestion

`Collect` is a scan whose connectors have answered: any short sequence of
postings, deduplicated by `Dedup`, the loop of `DedupStep` as a recursive
function. `Ingest` is one call of `ingest`, `Commit` the end of a session of
`_persist_jobs`, `Fail` an error or a crash. A session has two stores, `mem`
(the objects) and `seen` (what its queries select by), because autoflush is off:
only the creation of a company, of a job and of a source flush. `Matches` is
`_find_existing`, the first rule that hits. A text stands for its hash and its
length, `Similar` for the similarity of two texts. Names, titles and URLs are
taken as normalized. The latest snapshot is the one ingested last: the postings
of one job are taken to be collected in the order they are ingested. Scans
exclude each other here; `scan_lock_overlap` shows when they do not. The
decision `ingest` returns is left out, and so is the status `closed`, which no
code sets. The refinement `KeepsLedger` reads the tables of the database alone:
a commit is a step of `JobLedger`, a posting that is only in the session and a
batch that fails are stutters. The ledger says what ADR 0002 promises: no job or
appearance goes, the canonical URL is not replaced by that of a secondary
source, and the snapshots of a job tell every description it has had.
`DedupCovers` is stated by closure: a set of the postings that holds those kept,
and all postings linked to one in it, holds every posting.

### ScanRun and ScanSchedule

A scan is a `stage`: it collects, writes `job_history.json`, `seen_jobs.json` and
the report, and closes its row. Between any two it may raise or be killed.

| Code | Actions |
|---|---|
| `execute_scan`, before | `PanelScan` or `Launch`, both `Begin` |
| `run_scan`: connectors, `deduplicate_jobs`, `_apply_lifecycle` | `Collect` |
| `run_scan`: the files | `WriteHistory`, `WriteSeen`, `WriteReport`, in the order of `FileAfter`; `Raise` |
| `execute_scan`, an interrupt | `Interrupt` |
| `execute_scan`, after | `Close` by `CloseRow`, `CloseRowFails` or `NoRow` |
| scan task of the panel | `TaskReads` |
| `serve_schedule_file` | `Reload`, `SkipBusy`, `TakeLock` |
| `run_scheduled_once` | `Launch`, `ChildExits`, `ChildTimesOut`, `ChildDies` |
| kills and restarts | `PanelKilled`, `ChildDies`, `Restart` |
| preferences | `Edit` |

What is online is chosen afresh at each `Collect`, and `Answers` says what each
kind of connector may return of it: a board as a whole or, if the answer has an
odd shape, an empty board that counts as a success (Greenhouse, Ashby,
Workable); a list or a failure (Lever); the first `PageLimit` of 100, or none
(SmartRecruiters); whatever static HTML shows. A connector that fails midway
contributes nothing. A page may name another hiring organization than the
company whose source it is: `CompanyOf` against `ListedBy`. Such a posting is
marked removed when the company it names answers, though its own source is down,
and never when only its own source answers; `HistoryFaithful` exempts exactly
these. `big` is a scan of more companies than a report can list
(`reports.py`, 500): it fails after its state files are written. Two ticks make
a day.

`execute_scan` catches `Exception` only. A `KeyboardInterrupt` of the scan child
goes past it to `finally`, where the status is still `completed`: the row of a run
that was interrupted says `completed`, with an empty report if it has written
none. `ReportsOwn` exempts the status of these rows (`interrupted`), not their
summary.

The loop does not scan at every moment of the schedule. A run that is due while
another scan holds the lock is skipped; moments that come while a scheduled run is
under way, while the loop is down, or before it has loaded a changed file are not
waited for. `owed` holds those that have come while it waited, and `MomentsKept`
says that only a round of the loop, a change of the file or a restart takes them
away. `gone`, `trimmed`, `killed`, `interrupted` and `owed` are history variables
(`interrupted` also stands for the kind of what was raised).

### The panel

A thread is idle or in one call, a record with what it has read so far
(`PanelThreads`). A session of the database is a read and a later commit, as in
`TaskManager`. Each component has its calls and its part of the state; `Panel`
lets any threads be in any calls, and kills the process between any two steps:
what is in memory goes, what is in the database and on disk stays.

| Component | Code | Actions |
|---|---|---|
| `ResumeVersions` | import, edit | `ImportResume`, `EditResume` |
| | approve, activate, delete | `ReadResume`, `CommitResume` |
| `GeneratedDocuments` | `DocumentApplicationService.generate`, `DocumentGenerator` | `StartPackage`, `NamePackage`, `WritePackage`, `Convert`, `SaveRows` |
| | `LocalDocumentStudio.generate` | `StartStudio`, the model, `NameStudio`, `WriteSingle`, `SaveRows` |
| | edit, delete | `StartEdit`, `WriteSingle`, `SaveRows`; `StartRemove`, `Unlink`, `RemoveRow` |
| | any failure | `DocumentFails` |
| `ApplicationPipeline` | `set_status` | `ReadStatus`, `SaveStatus` |
| `ResearchInbox` | the agent | `Drop` |
| | `process_inbox` | `TakeBatch`, `SaveSuggestions`, `WriteReceipt`, `MoveBatch`, `BridgeFails` |
| | discovery task, decisions | `Discover`, `SaveSuggestions`; `ReadProposal`, `DecideProposal` |
| `SemanticMemory` | answers, dispositions | `ReadAnswers`, `SaveAnswers`; `Dispose` |
| | `publish_context`, refresh of the index | `Publish`, `WriteContext`; `RefreshIndex`, the model, `WriteMemory`; `MemoryFails` |
| `OllamaCalls` | plain calls, reviews | `StartChat`, `StartReview` |
| | the client and the router | `TakePermit`, `PostAgain`, `PostEnds` |
| `HttpClient` | `get` | `StartGet`, `Validate`, `EnterSlot`, `LeaveSlot`, `SendAgain`, `Redirected`, `Answered` |
| | clear the cache | `ClearCache` |

What the modules say that is easy to miss in the code:

* `activate` deactivates all other versions by one UPDATE, and the ORM writes
  `active` of the version itself only if it was not active when it was loaded.
  So crossing requests can leave no active version at all, and a deletion can
  take a version that has been activated since: `OneActive` names both
  (`Crossing`), and holds again from the next activation on.
* A package is numbered by the larger of the manifests on disk plus one and the
  highest row plus one, the others by the highest row of their type plus one.
  Files are written first and the rows last, so two calls that overlap may write
  the same path. The one whose rows conflict is rolled back and leaves its files
  where the other's rows point. `FilesMatchRows` exempts these paths (`shared`)
  and those whose deletion ends between `unlink` and commit.
* Overlapping sessions can leave a terminal status that neither was allowed to
  leave. `EventsTell` says what remains true then.
* `accepted_as_pending` of a receipt counts the proposals that were there
  already. An IntegrityError ends the cycle of the bridge and the batch is tried
  again; any other OSError of a batch rejects it.
* All answers are one row: overlapping answers take each other back (`lost`).
* The index and its description are two files, written in this order. If the
  refresh ends between them, the description is of an older index, and context
  that returns to what it was then is taken for indexed (`torn`).
* Semaphores are found by address and maximum, so settings that differ in the
  maximum do not share one. A permit is kept through the pauses of the client.
* The cache is asked before the host is validated, by the address alone.
* A retry of the HTTP client takes no new slot and no new validation; a redirect
  takes both. The name is resolved when it is validated and again by httpx at each
  connect, which `security/urls.py` says it cannot prevent. `Renumber` lets a host
  change its addresses (`public`) at any time, and `moved` holds the threads whose
  host has changed since its validation: only their requests may go to a host that
  is not public (`PolicyKept`).
* Budgets, fallback models and the second reviewer are off: the configuration
  forces costs to 0 and the list of fallbacks to be empty, and sets no reviewer.
  The cache of analyses is not wired in the program.

Several properties of the panel exempt what overlapping calls, or a call that
broke off, have done, and name it by a history variable: `crossed` (`OneActive`),
`shared` (`FilesMatchRows`), `stale` (`EventsTell`), `lost` (`AnswersKept`), `torn`
(`IndexTold`), `moved` (`PolicyKept`). The overlaps do happen. What these
properties show is that nothing else breaks the promise, not that the code keeps
it under the overlap.

The bridge of the code publishes, works off the inbox, and refreshes the index.
The model lets the refresh follow any publication that came to its end, and
batches come in any order with both. Of the context files there are two, of the
jobs and the applications one. The recovery after a torn write in place, which
`CompanyRegistry` has, is left out for the index files.

## 3. Runs

| Run | Question | Instance | Result |
|---|---|---|---|
| `tasks_safety` | safety and refinement to `TaskLedger` | 3 tasks, one API thread and the coordinator, import and scan, 2 disturbances out of 2 faults, 2 cancels, 1 crash or shutdown | holds, 1.7 M states |
| `tasks_recurring` | does the coordinator drain the queue and settle every import | 5 tasks, 2 catalog entries, the coordinator and cancels | holds |
| `tasks_one_batch` | `docs/PUBLIC_PORTAL_CATALOG.md`: one batch at a time | one cancel | violated |
| `tasks_wakeup` | the queue is served when the import is requested by hand | no fault, no cancel | violated |
| `ingestion` | keys and matching over several scans, refinement to `JobLedger`; deduplication against its reference | 6 postings of 2 companies, 3 scans of up to 3, batches of 2, 1 failure | holds, 0.8 M states |
| `registry` | when can `companies.json` lose an operation; are both stores right | 3 companies (two share a name, two a site), 2 portals, 1 proposal, 1 API thread with 2 requests and the import, 1 failure or crash, file renamed or in place | holds, 3 M states |
| `registry_import` | `docs/PUBLIC_PORTAL_CATALOG.md`: the import never edits or removes a company | 1 request beside the import, no failure | violated |
| `scan_lock` | when can two scans overlap; is a lease kept | panel and CLI on one host, scheduler on another, one crash, suspension or failed call | holds, 4.2 M states |
| `scan_lock_recovery` | is the lock of a dead owner, or one without a payload, recovered | panel and scheduler, one crash, suspension or failed call | holds |
| `scan_lock_overlap` | `docs/WEB_INTERFACE.md`: the lock prevents simultaneous scans | one crash | violated |
| `scan_life` | do rows, reports, history, seen addresses and schedule stay consistent | 3 addresses of 2 companies, two of one opening and one that names the other company; Greenhouse, Lever or SmartRecruiters beside HTML; 2 runs, 1 retry, 1 kill, 1 edit, 3 ticks, limits of 1 | holds, 1.6 M states |
| `panel` | does each part of the panel keep its promise under any interleaving | 2 threads, 1 crash, 2 hosts of which one is public at first, 1 change of addresses; the calls of one workload | holds, 0.76 M states |

Why the bounds are enough. Two tasks of a type are the pair that exclusivity is
about, a third is the one submitted while one is orphaned. One API thread and
the coordinator are the two kinds of submitters; requests of several threads
are serialized by the guard, and their cancels race the worker, not each other,
except for what two cancels of one thread already show. A disturbance is what
opens a window, and two are enough for a fault inside a recovery. The lock needs
three contenders: an owner that dies and two that recover. One failure
(`MaxFaults`), of any kind, is what its properties must survive by themselves. The registry needs two
writers, since a torn file and a lost operation take two, two requests for an
update that makes a namesake and a delete of it, and two portals of one site for
a batch that fails and starts over. Staleness is between neighbours of a batch,
so batches of two show it; three scans let a job be matched, changed and met
again; three postings make the shortest chain of duplicates.

A scan needs a second one to find what the first left behind, and limits of 1
make the history and the report overflow at once. A kill may come between any
two writes; the clock and the edits stand still there (`Unhurried`), as the
writes take no time compared with them. Two ticks a day put a run before or after the
moment of the schedule.

A history of the panel belongs to one workload: parts that share no state are
not multiplied with each other, parts that do are together (documents with
resumes and the model, memory with the model and the bridge). Two threads are the
two that overlap. Calls are as many as the longest story takes: five for
resumes (import, approve, activate, and two that cross), five for memory
(context, refresh, new context, refresh, and an answer), four for applications
(into a terminal status, twice out of it, and on), three for documents,
proposals and the web. Three version numbers are what three calls can use. Of
the two hosts one is public at first, and one change of addresses (`MaxMoves`)
makes it private or the other public before, between or after two validations;
one caller allows both, another only the first.

Runs stop when all identifiers are used, hence `CHECK_DEADLOCK FALSE` for the
task runs; a lock run stops when no process wants to scan, an ingestion run and
`scan_life` after their last scan, `panel` after its last call. Registry runs
never stop.

### What the violations show

1. `tasks_one_batch`. `cancel()` reads `queued`; the worker commits `running`;
   the cancel commits `cancelled`. The import goes on, the exclusive query does
   not see it, and the next submit starts a second import. The user has been
   told "Cancelada antes de iniciar" of a task that runs. What is left of that
   promise is `CancelledInTimeNeverRuns`.
2. `tasks_wakeup`. The coordinator finds nothing pending and is about to return;
   an import is requested by hand, `ensure_automatic_catalog_import` finds the
   thread alive and returns; nobody works off what that import leaves pending.
   `tasks_recurring` therefore has no import requested by hand.
3. `scan_lock_overlap`. Two contenders find the same abandoned lock inactive. One
   unlinks it and creates its own; the other unlinks that one and creates a
   third; both scan.
4. `registry_import`. The import loads `companies.json`, a request of the panel
   replaces it, and the import renames its own list, without that request's
   change, into place.

ADR 0002 has a job created only if no rule matches, and knows no exception. The
code has one, which `StaleByOne` of `ingestion` bounds: the sessions have
autoflush off and a snapshot is added after the flush of its job, so a posting
can get a job of its own beside the job of the posting right before it.

`OverlapExplained` of `scan_lock` says that the third is one of only three ways:
the others are an owner that has lost its lease, after a suspension or when an
error has ended its heartbeat, and a child that outlives its scheduler.
`LossExplained` of `registry` says that operations are lost only by overlapping
uses of the file or an in-place write that breaks off.

### Fairness

`FairSpec` of `TaskManager` assumes that a thread that can run does, that
handlers end (their network calls have timeouts), and that the container
restarts (`restart: unless-stopped`). It assumes nothing about users, faults or
crashes. `FairSpec` of `ScanLock` assumes the same of processes, that a
suspended process comes back, that time passes, and that the scheduler asks for
the lock again and again (`serve_schedule`). Strong fairness is used where an
action is enabled again and again between suspensions and heartbeats: the end
of a scan, of the child, and the clock.

## 4. Proofs

`TaskManagerProofs` proves, for any tasks, clients, types and bounds that meet
`ConstantsOK`: `TypeOK`, `ExclusiveUnlessCancelled`, `ActiveMeansOwned`,
`UnsafeNeverInterrupted`, `CancelledInTimeNeverRuns`, `OnlyDeadTasksReclaimed`,
`EndedStaysEnded` and the refinement `KeepsLedger`.

None of them is inductive. The invariant is `IInv`: an identifier that is not in
use has no thread and no history (`AbsentInv`); nothing runs while the panel is
down (`DownInv`); what an open session has read is what the record still says
unless a cancel touched the task (`ThreadInv`, `CoordInv`, `SubmitInv`); a task
with a thread that will settle it is active (`OwnerInv`, `ActiveMeansOwned`);
an open cancel was decided on a state its task had (`CancelInv`); a promise of
"cancelled" made in time is kept by the record until the thread ends
(`PromiseInv`); and at most one untouched record of an exclusive type is active,
not counting the one submit is about to fail (`ExclusiveInv`). The last two
carry the argument: `submit` may insert because the guard keeps other submits
out, and no other action makes a record active. There is one lemma per process
that takes steps (`ExecuteStep`, `SubmitReadStep`, `SubmitEndStep`,
`RequestStep`, `RecurringStep`, `ProcessStep`), with one step per action and one
leaf per conjunct; `Invariance` combines them. The action properties and the
refinement follow step by step from `IInv` (`RecordSteps`, `Phases`).

`ScanScheduleProofs` proves every property of `scan_life`, for any postings,
companies, connectors, limits and bounds that meet `ScanConstants`,
`OnlyPagesName` and `ScheduleConstants`. `IInv` is `ScanInv` and `LoopInv`.
`ReportInv` follows the report: a scan that is under way has written the one on
disk if and only if it has passed that stage, so the closing code can tell its
own by the marker. `SeenInv` has every address noted as seen in the history, or
cut out of it, which is what the order of the writes is for. `MergeInv` says of
the history about to be written what `HistoryFaithful` asks of a step.
`TargetInv` keeps the target the first moment of the schedule known, whatever
the file says by now, so that every moment the loop has waited for is at or after
it, and it has come: `MomentsKept`. A summary is the run's own by the marker, also
when the run was interrupted; what an interrupt takes away is that a completed run
has one.

The panel is proved component by component, for any threads, workloads and
constants that meet the named assumptions of the modules. The lemma `Frames` of
`PanelProofs` says what the steps of one component leave of the calls of another:
they stay `Within` their operations or `Ask` the model, so a component `Keeps`
the calls of the others. With it each component has an invariant of its own, and one
lemma for its own steps, one for those of the others and the crash:

| Theorem | Property | Invariant, beyond the property |
|---|---|---|
| `ActiveTheorem` | `OneActive` | `ResumeInv`: active rows are approved and approved rows valid; what a call has read still allows it, or its row is gone |
| `FilesTheorem` | `FilesMatchRows` | `DocInv`: a path in two hands, or in a hand and in a row, is `shared` (`PairInv`, `HeldRows`); a call finds what it has written (`WrittenInv`); types and versions name one row (`DocRows`) |
| `EventsTheorem` | `EventsTell` | `PipelineInv`: an open session was allowed its change of the status it has read; an application without a row has no events |
| `ReceiptsTheorem` | `ReceiptsTrue` | `InboxInv`: the pages of a batch past its session have proposals; with `OneBridge`, one cycle at a time |
| `AnswersTheorem`, `IndexTheorem` | `AnswersKept`, `IndexTold` | `MemoryInv`: a refresh that has written its index describes it |
| `PermitsTheorem` | `PermitsHeld` | `PermitsInv` |
| `PolicyTheorem` | `PolicyKept` | `HttpInv`: a host's lock is held by the one that sleeps for it, until a moment that keeps the distance from the last slot; `FreshInv`: the host of a call past its validation is public, or has changed since |

`FilesMatchRows` needs the most: two calls that overlap are compared through the
paths they have in hand, from the choice of the version to the end of the
session, and the conflict of unique keys is what keeps a second row off a path.
`NextVersion` is a choice, which exists because rows have a largest version;
`LeastElements` has the fact about natural numbers this rests on.

`TypeTheorem` (`TypeOK`) comes last, since the types of a table rest on what the
calls that fill it have read: `CountsOK` for the bounds, `ContextTypes`,
`WebTypes` and `PathTypes` for the content, hosts and paths in calls, beside the
invariants of the table.

`ScanLockProofs`: `TypeOK`, `LeaseKept`, `OverlapExplained`, for any processes,
hosts, lease and heartbeat that meet `ConstantsOK`. `OwnerInv` says of a file
whose creator lives where that process stands: it has created and not yet
removed it, has written its payload if it scans, and beats unless it has lapsed.
`LeaseInv` says that the file of an owner that has not lapsed is at most one
heartbeat old, and that whoever looked at this very file has seen that; so it is
not judged inactive, not even by one that cannot read the payload, which is
`LeaseKept`. The failures and suspensions of all the others do not matter to it. `MutexInv` is the converse: unless a race or an expired lease has
taken it, every owner is the one the file names, and a contender about to unlink
the file it judged finds one of a dead process. Two owners would then be named by
one file.

`CompanyRegistryProofs`: `TypeOK`, `LossExplained`, `Recoverable`,
`DecisionsBacked`, `NoTwins`, for any companies, portals, proposals and clients.
A list is compared copy by copy (`Copies`), so the lemmas about `Changed` are
arithmetic. Without overlap one writer at a time is `InFile` (`FileInv`), and what
it holds is the promised list (`LossInv`) unless a write in place broke off; then
still every company that is in no copy of the file is there as often as was
promised (`RecoverInv`), because the copy is made before the truncation.
`DecisionInv` has the company of a decision written before the decision. `TwinInv`
has the sites of what the import has added among the keys it read at its
start, which is why an entry picked later cannot be a second of its site, while
the lists in the hands of other writers hold no more of them than the file.

`JobIngestionProofs`: `TypeOK`, `UniqueKeys`, `KnownAgain`, `StaleByOne`,
`DedupCovers`, the refinement `KeepsLedger` and `DedupReturns`, for any postings,
similarity, batch size and bounds. `StoresInv` and `RecordsInv` hold of the
database as of the session, so that a rollback finds them again. `SessionInv`
says what autoflush leaves: the queries see the companies, sources and URLs of
the session, and its jobs but for one; the rules that can miss are then those by
text and place, and only on that job. `LedgerInv` has the session as a growth of
the database (`Grown`), posting by posting and hence as a whole, so that its
commit is a step of the ledger. `DedupReturns` is about every list of postings:
the values of the recursive function are a run of the loop (`DedupRuns`), and
what each of its steps keeps is carried along the run by `LeastElements`, where
a first step that fails cannot exist, instead of by induction. Of a posting that
is dropped `DedupCovers` follows backwards from the last posting to the first.

Assumptions. Each module names what it assumes of its constants. Most are that
bounds are numbers and that sets that stand for different things are disjoint.
Those of `ScanLock` and `CompanyRegistry` tell a file from no file and a list from
a torn one, which are values of the model and of no process; `NoneOK` tells no time from a
time. Those that carry an
argument are the code's own: `Beat < Lease <= Stale` of the lock, the import as a
restartable, exclusive and cancel-safe type of task, that only connectors of
pages name another organization (`OnlyPagesName`), and that postings of one key
are of one company (`ScanConstants`).

Only model-checked: the liveness properties `BacklogDrains`, `ImportsSettle` and
`LockRecovered`. They need ENABLED, which the prover's backends do not offer. All
invariants, action properties and refinements that runs check are proved.

## 5. Plan

Parts of components that keep state and are not modelled yet: preferences and
settings files, LinkedIn alerts, the ranking refresh of `learning.py`, the
fallback writes of the index files, two import batches at once. With them come
whether the fallback writes keep `IndexTold`, and what two overlapping batches
leave of `NoTwins`.

An abstract lock with one owner, or a register per company, would not be
implemented: `scan_lock_overlap` and `registry_import` show the steps that are no
steps of theirs. `OverlapExplained` and `LossExplained` state instead how far the
code keeps such a promise; `confirmed` of `CompanyRegistry` is the register.

## 6. Not modelled

* Parsing and rendering: fields in the JSON and HTML of connectors, text of
  uploads, docx and pdf, HTML and JavaScript of the panel, salaries. They keep no
  state of their own.
* Cron expressions, weekdays and time zones: `ScanSchedule` has one moment a day.
* Keyword and location filters, weights and texts of the scoring: arithmetic
  over one posting.
* Page queries, exports and download tokens, request validation: nothing else
  reads what they make.
* The command line, but for its scans, which are contenders of `ScanLock`; its
  documents command writes to a directory of its own.
* Preferences and settings, written like `companies.json` but by single
  requests; LinkedIn alerts; the ranking refresh.
* The cache of `JobAnalyzer`, budgets and fallback models: not wired, or off by
  configuration.
* The MCP server, the notifier, migrations, diagnostics, metrics, logging.
* SQLite itself is a store of rows with atomic commits.

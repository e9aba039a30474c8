---------------------------- MODULE CompanyRegistry ----------------------------
(***************************************************************************)
(* companies.json and those who write it: the company pages of the panel   *)
(* (CompanyConfigService), the approval of discovery proposals, and the    *)
(* portal catalog import, whose catalog is a second file.                  *)
(*                                                                         *)
(* Every writer loads the file, changes the list in memory and replaces    *)
(* the file (state_store.py); no lock is held in between.  A directory     *)
(* allows an atomic rename.  A file that is a bind mount of its own, as    *)
(* companies.json is in compose.yaml, does not: it is copied, truncated    *)
(* and written in place.  Whoever reads it truncated takes it for corrupt  *)
(* and goes on with an empty list.                                         *)
(*                                                                         *)
(* The list is a bag: no property depends on its order.                    *)
(***************************************************************************)
EXTENDS Naturals, Bags, BagsExt

CONSTANTS
  Company,      \* records of companies.json
  Name, Site,   \* functions: company name, and careers URL or board token
  Initial,      \* the companies at the start
  Client,       \* threads serving API requests
  Importer,     \* the thread of the catalog import
  Entry,        \* portals of the public manifests, with a URL
  Proposal,     \* discovery proposals
  CompanyOf,    \* the company an entry or a proposal becomes
  Limit,        \* activation_limit
  Empty, Torn,  \* the file truncated, and with a list that cannot be parsed
  None,         \* no value
  MaxRequests,  \* bound on requests that change something
  MaxFaults     \* bound on crashes, failed writes and failed batches

ASSUME ConstantsOK ==
  /\ DOMAIN Name = Company /\ DOMAIN Site = Company
  /\ Initial \subseteq Company
  /\ Importer \notin Client
  /\ CompanyOf \in [Entry \cup Proposal -> Company]
  /\ None \notin Company \cup Entry \cup Proposal
  /\ \A S \in SUBSET Company : {Empty, Torn} \cap [S -> Nat \ {0}] = {}
  /\ Empty # Torn
  /\ Limit \in Nat \ {0} /\ MaxRequests \in Nat /\ MaxFaults \in Nat

VARIABLES
  inPlace,    \* companies.json is a bind mount of its own
  disk,       \* companies.json: a bag of companies, empty or torn
  saved,      \* companies held by some copy in state/config_backups
  catalog,    \* portal_catalog.json: status of each entry
  proposal,   \* portal_discovery_proposals.state
  at,         \* where a thread stands
  request,    \* what it is asked to do
  list,       \* the list it is about to write
  mem,        \* the catalog as the running import has it
  keys,       \* company_keys of the running import
  entry,      \* the entry it works on
  left,       \* compatible entries it may still validate
  requests, faults,
  confirmed,  \* history: the list the finished operations make, one after another
  imported,   \* history: companies the import has added and no user has touched since
  added,      \* history: companies ever added
  overlapped, \* history: a thread has loaded the file while another was replacing it
  cut         \* history: a broken-off write has left the file truncated

files == <<inPlace, disk, saved>>
threads == <<at, request, list>>
import == <<mem, keys, entry, left>>
bounds == <<requests, faults>>
history == <<confirmed, imported, added, overlapped, cut>>
vars == <<files, catalog, proposal, threads, import, bounds, history>>

Thread == Client \cup {Importer}
\* inactive: invalid, disabled, or linked_existing to a company that is there.
Status == {"absent", "pending_validation", "active", "inactive"}
InFile == {"replace", "copy", "truncate", "write"}
At == {"idle", "load", "commit", "reject", "keys", "pick"} \cup InFile

\* Remove `from`, add `to` (both: an update), or copy `of` under another name,
\* for the approval of `proposal`.
Request == [from : Company \cup {None}, to : Company \cup {None},
            of : Company \cup {None}, proposal : Proposal \cup {None}]
NoRequest == [from |-> None, to |-> None, of |-> None, proposal |-> None]

Names(B) == {Name[c] : c \in DOMAIN B}

\* Mutant: the import compares names only.
NameOnly(c) == {Name[c]}
KeysOf(c) == {Name[c], Site[c]}

\* Mutant: the company goes by its name, not by its identifier.
ChangedByName(B, from, to) ==
  LET kept == {c \in DOMAIN B : from = None \/ Name[c] # Name[from]}
      rest == [c \in kept |-> B[c]]
  IN  IF to = None THEN rest ELSE BagAdd(rest, to)
Changed(B, from, to) == IF to = None THEN BagRemove(B, from) ELSE BagAdd(BagRemove(B, from), to)

\* load_json_state: an unreadable file is an empty list.
Loaded == IF disk \in {Empty, Torn} THEN EmptyBag ELSE disk

Goto(t, where) == at' = [at EXCEPT ![t] = where]
SomeoneElse(t) == \E u \in Thread \ {t} : at[u] \in InFile
SpendFault == faults < MaxFaults /\ faults' = faults + 1
\* The batch leaves nothing in memory.
EndImport ==
  mem' = [e \in Entry |-> "absent"] /\ keys' = {} /\ entry' = None /\ left' = 0

--------------------------------------------------------------------------------
(* CompanyConfigService and atomic_write_json, by any thread.              *)

\* The companies the operation may put into the list B.  An operation without
\* one raises: the record to change is not there, or its name is taken.
Targets(r, B) ==
  CASE r.from # None -> IF r.from \in DOMAIN B THEN {r.to} ELSE {}
    [] r.of # None   -> IF r.of \in DOMAIN B
                        THEN {c \in Company : Site[c] = Site[r.of] /\ Name[c] \notin Names(B)}
                        ELSE {}
    [] OTHER         -> {r.to} \ {c \in Company : Name[c] \in Names(B)}

\* The operation has raised.  The import links the entry to the company that
\* is there already; a request is answered with the error.
RaisedActive(t) ==
  IF t = Importer
  THEN Goto(t, "pick") /\ mem' = [mem EXCEPT ![entry] = "active"] /\ entry' = None
  ELSE Goto(t, "idle") /\ UNCHANGED <<mem, entry>>
Raised(t) ==
  IF t = Importer
  THEN Goto(t, "pick") /\ mem' = [mem EXCEPT ![entry] = "inactive"] /\ entry' = None
  ELSE Goto(t, "idle") /\ UNCHANGED <<mem, entry>>

Load(t) ==
  /\ at[t] = "load"
  /\ overlapped' = (overlapped \/ SomeoneElse(t))
  /\ LET r == request[t] IN
     \/ \E to \in Targets(r, Loaded) :
          /\ list' = [list EXCEPT ![t] = Changed(Loaded, r.from, to)]
          /\ request' = [request EXCEPT ![t].to = to]
          /\ Goto(t, IF inPlace THEN "copy" ELSE "replace")
          /\ UNCHANGED <<mem, entry>>
     \/ \* _validated refuses the record, if nothing else is wrong
        /\ Targets(r, Loaded) = {} \/ (r.to # None /\ r.of = None)
        /\ request' = [request EXCEPT ![t] = NoRequest]
        /\ Raised(t)
        /\ UNCHANGED list
  /\ UNCHANGED <<files, catalog, proposal, keys, left, bounds, confirmed, imported, added, cut>>

\* Mutant: the request is not cleared.
RequestKept(t) ==
  /\ IF t = Importer
     THEN /\ mem' = [mem EXCEPT ![entry] = "active"] /\ entry' = None
          /\ keys' = keys \cup KeysOf(request[t].to)
          /\ imported' = imported \cup {request[t].to}
          /\ Goto(t, "pick")
     ELSE /\ imported' = imported \ {request[t].from, request[t].to}
          /\ Goto(t, IF request[t].proposal = None THEN "idle" ELSE "commit")
          /\ UNCHANGED <<mem, keys, entry>>
  /\ list' = [list EXCEPT ![t] = EmptyBag]
  /\ UNCHANGED <<request, confirmed, added>>

\* atomic_write_json returns.  The import marks the entry, approve goes on, and
\* any other request is answered.
Finished(t) ==
  LET r == request[t] IN
  /\ IF t = Importer
     THEN /\ mem' = [mem EXCEPT ![entry] = "active"] /\ entry' = None
          /\ keys' = keys \cup KeysOf(r.to)
          /\ imported' = imported \cup {r.to}
          /\ Goto(t, "pick")
     ELSE /\ imported' = imported \ {r.from, r.to}
          /\ Goto(t, IF r.proposal = None THEN "idle" ELSE "commit")
          /\ UNCHANGED <<mem, keys, entry>>
  /\ list' = [list EXCEPT ![t] = EmptyBag]
  /\ request' = [request EXCEPT ![t] = [NoRequest EXCEPT !.proposal = r.proposal]]
  /\ LET without == BagRemove(confirmed, r.from) IN
       confirmed' = IF r.to = None THEN without ELSE BagAdd(without, r.to)
  /\ added' = added \cup ({r.to} \ {None})

\* os.replace
Replace(t) ==
  /\ at[t] = "replace"
  /\ disk' = list[t]
  /\ Finished(t)
  /\ UNCHANGED <<inPlace, saved, catalog, proposal, left, bounds, overlapped, cut>>

\* Mutant: the fallback keeps no copy before it writes in place.
CopySkipped(t) ==
  /\ at[t] = "copy"
  /\ Goto(t, "truncate")
  /\ UNCHANGED <<files, catalog, proposal, request, list, import, bounds, history>>

\* os.replace fails with EBUSY: keep a copy, then rewrite the file in place.
Copy(t) ==
  /\ at[t] = "copy"
  /\ saved' = saved \cup DOMAIN Loaded
  /\ Goto(t, "truncate")
  /\ UNCHANGED <<inPlace, disk, catalog, proposal, request, list, import, bounds, history>>

\* path.open("wb")
Truncate(t) ==
  /\ at[t] = "truncate"
  /\ disk' = Empty
  /\ Goto(t, "write")
  /\ UNCHANGED <<inPlace, saved, catalog, proposal, request, list, import, bounds, history>>

\* If another thread has written since the file was truncated last, its list
\* may be the longer one, and the rest of it sticks out behind this one.
Write(t) ==
  /\ at[t] = "write"
  /\ disk' \in {list[t]} \cup (IF disk = Empty THEN {} ELSE {Torn})
  /\ Finished(t)
  /\ UNCHANGED <<inPlace, saved, catalog, proposal, left, bounds, overlapped, cut>>

\* The disk is full or the file cannot be written: OSError ends the request, or
\* the batch, which catches ValueError only.
WriteFails(t) ==
  /\ at[t] \in InFile \ {"truncate"}
  /\ SpendFault
  /\ cut' = (cut \/ at[t] = "write")
  /\ request' = [request EXCEPT ![t] = NoRequest]
  /\ list' = [list EXCEPT ![t] = EmptyBag]
  /\ Goto(t, "idle")
  /\ IF t = Importer THEN EndImport ELSE UNCHANGED import
  /\ UNCHANGED <<files, catalog, proposal, requests, confirmed, imported, added, overlapped>>

--------------------------------------------------------------------------------
(* Requests of the panel.                                                  *)

Ask(c, r, where) ==
  /\ at[c] = "idle" /\ requests < MaxRequests
  /\ requests' = requests + 1
  /\ request' = [request EXCEPT ![c] = r]
  /\ Goto(c, where)
  /\ UNCHANGED <<files, catalog, proposal, list, import, faults, history>>

Add(c) == \E k \in Company : Ask(c, [NoRequest EXCEPT !.to = k], "load")
Delete(c) == \E k \in Company : Ask(c, [NoRequest EXCEPT !.from = k], "load")
Duplicate(c) == \E k \in Company : Ask(c, [NoRequest EXCEPT !.of = k], "load")
\* update does not look for another company of the new name.
Update(c) ==
  \E k, l \in Company : k # l /\ Ask(c, [NoRequest EXCEPT !.from = k, !.to = l], "load")

\* approve adds the company between its read of the proposal and its commit.
Approve(c) ==
  \E p \in Proposal :
    /\ proposal[p] = "pending"
    /\ Ask(c, [NoRequest EXCEPT !.to = CompanyOf[p], !.proposal = p], "load")

RejectRead(c) ==
  \E p \in Proposal :
    proposal[p] = "pending" /\ Ask(c, [NoRequest EXCEPT !.proposal = p], "reject")

\* The session of approve or reject commits what it has decided on its read.
Decide(c, from, state) ==
  /\ at[c] = from
  /\ proposal' = [proposal EXCEPT ![request[c].proposal] = state]
  /\ request' = [request EXCEPT ![c] = NoRequest]
  /\ Goto(c, "idle")
  /\ UNCHANGED <<files, catalog, list, import, bounds, history>>

ApproveCommit(c) == Decide(c, "commit", "approved")
RejectCommit(c) == Decide(c, "reject", "rejected")

\* The feedback is refused or the commit fails: the proposal stays pending, and
\* a company that was added stays too.
DecisionFails(c) ==
  /\ at[c] \in {"commit", "reject"}
  /\ request' = [request EXCEPT ![c] = NoRequest]
  /\ Goto(c, "idle")
  /\ UNCHANGED <<files, catalog, proposal, list, import, bounds, history>>

\* save_suggestions of a discovery cycle; a URL that is known keeps its record.
Suggest ==
  /\ \E S \in SUBSET {p \in Proposal : proposal[p] = "absent"} :
       /\ S # {}
       /\ proposal' = [p \in Proposal |-> IF p \in S THEN "pending" ELSE proposal[p]]
  /\ UNCHANGED <<files, catalog, threads, import, bounds, history>>

--------------------------------------------------------------------------------
(* import_and_activate, one batch at a time.                               *)

\* The entries of a manifest: lines, slugs or links that name a portal and are not
\* in the catalog.  An entry without a portal URL never waits for validation and is
\* left out.
Extracted == {e \in Entry : catalog[e] = "absent"}

\* What the manifests offer together: one that cannot be fetched or read offers
\* nothing, and takes nothing away.
Candidates == SUBSET Extracted

\* The catalog is read, and the candidates are merged into it.
ImportRead ==
  /\ at[Importer] = "idle"
  /\ \E new \in Candidates :
       mem' = [e \in Entry |-> IF e \in new THEN "pending_validation" ELSE catalog[e]]
  /\ Goto(Importer, "keys")
  /\ left' = Limit
  /\ UNCHANGED <<files, catalog, proposal, request, list, keys, entry, bounds, history>>

ImportKeys ==
  /\ at[Importer] = "keys"
  /\ keys' = UNION {KeysOf(c) : c \in DOMAIN Loaded}
  /\ overlapped' = (overlapped \/ SomeoneElse(Importer))
  /\ Goto(Importer, "pick")
  /\ UNCHANGED <<files, catalog, proposal, request, list, mem, entry, left, bounds, confirmed,
                 imported, added, cut>>

Waiting == {e \in Entry : mem[e] = "pending_validation"}

\* No connector for it; a portal that is blocked, is no portal, or does not answer;
\* or a good one.
Verdict == {"incompatible", "invalid", "valid"}

\* Entries are validated up to the limit.  A bad one is settled, and so is one that
\* is known; any other is to be added.
ImportEntry ==
  /\ at[Importer] = "pick"
  /\ \E e \in Waiting, verdict \in Verdict :
       /\ IF verdict = "incompatible" THEN UNCHANGED left ELSE left > 0 /\ left' = left - 1
       /\ \/ /\ verdict # "valid" \/ KeysOf(CompanyOf[e]) \cap keys # {}
             /\ mem' = [mem EXCEPT ![e] = "inactive"]
             /\ UNCHANGED <<at, request, entry>>
          \/ /\ verdict = "valid" /\ KeysOf(CompanyOf[e]) \cap keys = {}
             /\ request' = [request EXCEPT ![Importer] = [NoRequest EXCEPT !.to = CompanyOf[e]]]
             /\ entry' = e
             /\ Goto(Importer, "load")
             /\ UNCHANGED mem
  /\ UNCHANGED <<files, catalog, proposal, list, keys, bounds, history>>

\* config/ is a directory: the catalog is replaced by a rename.
ImportSave ==
  /\ at[Importer] = "pick" /\ (left = 0 \/ Waiting = {})
  /\ catalog' = mem
  /\ EndImport /\ Goto(Importer, "idle")
  /\ UNCHANGED <<files, proposal, request, list, bounds, history>>

\* The batch raises between two entries: its catalog is not saved.
ImportFails ==
  /\ at[Importer] = "pick"
  /\ SpendFault
  /\ EndImport /\ Goto(Importer, "idle")
  /\ UNCHANGED <<files, catalog, proposal, request, list, requests, history>>

--------------------------------------------------------------------------------
\* The panel dies with all its threads and starts again.
Crash ==
  /\ SpendFault
  /\ \E t \in Thread : at[t] # "idle"
  /\ cut' = (cut \/ \E t \in Thread : at[t] = "write")
  /\ at' = [t \in Thread |-> "idle"]
  /\ request' = [t \in Thread |-> NoRequest]
  /\ list' = [t \in Thread |-> EmptyBag]
  /\ EndImport
  /\ UNCHANGED <<files, catalog, proposal, requests, confirmed, imported, added, overlapped>>

Init ==
  /\ inPlace \in BOOLEAN
  /\ disk = SetToBag(Initial) /\ saved = {}
  /\ catalog = [e \in Entry |-> "absent"]
  /\ proposal = [p \in Proposal |-> "absent"]
  /\ at = [t \in Thread |-> "idle"]
  /\ request = [t \in Thread |-> NoRequest]
  /\ list = [t \in Thread |-> EmptyBag]
  /\ mem = [e \in Entry |-> "absent"] /\ keys = {} /\ entry = None /\ left = 0
  /\ requests = 0 /\ faults = 0
  /\ confirmed = SetToBag(Initial) /\ imported = {} /\ added = {}
  /\ overlapped = FALSE /\ cut = FALSE

WriteFile(t) == Load(t) \/ Replace(t) \/ Copy(t) \/ Truncate(t) \/ Write(t)
                \/ WriteFails(t)

Panel(c) ==
  \/ Add(c) \/ Delete(c) \/ Update(c) \/ Duplicate(c)
  \/ Approve(c) \/ ApproveCommit(c) \/ DecisionFails(c)
  \/ RejectRead(c) \/ RejectCommit(c)

Import == ImportRead \/ ImportKeys \/ ImportEntry \/ ImportSave \/ ImportFails

Next ==
  \/ \E t \in Thread : WriteFile(t)
  \/ \E c \in Client : Panel(c)
  \/ Import \/ Suggest \/ Crash

Spec == Init /\ [][Next]_vars

--------------------------------------------------------------------------------
(* Properties.                                                             *)

IsList(B) == IsABag(B) /\ DOMAIN B \subseteq Company

FilesOK ==
  /\ inPlace \in BOOLEAN
  /\ disk \in {Empty, Torn} \/ IsList(disk)
  /\ saved \subseteq Company
  /\ catalog \in [Entry -> Status]
  /\ proposal \in [Proposal -> {"absent", "pending", "approved", "rejected"}]
ThreadsOK ==
  /\ at \in [Thread -> At]
  /\ request \in [Thread -> Request]
  /\ DOMAIN list = Thread /\ \A t \in Thread : IsList(list[t])
  /\ \A t \in Thread : at[t] = "idle" => request[t] = NoRequest
ImportOK ==
  /\ mem \in [Entry -> Status]
  /\ (entry # None) <=> (at[Importer] \in {"load"} \cup InFile)
  /\ keys \subseteq UNION {KeysOf(c) : c \in Company}
  /\ left \in 0..Limit /\ requests \in 0..MaxRequests /\ faults \in 0..MaxFaults
HistoryOK ==
  /\ IsList(confirmed)
  /\ imported \subseteq added /\ added \subseteq Company
  /\ overlapped \in BOOLEAN /\ cut \in BOOLEAN

\* Types, and what a thread holds where it stands: nothing when it is idle, a
\* list while it replaces the file, an entry while the import adds its company.
TypeOK == FilesOK /\ ThreadsOK /\ ImportOK /\ HistoryOK

\* What the users and the import have been told is done is what the file holds,
\* unless a thread loaded the file while another was replacing it, or an in-place
\* write broke off (CompanyConfigService.add, update, delete, duplicate).
LossExplained ==
  (~overlapped /\ ~cut /\ \A t \in Thread : at[t] # "write") => disk = confirmed

\* Even a crash between truncate and write loses nothing for good: what is not
\* in the file any more is in a copy (state_store.py, the in-place fallback).
Recoverable == ~overlapped => DOMAIN confirmed \subseteq DOMAIN Loaded \cup saved

\* No decision outlives its company: an entry is active in the catalog, and a
\* proposal approved, only after their company was written to companies.json,
\* whatever fails, races or crashes between the two stores.
DecisionsBacked ==
  /\ \A e \in Entry : catalog[e] = "active" => CompanyOf[e] \in added
  /\ \A p \in Proposal : proposal[p] = "approved" => CompanyOf[p] \in added

\* The import does not add a portal twice: of the companies it has added, no two
\* in the file share a site, though a batch that failed or crashed forgets what
\* it has added and the next one starts over (_company_keys, import_and_activate).
NoTwins ==
  ~overlapped =>
    \A c, d \in imported \cap DOMAIN Loaded : Site[c] = Site[d] => c = d /\ Loaded[c] = 1

\* "registros existentes nunca são editados ou removidos" by the import: the list
\* it is about to rename into place has every company the file has.
ImportKeepsCompanies ==
  at[Importer] = "replace" => DOMAIN Loaded \subseteq DOMAIN list[Importer]

================================================================================

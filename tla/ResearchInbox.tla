----------------------------- MODULE ResearchInbox -----------------------------
(***************************************************************************)
(* The exchange directory of the research agent (openclaw_bridge.py) and   *)
(* the proposals it feeds (discovery.py).  The agent drops batches into    *)
(* inbox/; the bridge verifies one, saves its suggestions as proposals,    *)
(* writes a receipt and moves the batch to processed/.  The discovery task *)
(* saves suggestions too, and the user decides on proposals.               *)
(***************************************************************************)
EXTENDS PanelThreads

CONSTANTS
  Batch,     \* files the agent may drop
  Portal,    \* careers pages
  Listed     \* the pages each batch names

ASSUME BatchesOK == DOMAIN Listed = Batch /\ \A b \in Batch : Listed[b] \subseteq Portal

VARIABLES
  inbox,      \* batches in inbox/
  processed,  \* batches in processed/
  receipts,   \* receipts by batch: rejected, or the pages accepted
  proposals,  \* state of each proposal by page
  verified    \* history: pages the bridge last found good in a batch

inboxVars == <<inbox, processed, receipts, proposals, verified>>

Decided == {"approved", "rejected"}

InboxInit ==
  /\ inbox = {} /\ processed = {} /\ receipts = [b \in {} |-> {}]
  /\ proposals = [p \in {} |-> "pending"] /\ verified = [b \in Batch |-> {}]

\* The agent's script puts a batch into place by one rename, under a fresh name.
\* The directory takes any file, so a name may come back.
Drop(b) ==
  /\ b \notin inbox
  /\ inbox' = inbox \cup {b}
  /\ UNCHANGED <<threads, processed, receipts, proposals, verified>>

\* process_inbox, one batch: session, receipt, move.
After == [save |-> "receipt", receipt |-> "move", move |-> "idle"]
Proceed(t) == IF After[call[t].at] = "idle" THEN End(t) ELSE Goto(t, After[call[t].at])

\* Mutant: a session that conflicts passes for a good one.
ConflictPasses(t) == Proceed(t)

\* An IntegrityError is none of the errors that refuse a batch: it ends the cycle,
\* and the batch stays for the next one.
Conflicted(t) == End(t)

\* save_suggestions looks each page up: known ones are left as they are.
Unknown(pages) == pages \ DOMAIN proposals

\* The bridge is one thread.
BridgeFree == \A t \in Thread : call[t].op \notin {"bridge", "publish", "index"}

\* It reads a batch and verifies its pages on the web,
\* some of which pass; or the batch is refused, for its content or for an error
\* of the file, and so has no suggestions.
TakeBatch(t) ==
  /\ BridgeFree
  /\ \E b \in inbox, refused \in BOOLEAN : \E good \in SUBSET Listed[b] :
       /\ refused => good = {}
       /\ Begin(t, [op |-> "bridge", at |-> IF refused THEN "receipt" ELSE "save", batch |-> b,
                    refused |-> refused, good |-> good, new |-> Unknown(good)])
       /\ verified' = [verified EXCEPT ![b] = good]
  /\ UNCHANGED <<inbox, processed, receipts, proposals>>

\* The task: its suggestions come from the model and pass the same checks.
Discover(t) ==
  /\ \E good \in SUBSET Portal :
       /\ good # {}
       /\ Begin(t, [op |-> "discover", at |-> "save", new |-> Unknown(good)])
  /\ UNCHANGED inboxVars

Propose(pages) ==
  proposals' = [p \in DOMAIN proposals \cup pages |-> IF p \in pages THEN "pending" ELSE proposals[p]]

\* The session of the suggestions commits, unless another has inserted one of its
\* pages: careers_url is unique.
SaveSuggestions(t) ==
  /\ call[t].op \in {"bridge", "discover"} /\ call[t].at = "save"
  /\ LET conflict == call[t].new \cap DOMAIN proposals # {}
     IN /\ IF conflict THEN UNCHANGED proposals ELSE Propose(call[t].new)
        /\ \/ call[t].op = "bridge" /\ IF conflict THEN Conflicted(t) ELSE Proceed(t)
           \/ call[t].op = "discover" /\ End(t)
  /\ UNCHANGED <<inbox, processed, receipts, verified>>

\* accepted_as_pending counts the proposals found as well as the new ones.
WriteReceipt(t) ==
  /\ In(t, "bridge", "receipt")
  /\ receipts' = [b \in DOMAIN receipts \cup {call[t].batch} |->
                    IF b = call[t].batch THEN [refused |-> call[t].refused, accepted |-> call[t].good]
                    ELSE receipts[b]]
  /\ Proceed(t)
  /\ UNCHANGED <<inbox, processed, proposals, verified>>

MoveBatch(t) ==
  /\ In(t, "bridge", "move")
  /\ inbox' = inbox \ {call[t].batch} /\ processed' = processed \cup {call[t].batch}
  /\ Proceed(t)
  /\ UNCHANGED <<receipts, proposals, verified>>

\* The disk or the database fails: the cycle ends, the batch stays.
BridgeFails(t) ==
  /\ call[t].op \in {"bridge", "discover"}
  /\ End(t)
  /\ UNCHANGED inboxVars

\* Approval (CompanyRegistry says what it does to companies.json) and rejection:
\* the proposal is read as pending.
ReadProposal(t) ==
  /\ \E p \in DOMAIN proposals, verdict \in Decided :
       proposals[p] = "pending" /\ Begin(t, [op |-> "decide", at |-> "save", page |-> p, verdict |-> verdict])
  /\ UNCHANGED inboxVars

\* The commit may fail.
DecideProposal(t) ==
  /\ In(t, "decide", "save")
  /\ proposals' \in {proposals, [proposals EXCEPT ![call[t].page] = call[t].verdict]}
  /\ End(t)
  /\ UNCHANGED <<inbox, processed, receipts, verified>>

InboxStep(t) ==
  \/ TakeBatch(t) \/ Discover(t) \/ SaveSuggestions(t) \/ WriteReceipt(t) \/ MoveBatch(t)
  \/ BridgeFails(t) \/ ReadProposal(t) \/ DecideProposal(t)

--------------------------------------------------------------------------------
InboxOK ==
  /\ inbox \subseteq Batch /\ processed \subseteq Batch /\ DOMAIN receipts \subseteq Batch
  /\ \A b \in DOMAIN receipts : receipts[b] \in [refused : BOOLEAN, accepted : SUBSET Portal]
  /\ DOMAIN proposals \subseteq Portal
  /\ \A p \in DOMAIN proposals : proposals[p] \in Decided \cup {"pending"}
  /\ verified \in [Batch -> SUBSET Portal]

\* A receipt never claims a page that has no proposal, and a batch leaves the
\* inbox only with a receipt: a crash, a failed session or a batch that is dropped
\* twice loses no page that passed and reports none that was not saved.
ReceiptsTrue ==
  /\ \A b \in DOMAIN receipts : receipts[b].accepted \subseteq DOMAIN proposals
  /\ processed \subseteq DOMAIN receipts
  /\ \A b \in processed \ inbox : verified[b] \subseteq DOMAIN proposals
================================================================================

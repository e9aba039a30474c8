------------------------- MODULE CompanyRegistryProofs -------------------------
(***************************************************************************)
(* Proofs about CompanyRegistry, for any companies, clients, portals,      *)
(* proposals and bounds: the type invariant and the safety invariants of   *)
(* its runs.                                                               *)
(***************************************************************************)
EXTENDS CompanyRegistry, TLAPS

--------------------------------------------------------------------------------
(* The inductive invariant, beyond the types and the properties themselves. *)

Copies(c, B) == IF c \in DOMAIN B THEN B[c] ELSE 0

\* The list an operation makes of the confirmed one.
Promised(t) == Changed(confirmed, request[t].from, request[t].to)

\* What a request asks for: an approval and the import add one company, the one
\* their proposal or entry stands for.
Adds(r, k) == r.from = None /\ r.of = None /\ r.to = k
RequestInv ==
  /\ \A t \in Thread : at[t] \in {"load"} \cup InFile /\ request[t].proposal # None =>
       Adds(request[t], CompanyOf[request[t].proposal])
  /\ \A t \in Thread : at[t] \in {"commit", "reject"} => request[t].proposal # None
  /\ \A c \in Client : at[c] \notin {"keys", "pick"}
  /\ at[Importer] \notin {"commit", "reject"}
  /\ at[Importer] \in {"keys", "pick"} => request[Importer] = NoRequest
  /\ entry # None =>
       /\ entry \in Entry
       /\ Adds(request[Importer], CompanyOf[entry]) /\ request[Importer].proposal = None

\* Nobody replaces the file beside another, and the file is truncated while it
\* is written in place.
FileInv ==
  ~overlapped =>
    /\ \A t, u \in Thread : at[t] \in InFile /\ at[u] \in InFile => t = u
    /\ \A t \in Thread : at[t] = "write" => disk = Empty

\* Unless a write broke off, a list about to be written is the promised one.
LossInv ==
  ~overlapped /\ ~cut => \A t \in Thread : at[t] \in InFile => list[t] = Promised(t)

\* Of the companies without a copy the file has as many as were promised, and
\* so have the lists; what is about to be truncated has been copied.
RecoverInv ==
  ~overlapped =>
    /\ \A c \in Company \ saved :
         /\ Copies(c, Loaded) = Copies(c, confirmed)
         /\ \A t \in Thread : at[t] \in InFile => Copies(c, list[t]) = Copies(c, Promised(t))
    /\ \A t \in Thread : at[t] = "truncate" => DOMAIN Loaded \subseteq saved

\* What the import and the approvals are about to record has been added.
DecisionInv ==
  /\ \A e \in Entry : mem[e] = "active" => CompanyOf[e] \in added
  /\ \A t \in Thread : at[t] = "commit" => CompanyOf[request[t].proposal] \in added

\* Of the imported companies in B, X aside, no two share a site, and the import
\* knows their sites.
TwinFree(B, X) ==
  \A c, d \in (imported \cap DOMAIN B) \ X : Site[c] = Site[d] => c = d /\ B[c] = 1
SitesKnown(B, X) ==
  at[Importer] \in {"pick", "load"} \cup InFile =>
    \A c \in (imported \cap DOMAIN B) \ X : Site[c] \in keys

TwinInv ==
  /\ ~overlapped =>
       /\ TwinFree(Loaded, {}) /\ SitesKnown(Loaded, {})
       /\ \A t \in Thread : at[t] \in InFile =>
            TwinFree(list[t], {request[t].to}) /\ SitesKnown(list[t], {request[t].to})
  /\ entry # None => KeysOf(CompanyOf[entry]) \cap keys = {}
  /\ at[Importer] \in InFile => Copies(CompanyOf[entry], list[Importer]) = 1

IInv ==
  /\ TypeOK /\ RequestInv
  /\ FileInv /\ LossExplained /\ LossInv /\ RecoverInv
  /\ DecisionsBacked /\ DecisionInv /\ TwinInv

--------------------------------------------------------------------------------
(* Lists and requests.                                                     *)

\* A list has a positive number of copies of each company in it.
LEMMA CopiesOf ==
  ASSUME NEW B, IsList(B)
  PROVE  /\ \A c : Copies(c, B) \in Nat
         /\ \A c : c \in DOMAIN B <=> Copies(c, B) > 0
         /\ \A c \in DOMAIN B : Copies(c, B) = B[c]
BY DEF IsList, IsABag, Copies

\* BagAdd: one copy more of one company.
LEMMA AddOne ==
  ASSUME NEW B, IsList(B), NEW x \in Company
  PROVE  /\ IsList(BagAdd(B, x))
         /\ \A c : Copies(c, BagAdd(B, x)) = Copies(c, B) + IF c = x THEN 1 ELSE 0
<1>1. CASE x \in DOMAIN B
  <2>1. BagAdd(B, x) = [e \in DOMAIN B |-> IF e = x THEN B[e] + 1 ELSE B[e]]
    BY <1>1 DEF BagAdd
  <2>2. QED
    BY <1>1, <2>1 DEF IsList, IsABag, Copies
<1>2. CASE x \notin DOMAIN B
  <2>1. BagAdd(B, x) = [e \in DOMAIN B \cup {x} |-> IF e = x THEN 1 ELSE B[e]]
    BY <1>2 DEF BagAdd
  <2>2. QED
    BY <1>2, <2>1 DEF IsList, IsABag, Copies
<1>3. QED
  BY <1>1, <1>2

\* BagRemove: one copy less, if there is one.
LEMMA RemoveOne ==
  ASSUME NEW B, IsList(B), NEW x
  PROVE  /\ IsList(BagRemove(B, x))
         /\ \A c : Copies(c, BagRemove(B, x)) =
                    IF c = x /\ Copies(c, B) > 0 THEN Copies(c, B) - 1 ELSE Copies(c, B)
<1>1. CASE x \notin DOMAIN B
  BY <1>1 DEF BagRemove, Copies
<1>2. CASE x \in DOMAIN B /\ B[x] = 1
  <2>1. BagRemove(B, x) = [e \in DOMAIN B \ {x} |-> B[e]]
    BY <1>2 DEF BagRemove
  <2>2. QED
    BY <1>2, <2>1 DEF IsList, IsABag, Copies
<1>3. CASE x \in DOMAIN B /\ B[x] # 1
  <2>1. BagRemove(B, x) = [e \in DOMAIN B |-> IF e = x THEN B[e] - 1 ELSE B[e]]
    BY <1>3 DEF BagRemove
  <2>2. QED
    BY <1>3, <2>1 DEF IsList, IsABag, Copies
<1>4. QED
  BY <1>1, <1>2, <1>3

\* The list after an operation of CompanyConfigService.
LEMMA ChangedList ==
  ASSUME NEW B, IsList(B), NEW from, NEW to \in Company \cup {None}
  PROVE  /\ IsList(Changed(B, from, to))
         /\ \A c : c # to => Copies(c, Changed(B, from, to)) <= Copies(c, B)
         /\ to \in Company /\ to \notin DOMAIN B => Copies(to, Changed(B, from, to)) = 1
<1>1. IsList(BagRemove(B, from)) /\ \A c : Copies(c, B) \in Nat
  BY RemoveOne, CopiesOf
<1>2. \A c : Copies(c, BagRemove(B, from)) <= Copies(c, B)
  BY <1>1, RemoveOne
<1>3. CASE to = None
  BY <1>1, <1>2, <1>3, ConstantsOK DEF Changed
<1>4. CASE to \in Company
  <2>1. Changed(B, from, to) = BagAdd(BagRemove(B, from), to)
    BY <1>4, ConstantsOK DEF Changed
  <2>2. to \notin DOMAIN B => Copies(to, BagRemove(B, from)) = 0
    <3>1. to \notin DOMAIN B => Copies(to, B) = 0
      BY DEF Copies
    <3>2. QED
      BY <3>1, RemoveOne
  <2>3. \A c : Copies(c, BagRemove(B, from)) \in Nat
    BY <1>1, CopiesOf
  <2>4. QED
    BY <1>1, <1>2, <1>4, <2>1, <2>2, <2>3, AddOne
<1>5. QED
  BY <1>3, <1>4

\* Of a company two lists hold as often, they hold as often after an operation.
LEMMA ChangedAlike ==
  ASSUME NEW B, IsList(B), NEW D, IsList(D), NEW from, NEW to \in Company \cup {None},
         NEW c, Copies(c, B) = Copies(c, D)
  PROVE  Copies(c, Changed(B, from, to)) = Copies(c, Changed(D, from, to))
<1>1. IsList(BagRemove(B, from)) /\ IsList(BagRemove(D, from))
  BY RemoveOne
<1>2. Copies(c, BagRemove(B, from)) = Copies(c, BagRemove(D, from))
  BY RemoveOne
<1>3. QED
  BY <1>1, <1>2, AddOne, ConstantsOK DEF Changed

\* load_json_state returns a list, the one on disk if there is one.
LEMMA LoadedList ==
  ASSUME TypeOK
  PROVE  /\ IsList(Loaded) /\ DOMAIN EmptyBag = {} /\ IsList(EmptyBag)
         /\ \A B : IsList(B) => B \notin {Empty, Torn}
         /\ IsList(disk) => Loaded = disk
         /\ disk \in {Empty, Torn} => Loaded = EmptyBag
<1>1. DOMAIN EmptyBag = {} /\ IsList(EmptyBag)
  BY DEF EmptyBag, SetToBag, IsList, IsABag
<1>2. ASSUME NEW B, IsList(B) PROVE B \notin {Empty, Torn}
  <2>1. {n \in Nat : n > 0} = Nat \ {0}
    OBVIOUS
  <2>2. DOMAIN B \in SUBSET Company /\ B \in [DOMAIN B -> Nat \ {0}]
    BY <1>2, <2>1 DEF IsList, IsABag
  <2>3. QED
    BY <2>2, ConstantsOK
<1>3. QED
  BY <1>1, <1>2 DEF Loaded, TypeOK, FilesOK

\* The fields of the requests that are made.
LEMMA RequestShapes ==
  /\ NoRequest \in Request /\ NoRequest.proposal = None
  /\ \A k \in Company :
       /\ [NoRequest EXCEPT !.to = k] \in Request
       /\ [NoRequest EXCEPT !.to = k].proposal = None
       /\ Adds([NoRequest EXCEPT !.to = k], k)
  /\ \A k \in Company : [NoRequest EXCEPT !.from = k] \in Request
  /\ \A k \in Company : [NoRequest EXCEPT !.of = k] \in Request
  /\ \A k, l \in Company : [NoRequest EXCEPT !.from = k, !.to = l] \in Request
  /\ \A p \in Proposal \cup {None} :
       /\ [NoRequest EXCEPT !.proposal = p] \in Request
       /\ [NoRequest EXCEPT !.proposal = p].proposal = p
  /\ \A k \in Company, p \in Proposal :
       [NoRequest EXCEPT !.to = k, !.proposal = p] \in Request
BY DEF NoRequest, Request, Adds

--------------------------------------------------------------------------------
(* The steps, grouped by what they touch.                                  *)

\* A client asks for something: to change the list, perhaps for a proposal it
\* approves, or to reject one.
Asked(c) ==
  \E r \in Request, where \in {"load", "reject"} :
    /\ Ask(c, r, where)
    /\ \/ r.proposal = None /\ where = "load"
       \/ r.proposal # None /\ where = "reject"
       \/ /\ r.proposal # None /\ where = "load"
          /\ Adds(r, CompanyOf[r.proposal])

LEMMA AskedSteps ==
  ASSUME NEW c \in Client,
         Add(c) \/ Delete(c) \/ Update(c) \/ Duplicate(c) \/ Approve(c) \/ RejectRead(c)
  PROVE  Asked(c)
<1>1. CASE Add(c)
  <2>1. PICK k \in Company : Ask(c, [NoRequest EXCEPT !.to = k], "load")
    BY <1>1 DEF Add
  <2>2. [NoRequest EXCEPT !.to = k].proposal = None
    BY DEF NoRequest
  <2>3. QED
    BY <2>1, <2>2, RequestShapes DEF Asked
<1>2. CASE Delete(c)
  <2>1. PICK k \in Company : Ask(c, [NoRequest EXCEPT !.from = k], "load")
    BY <1>2 DEF Delete
  <2>2. [NoRequest EXCEPT !.from = k].proposal = None
    BY DEF NoRequest
  <2>3. QED
    BY <2>1, <2>2, RequestShapes DEF Asked
<1>3. CASE Update(c)
  <2>1. PICK k, l \in Company : Ask(c, [NoRequest EXCEPT !.from = k, !.to = l], "load")
    BY <1>3 DEF Update
  <2>2. [NoRequest EXCEPT !.from = k, !.to = l].proposal = None
    BY DEF NoRequest
  <2>3. QED
    BY <2>1, <2>2, RequestShapes DEF Asked
<1>4. CASE Duplicate(c)
  <2>1. PICK k \in Company : Ask(c, [NoRequest EXCEPT !.of = k], "load")
    BY <1>4 DEF Duplicate
  <2>2. [NoRequest EXCEPT !.of = k].proposal = None
    BY DEF NoRequest
  <2>3. QED
    BY <2>1, <2>2, RequestShapes DEF Asked
<1>5. CASE Approve(c)
  <2>1. PICK p \in Proposal :
          Ask(c, [NoRequest EXCEPT !.to = CompanyOf[p], !.proposal = p], "load")
    BY <1>5 DEF Approve
  <2> DEFINE r == [NoRequest EXCEPT !.to = CompanyOf[p], !.proposal = p]
  <2>2. r.proposal = p /\ p # None /\ CompanyOf[p] \in Company /\ Adds(r, CompanyOf[p])
    BY ConstantsOK DEF NoRequest, Adds
  <2>3. r \in Request
    BY <2>2, RequestShapes
  <2>4. QED
    BY <2>1, <2>2, <2>3 DEF Asked
<1>6. CASE RejectRead(c)
  <2>1. PICK p \in Proposal : Ask(c, [NoRequest EXCEPT !.proposal = p], "reject")
    BY <1>6 DEF RejectRead
  <2>2. [NoRequest EXCEPT !.proposal = p].proposal = p /\ p # None
    BY ConstantsOK DEF NoRequest
  <2>3. QED
    BY <2>1, <2>2, RequestShapes DEF Asked
<1>7. QED
  BY <1>1, <1>2, <1>3, <1>4, <1>5, <1>6

\* os.replace returns, or the write in place does.
Rewrite(t) ==
  /\ at[t] \in {"replace", "write"}
  /\ \/ disk' = list[t]
     \/ at[t] = "write" /\ disk # Empty /\ disk' = Torn
  /\ Finished(t)
  /\ UNCHANGED <<inPlace, saved, catalog, proposal, left, bounds, overlapped, cut>>

LEMMA RewriteSteps ==
  ASSUME NEW t \in Thread, Replace(t) \/ Write(t)
  PROVE  Rewrite(t)
BY DEF Replace, Write, Rewrite

\* The decision on a proposal is committed, or is not.
Decided(c) ==
  /\ at[c] \in {"commit", "reject"}
  /\ \/ UNCHANGED proposal
     \/ at[c] = "commit" /\ proposal' = [proposal EXCEPT ![request[c].proposal] = "approved"]
     \/ at[c] = "reject" /\ proposal' = [proposal EXCEPT ![request[c].proposal] = "rejected"]
  /\ request' = [request EXCEPT ![c] = NoRequest]
  /\ Goto(c, "idle")
  /\ UNCHANGED <<files, catalog, list, import, bounds, history>>

LEMMA DecidedSteps ==
  ASSUME NEW c \in Client, ApproveCommit(c) \/ RejectCommit(c) \/ DecisionFails(c)
  PROVE  Decided(c)
BY DEF ApproveCommit, RejectCommit, DecisionFails, Decide, Decided

\* Every step is one of these.
LEMMA Steps ==
  ASSUME [Next]_vars
  PROVE  \/ \E t \in Thread : \/ Load(t) \/ Rewrite(t) \/ Copy(t) \/ Truncate(t)
                              \/ WriteFails(t)
         \/ \E c \in Client : Asked(c) \/ Decided(c)
         \/ ImportRead \/ ImportKeys \/ ImportEntry \/ ImportSave \/ ImportFails
         \/ Suggest \/ Crash \/ UNCHANGED vars
<1>1. ASSUME NEW c \in Client, Panel(c) PROVE Asked(c) \/ Decided(c)
  BY <1>1, AskedSteps, DecidedSteps DEF Panel
<1>2. ASSUME NEW t \in Thread, WriteFile(t)
      PROVE  Load(t) \/ Rewrite(t) \/ Copy(t) \/ Truncate(t) \/ WriteFails(t)
  BY <1>2, RewriteSteps DEF WriteFile
<1>3. QED
  BY <1>1, <1>2 DEF Next, Import

\* What the constants are.
LEMMA Constants ==
  /\ Importer \in Thread /\ Client \subseteq Thread /\ Importer \notin Client
  /\ \A t \in Thread : t = Importer \/ t \in Client
  /\ \A e \in Entry : e # None /\ CompanyOf[e] \in Company
  /\ \A p \in Proposal : p # None /\ CompanyOf[p] \in Company
  /\ None \notin Company
  /\ Limit \in Nat /\ MaxRequests \in Nat /\ MaxFaults \in Nat
BY ConstantsOK DEF Thread

\* The company an operation puts into the list is the one it was asked for,
\* except for a copy; whoever adds one has found its name free.
LEMMA Target ==
  ASSUME NEW r \in Request, NEW B, NEW to \in Targets(r, B)
  PROVE  /\ to \in Company \cup {None}
         /\ r.of = None => to = r.to
         /\ r.from = None /\ r.of = None /\ to \in Company => Name[to] \notin Names(B)
<1>1. CASE r.from # None
  BY <1>1 DEF Targets, Request
<1>2. CASE r.from = None /\ r.of # None
  BY <1>2 DEF Targets, Request
<1>3. CASE r.from = None /\ r.of = None
  BY <1>3 DEF Targets, Request
<1>4. QED
  BY <1>1, <1>2, <1>3

--------------------------------------------------------------------------------
(* Every step preserves the invariant.                                      *)

\* Every step keeps the types.
LEMMA TypeStep ==
  ASSUME TypeOK, RequestInv, [Next]_vars
  PROVE  TypeOK'
<1> USE Constants DEF TypeOK, FilesOK, ThreadsOK, ImportOK, HistoryOK,
                      files, threads, import, bounds, history, Goto, SpendFault
<1>1. ASSUME NEW t \in Thread, Load(t) PROVE TypeOK'
  <2>1. FilesOK'
    BY <1>1 DEF Load
  <2>2. HistoryOK'
    BY <1>1 DEF Load
  <2>3. CASE \E to \in Targets(request[t], Loaded) :
               /\ list' = [list EXCEPT ![t] = Changed(Loaded, request[t].from, to)]
               /\ request' = [request EXCEPT ![t].to = to]
               /\ Goto(t, IF inPlace THEN "copy" ELSE "replace")
               /\ UNCHANGED <<mem, entry>>
    <3>1. PICK to \in Targets(request[t], Loaded) :
            /\ list' = [list EXCEPT ![t] = Changed(Loaded, request[t].from, to)]
            /\ request' = [request EXCEPT ![t].to = to]
            /\ Goto(t, IF inPlace THEN "copy" ELSE "replace")
            /\ UNCHANGED <<mem, entry>>
      BY <2>3
    <3>2. to \in Company \cup {None}
      BY Target
    <3>3. IsList(Changed(Loaded, request[t].from, to))
      BY <3>2, LoadedList, ChangedList
    <3>4. request' \in [Thread -> Request]
      BY <3>1, <3>2 DEF Request
    <3>5. at' \in [Thread -> At] /\ at'[t] \in InFile
      BY <3>1 DEF At, InFile
    <3>6. DOMAIN list' = Thread /\ \A u \in Thread : IsList(list'[u])
      BY <3>1, <3>3
    <3>7. \A u \in Thread : at'[u] = "idle" => request'[u] = NoRequest
      BY <3>1, <3>5 DEF InFile
    <3>8. ImportOK'
      <4>1. at[t] = "load" /\ at' = [at EXCEPT ![t] = at'[t]]
        BY <1>1, <3>1 DEF Load
      <4>2. (at'[Importer] \in {"load"} \cup InFile) <=> (at[Importer] \in {"load"} \cup InFile)
        BY <3>5, <4>1
      <4>3. QED
        BY <1>1, <3>1, <4>2 DEF Load
    <3>9. QED
      BY <2>1, <2>2, <3>4, <3>5, <3>6, <3>7, <3>8
  <2>4. CASE /\ request' = [request EXCEPT ![t] = NoRequest]
             /\ Raised(t)
             /\ UNCHANGED list
    <3>1. ThreadsOK'
      BY <2>4, RequestShapes DEF Raised, At
    <3>2. ImportOK'
      BY <1>1, <2>4 DEF Load, Raised, RequestInv, InFile, Status
    <3>3. QED
      BY <2>1, <2>2, <3>1, <3>2
  <2>5. QED
    BY <1>1, <2>3, <2>4 DEF Load
<1>2. ASSUME NEW t \in Thread, Rewrite(t) PROVE TypeOK'
  <2>1. request[t] \in Request /\ at[t] \in InFile
    BY <1>2 DEF Rewrite, InFile
  <2>2. FilesOK'
    BY <1>2 DEF Rewrite
  <2>3. ThreadsOK'
    <3>1. [NoRequest EXCEPT !.proposal = request[t].proposal] \in Request
      BY <2>1 DEF Request, NoRequest
    <3>2. request[t].proposal = None =>
            [NoRequest EXCEPT !.proposal = request[t].proposal] = NoRequest
      BY DEF NoRequest
    <3>3. IsList(EmptyBag)
      BY LoadedList
    <3>4. t = Importer => at'[t] = "pick"
      BY <1>2 DEF Rewrite, Finished
    <3>5. QED
      BY <1>2, <3>1, <3>2, <3>3, <3>4 DEF Rewrite, Finished, At
  <2>4. request[Importer].to \in Company \/ t # Importer
    BY <2>1 DEF RequestInv, Adds
  <2>5. ImportOK'
    <3>1. CASE t = Importer
      <4>1. entry \in Entry /\ entry' = None /\ at'[Importer] = "pick"
        BY <1>2, <2>1, <3>1 DEF Rewrite, Finished, RequestInv
      <4>2. mem' \in [Entry -> Status]
        BY <1>2, <3>1, <4>1 DEF Rewrite, Finished, Status
      <4>3. keys' \subseteq UNION {KeysOf(c) : c \in Company}
        BY <1>2, <2>4, <3>1 DEF Rewrite, Finished
      <4>4. QED
        BY <1>2, <4>1, <4>2, <4>3 DEF Rewrite, InFile
    <3>2. CASE t # Importer
      BY <1>2, <3>2 DEF Rewrite, Finished
    <3>3. QED
      BY <3>1, <3>2
  <2>6. HistoryOK'
    <3>1. IsList(confirmed')
      <4>1. request[t].to \in Company \cup {None}
        BY <2>1 DEF Request
      <4>2. confirmed' = Changed(confirmed, request[t].from, request[t].to)
        BY <1>2 DEF Rewrite, Finished, Changed
      <4>3. QED
        BY <4>1, <4>2, ChangedList
    <3>2. added' \subseteq Company /\ imported' \subseteq added'
      BY <1>2, <2>1, <2>4 DEF Rewrite, Finished, Request
    <3>3. QED
      BY <1>2, <3>1, <3>2 DEF Rewrite
  <2>7. QED
    BY <2>2, <2>3, <2>5, <2>6
<1>3. ASSUME NEW t \in Thread, Copy(t) PROVE TypeOK'
  <2>1. saved' \subseteq Company
    BY <1>3, LoadedList DEF Copy, IsList
  <2>2. ThreadsOK'
    BY <1>3 DEF Copy, At, InFile
  <2>3. QED
    BY <1>3, <2>1, <2>2 DEF Copy, InFile
<1>4. ASSUME NEW t \in Thread, Truncate(t) PROVE TypeOK'
  BY <1>4 DEF Truncate, At, InFile
<1>5. ASSUME NEW t \in Thread, WriteFails(t) PROVE TypeOK'
  <2>1. ThreadsOK'
    BY <1>5, LoadedList, RequestShapes DEF WriteFails, At
  <2>2. ImportOK'
    <3>1. CASE t = Importer
      BY <1>5, <3>1 DEF WriteFails, EndImport, Status, InFile
    <3>2. CASE t # Importer
      BY <1>5, <3>2 DEF WriteFails
    <3>3. QED
      BY <3>1, <3>2
  <2>3. QED
    BY <1>5, <2>1, <2>2 DEF WriteFails
<1>6. ASSUME NEW c \in Client, Asked(c) PROVE TypeOK'
  <2>1. PICK r \in Request, where \in {"load", "reject"} : Ask(c, r, where)
    BY <1>6 DEF Asked
  <2>2. QED
    BY <2>1 DEF Ask, At
<1>7. ASSUME NEW c \in Client, Decided(c) PROVE TypeOK'
  <2>1. ThreadsOK'
    BY <1>7, RequestShapes DEF Decided, At
  <2>2. QED
    BY <1>7, <2>1 DEF Decided, InFile
<1>8. CASE ImportRead
  <2>1. mem' \in [Entry -> Status]
    BY <1>8 DEF ImportRead, Status
  <2>2. QED
    BY <1>8, <2>1 DEF ImportRead, At, InFile
<1>9. CASE ImportKeys
  <2>1. keys' \subseteq UNION {KeysOf(c) : c \in Company}
    BY <1>9, LoadedList DEF ImportKeys, IsList
  <2>2. QED
    BY <1>9, <2>1 DEF ImportKeys, At, InFile
<1>10. CASE ImportEntry
  <2>1. PICK e \in Entry, verdict \in Verdict :
          /\ IF verdict = "incompatible" THEN UNCHANGED left ELSE left > 0 /\ left' = left - 1
          /\ \/ /\ mem' = [mem EXCEPT ![e] = "inactive"]
                /\ UNCHANGED <<at, request, entry>>
             \/ /\ request' = [request EXCEPT ![Importer] = [NoRequest EXCEPT !.to = CompanyOf[e]]]
                /\ entry' = e
                /\ Goto(Importer, "load")
                /\ UNCHANGED mem
    BY <1>10 DEF ImportEntry, Waiting
  <2>2. left' \in 0..Limit
    BY <2>1
  <2>3. ThreadsOK'
    <3>1. CASE UNCHANGED <<at, request>>
      BY <1>10, <3>1 DEF ImportEntry
    <3>2. CASE request' = [request EXCEPT ![Importer] = [NoRequest EXCEPT !.to = CompanyOf[e]]]
               /\ Goto(Importer, "load")
      <4>1. [NoRequest EXCEPT !.to = CompanyOf[e]] \in Request
        BY RequestShapes
      <4>2. request' \in [Thread -> Request] /\ at' \in [Thread -> At]
        BY <3>2, <4>1 DEF At
      <4>3. QED
        BY <1>10, <3>2, <4>2 DEF ImportEntry
    <3>3. QED
      BY <2>1, <3>1, <3>2
  <2>4. mem' \in [Entry -> Status]
    BY <2>1 DEF Status
  <2>5. (entry' # None) <=> (at'[Importer] \in {"load"} \cup InFile)
    BY <2>1
  <2>6. QED
    BY <1>10, <2>2, <2>3, <2>4, <2>5 DEF ImportEntry
<1>11. CASE ImportSave
  <2>1. mem' \in [Entry -> Status] /\ left' \in 0..Limit /\ keys' = {} /\ entry' = None
    BY <1>11 DEF ImportSave, EndImport, Status
  <2>2. ThreadsOK' /\ at'[Importer] = "idle"
    <3>1. at[Importer] = "pick" /\ at' = [at EXCEPT ![Importer] = "idle"]
      BY <1>11 DEF ImportSave
    <3>2. UNCHANGED <<request, list>>
      BY <1>11 DEF ImportSave
    <3>3. request[Importer] = NoRequest
      BY <3>1 DEF RequestInv
    <3>4. QED
      BY <3>1, <3>2, <3>3 DEF At
  <2>3. QED
    BY <1>11, <2>1, <2>2 DEF ImportSave, InFile
<1>12. CASE ImportFails
  <2>1. mem' \in [Entry -> Status] /\ left' \in 0..Limit /\ keys' = {} /\ entry' = None
    BY <1>12 DEF ImportFails, EndImport, Status
  <2>2. ThreadsOK' /\ at'[Importer] = "idle"
    <3>1. at[Importer] = "pick" /\ at' = [at EXCEPT ![Importer] = "idle"]
      BY <1>12 DEF ImportFails
    <3>2. UNCHANGED <<request, list>>
      BY <1>12 DEF ImportFails
    <3>3. request[Importer] = NoRequest
      BY <3>1 DEF RequestInv
    <3>4. QED
      BY <3>1, <3>2, <3>3 DEF At
  <2>3. QED
    BY <1>12, <2>1, <2>2 DEF ImportFails, InFile
<1>13. CASE Suggest
  <2>1. proposal' \in [Proposal -> {"absent", "pending", "approved", "rejected"}]
    BY <1>13 DEF Suggest
  <2>2. QED
    BY <1>13, <2>1 DEF Suggest
<1>14. CASE Crash
  <2>1. ThreadsOK'
    BY <1>14, LoadedList, RequestShapes DEF Crash, At
  <2>2. ImportOK'
    BY <1>14 DEF Crash, EndImport, Status, InFile
  <2>3. QED
    BY <1>14, <2>1, <2>2 DEF Crash
<1>15. CASE UNCHANGED vars
  BY <1>15 DEF vars
<1>16. QED
  BY <1>1, <1>2, <1>3, <1>4, <1>5, <1>6, <1>7, <1>8, <1>9, <1>10, <1>11, <1>12, <1>13,
     <1>14, <1>15, Steps

\* ... and the shape of the requests.
LEMMA RequestStep ==
  ASSUME TypeOK, RequestInv, [Next]_vars
  PROVE  RequestInv'
<1>0. NoRequest.proposal = None
  BY RequestShapes
<1> USE Constants DEF TypeOK, ThreadsOK, ImportOK, RequestInv,
          files, threads, import, bounds, history, Goto, InFile
<1>1. ASSUME NEW t \in Thread, Load(t) PROVE RequestInv'
  <2>1. CASE \E to \in Targets(request[t], Loaded) :
               /\ request' = [request EXCEPT ![t].to = to]
               /\ Goto(t, IF inPlace THEN "copy" ELSE "replace")
               /\ UNCHANGED <<mem, entry>>
    <3>1. PICK to \in Targets(request[t], Loaded) :
            /\ request' = [request EXCEPT ![t].to = to]
            /\ Goto(t, IF inPlace THEN "copy" ELSE "replace")
            /\ UNCHANGED <<mem, entry>>
      BY <2>1
    <3>2. request[t].of = None => to = request[t].to
      <4>1. request[t] \in Request
        OBVIOUS
      <4>2. QED
        BY <4>1, Target
    <3>3. /\ request'[t].to = to /\ request'[t].proposal = request[t].proposal
          /\ request'[t].from = request[t].from /\ request'[t].of = request[t].of
          /\ \A u \in Thread : u # t => request'[u] = request[u]
      <4>1. request[t] \in Request /\ request' = [request EXCEPT ![t] = [request[t] EXCEPT !.to = to]]
        BY <3>1
      <4>2. /\ [request[t] EXCEPT !.to = to].to = to
            /\ [request[t] EXCEPT !.to = to].from = request[t].from
            /\ [request[t] EXCEPT !.to = to].of = request[t].of
            /\ [request[t] EXCEPT !.to = to].proposal = request[t].proposal
        BY <4>1 DEF Request
      <4>3. QED
        BY <4>1, <4>2
    <3>4. /\ at[t] = "load" /\ at'[t] \in InFile
          /\ \A u \in Thread : u # t => at'[u] = at[u]
          /\ entry' = entry
      BY <1>1, <3>1 DEF Load
    <3>5. \A u \in Thread : \A k : request[u].of = None => (Adds(request'[u], k) <=> Adds(request[u], k))
      BY <3>2, <3>3 DEF Adds
    <3>6. \A u \in Thread : \A k : Adds(request[u], k) => request[u].of = None
      BY DEF Adds
    <3>7. QED
      BY <3>3, <3>4, <3>5, <3>6
  <2>2. CASE request' = [request EXCEPT ![t] = NoRequest] /\ Raised(t)
    <3>1. /\ at[t] = "load" /\ request'[t] = NoRequest
          /\ \A u \in Thread : u # t => at'[u] = at[u] /\ request'[u] = request[u]
      BY <1>1, <2>2 DEF Load, Raised
    <3>2. CASE t = Importer
      BY <2>2, <3>1, <3>2 DEF Raised
    <3>3. CASE t # Importer
      BY <2>2, <3>1, <3>3 DEF Raised
    <3>4. QED
      BY <3>2, <3>3
  <2>3. QED
    BY <1>1, <2>1, <2>2 DEF Load
<1>2. ASSUME NEW t \in Thread, Rewrite(t) PROVE RequestInv'
  <2>1. request' = [request EXCEPT ![t] = [NoRequest EXCEPT !.proposal = request[t].proposal]]
    BY <1>2 DEF Rewrite, Finished
  <2>2. request'[t].proposal = request[t].proposal
    BY <2>1 DEF Request
  <2>3. CASE t = Importer
    <3>1. at' = [at EXCEPT ![Importer] = "pick"] /\ entry' = None
      BY <1>2, <2>3 DEF Rewrite, Finished
    <3>2. request[Importer].proposal = None
      BY <1>2, <2>3 DEF Rewrite
    <3>3. [NoRequest EXCEPT !.proposal = None] = NoRequest
      BY DEF NoRequest
    <3>4. QED
      BY <2>1, <2>3, <3>1, <3>2, <3>3
  <2>4. CASE t # Importer
    <3>1. /\ at' = [at EXCEPT ![t] = IF request[t].proposal = None THEN "idle" ELSE "commit"]
          /\ entry' = entry
      BY <1>2, <2>4 DEF Rewrite, Finished
    <3>2. request'[Importer] = request[Importer] /\ at'[Importer] = at[Importer]
      BY <2>1, <2>4, <3>1
    <3>3. QED
      BY <2>1, <2>2, <2>4, <3>1, <3>2
  <2>5. QED
    BY <2>3, <2>4
<1>3. ASSUME NEW t \in Thread, Copy(t) PROVE RequestInv'
  BY <1>3 DEF Copy
<1>4. ASSUME NEW t \in Thread, Truncate(t) PROVE RequestInv'
  BY <1>4 DEF Truncate
<1>5. ASSUME NEW t \in Thread, WriteFails(t) PROVE RequestInv'
  BY <1>5, <1>0 DEF WriteFails, EndImport
<1>6. ASSUME NEW c \in Client, Asked(c) PROVE RequestInv'
  <2>1. PICK r \in Request, where \in {"load", "reject"} :
          /\ Ask(c, r, where)
          /\ \/ r.proposal = None /\ where = "load"
             \/ r.proposal # None /\ where = "reject"
             \/ r.proposal # None /\ where = "load" /\ Adds(r, CompanyOf[r.proposal])
    BY <1>6 DEF Asked
  <2>2. /\ request'[c] = r /\ at'[c] = where /\ entry' = entry
        /\ \A u \in Thread : u # c => at'[u] = at[u] /\ request'[u] = request[u]
    BY <2>1 DEF Ask
  <2>3. QED
    BY <2>1, <2>2
<1>7. ASSUME NEW c \in Client, Decided(c) PROVE RequestInv'
  BY <1>7, <1>0 DEF Decided
<1>8. CASE ImportRead
  BY <1>8 DEF ImportRead
<1>9. CASE ImportKeys
  BY <1>9 DEF ImportKeys
<1>10. CASE ImportEntry
  <2>1. PICK e \in Entry :
          \/ UNCHANGED <<at, request, entry>>
          \/ /\ request' = [request EXCEPT ![Importer] = [NoRequest EXCEPT !.to = CompanyOf[e]]]
             /\ entry' = e
             /\ Goto(Importer, "load")
    BY <1>10 DEF ImportEntry, Waiting
  <2>2. CASE UNCHANGED <<at, request, entry>>
    BY <2>2
  <2>3. CASE /\ request' = [request EXCEPT ![Importer] = [NoRequest EXCEPT !.to = CompanyOf[e]]]
             /\ entry' = e
             /\ Goto(Importer, "load")
    <3>1. /\ request'[Importer] = [NoRequest EXCEPT !.to = CompanyOf[e]]
          /\ \A c \in Client : request'[c] = request[c] /\ at'[c] = at[c]
          /\ at'[Importer] = "load"
      BY <2>3
    <3>2. Adds(request'[Importer], CompanyOf[e]) /\ request'[Importer].proposal = None
      <4>1. /\ Adds([NoRequest EXCEPT !.to = CompanyOf[e]], CompanyOf[e])
            /\ [NoRequest EXCEPT !.to = CompanyOf[e]].proposal = None
        BY RequestShapes
      <4>2. QED
        BY <3>1, <4>1
    <3>3. QED
      BY <2>3, <3>1, <3>2
  <2>4. QED
    BY <2>1, <2>2, <2>3
<1>11. CASE ImportSave
  BY <1>11 DEF ImportSave, EndImport
<1>12. CASE ImportFails
  BY <1>12 DEF ImportFails, EndImport
<1>13. CASE Suggest
  BY <1>13 DEF Suggest
<1>14. CASE Crash
  BY <1>14, <1>0 DEF Crash, EndImport
<1>15. CASE UNCHANGED vars
  BY <1>15 DEF vars
<1>16. QED
  BY <1>1, <1>2, <1>3, <1>4, <1>5, <1>6, <1>7, <1>8, <1>9, <1>10, <1>11, <1>12, <1>13,
     <1>14, <1>15, Steps

\* A step that leaves the file, the lists and those who write them alone.
Quiet ==
  /\ UNCHANGED <<files, list, confirmed, imported, added, cut>>
  /\ overlapped => overlapped'
  /\ \A t \in Thread : at'[t] \in InFile <=> at[t] \in InFile
  /\ \A t \in Thread : at[t] \in InFile => at'[t] = at[t] /\ request'[t] = request[t]

LEMMA QuietSteps ==
  ASSUME TypeOK,
         \/ \E c \in Client : Asked(c) \/ Decided(c)
         \/ ImportRead \/ ImportKeys \/ ImportEntry \/ ImportSave \/ ImportFails
         \/ Suggest \/ UNCHANGED vars
  PROVE  Quiet
<1> USE Constants DEF TypeOK, ThreadsOK, HistoryOK, files, threads, import, bounds, history,
          Goto, InFile, Quiet
<1>1. ASSUME NEW c \in Client, Asked(c) PROVE Quiet
  BY <1>1 DEF Asked, Ask
<1>2. ASSUME NEW c \in Client, Decided(c) PROVE Quiet
  BY <1>2 DEF Decided
<1>3. CASE ImportRead
  BY <1>3 DEF ImportRead
<1>4. CASE ImportKeys
  BY <1>4 DEF ImportKeys
<1>5. CASE ImportEntry
  <2>1. \/ UNCHANGED <<at, request>>
        \/ /\ \E r : request' = [request EXCEPT ![Importer] = r]
           /\ Goto(Importer, "load")
    BY <1>5 DEF ImportEntry
  <2>2. at[Importer] = "pick" /\ UNCHANGED <<files, list, history>>
    BY <1>5 DEF ImportEntry
  <2>3. QED
    BY <2>1, <2>2
<1>6. CASE ImportSave
  BY <1>6 DEF ImportSave
<1>7. CASE ImportFails
  BY <1>7 DEF ImportFails
<1>8. CASE Suggest
  BY <1>8 DEF Suggest
<1>9. CASE UNCHANGED vars
  BY <1>9 DEF vars
<1>10. QED
  BY <1>1, <1>2, <1>3, <1>4, <1>5, <1>6, <1>7, <1>8, <1>9

\* What a step of a writer does to the places, the file and the lists: Load.
LEMMA LoadSteps ==
  ASSUME TypeOK, NEW t \in Thread, Load(t)
  PROVE  /\ at[t] = "load" /\ at'[t] \notin {"write", "truncate"}
         /\ \A u \in Thread : u # t => at'[u] = at[u] /\ request'[u] = request[u] /\ list'[u] = list[u]
         /\ UNCHANGED <<files, confirmed, imported, added, cut, keys>>
         /\ overlapped => overlapped'
         /\ ~overlapped' => \A u \in Thread : u # t => at[u] \notin InFile
         /\ at'[t] \in InFile =>
              /\ request'[t].to \in Targets(request[t], Loaded)
              /\ request'[t].from = request[t].from
              /\ list'[t] = Changed(Loaded, request'[t].from, request'[t].to)
              /\ UNCHANGED <<mem, entry>>
         /\ at'[t] \notin InFile => Raised(t)
<1> USE Constants DEF TypeOK, ThreadsOK, HistoryOK, files, threads, import, bounds, history,
          Goto, InFile
<1>1. /\ at[t] = "load" /\ UNCHANGED <<files, confirmed, imported, added, cut, keys>>
      /\ overlapped' = (overlapped \/ SomeoneElse(t))
  BY DEF Load
<1>2. ~overlapped' => \A u \in Thread : u # t => at[u] \notin InFile
  BY <1>1 DEF SomeoneElse
<1>3. CASE \E to \in Targets(request[t], Loaded) :
             /\ list' = [list EXCEPT ![t] = Changed(Loaded, request[t].from, to)]
             /\ request' = [request EXCEPT ![t].to = to]
             /\ Goto(t, IF inPlace THEN "copy" ELSE "replace")
             /\ UNCHANGED <<mem, entry>>
  <2>1. PICK to \in Targets(request[t], Loaded) :
             /\ list' = [list EXCEPT ![t] = Changed(Loaded, request[t].from, to)]
             /\ request' = [request EXCEPT ![t] = [request[t] EXCEPT !.to = to]]
             /\ Goto(t, IF inPlace THEN "copy" ELSE "replace")
             /\ UNCHANGED <<mem, entry>>
    BY <1>3
  <2>2. request[t] \in Request
    OBVIOUS
  <2>3. [request[t] EXCEPT !.to = to].to = to /\ [request[t] EXCEPT !.to = to].from = request[t].from
    BY <2>2 DEF Request
  <2>4. request'[t].to = to /\ request'[t].from = request[t].from
    BY <2>1, <2>3
  <2>5. list'[t] = Changed(Loaded, request[t].from, to)
    BY <2>1
  <2>6. at'[t] \in {"copy", "replace"}
    BY <2>1
  <2>7. \A u \in Thread : u # t => at'[u] = at[u] /\ request'[u] = request[u] /\ list'[u] = list[u]
    BY <2>1
  <2>8. QED
    BY <1>1, <1>2, <2>1, <2>4, <2>5, <2>6, <2>7
<1>4. CASE request' = [request EXCEPT ![t] = NoRequest] /\ Raised(t) /\ UNCHANGED list
  BY <1>1, <1>2, <1>4 DEF Raised
<1>5. QED
  BY <1>3, <1>4 DEF Load

\* ... Rewrite.
LEMMA RewriteFacts ==
  ASSUME TypeOK, NEW t \in Thread, Rewrite(t)
  PROVE  /\ at[t] \in InFile /\ at'[t] \notin InFile
         /\ t = Importer => at'[t] = "pick" /\ entry' = None
         /\ t # Importer => UNCHANGED <<mem, keys, entry>>
         /\ \A u \in Thread : u # t => at'[u] = at[u] /\ request'[u] = request[u] /\ list'[u] = list[u]
         /\ UNCHANGED <<inPlace, saved, overlapped, cut>>
         /\ disk' = list[t] \/ (at[t] = "write" /\ disk # Empty)
         /\ confirmed' = Changed(confirmed, request[t].from, request[t].to)
         /\ added' = added \cup ({request[t].to} \ {None})
<1>1. confirmed' = Changed(confirmed, request[t].from, request[t].to)
  BY DEF Rewrite, Finished, Changed
<1>2. QED
  BY <1>1, Constants DEF TypeOK, ThreadsOK, Rewrite, Finished, Goto, InFile

\* ... and keeps the writers apart while nobody loads the file beside one.
LEMMA FileStep ==
  ASSUME TypeOK, FileInv, [Next]_vars
  PROVE  FileInv'
<1> USE Constants DEF TypeOK, ThreadsOK, HistoryOK, FileInv
<1>1. ASSUME NEW t \in Thread, Load(t) PROVE FileInv'
  BY <1>1, LoadSteps DEF files
<1>2. ASSUME NEW t \in Thread, Rewrite(t) PROVE FileInv'
  BY <1>2, RewriteFacts DEF InFile
<1>3. ASSUME NEW t \in Thread, Copy(t) PROVE FileInv'
  BY <1>3 DEF Copy, Goto, InFile, history
<1>4. ASSUME NEW t \in Thread, Truncate(t) PROVE FileInv'
  BY <1>4 DEF Truncate, Goto, InFile, history
<1>5. ASSUME NEW t \in Thread, WriteFails(t) PROVE FileInv'
  BY <1>5 DEF WriteFails, Goto, InFile, files
<1>6. CASE Crash
  BY <1>6 DEF Crash, InFile
<1>7. CASE Quiet
  BY <1>7 DEF Quiet, files, InFile
<1>8. QED
  BY <1>1, <1>2, <1>3, <1>4, <1>5, <1>6, <1>7, Steps, QuietSteps

\* ... the finished operations in the file.
LEMMA LossStep ==
  ASSUME TypeOK, FileInv, LossExplained, LossInv, [Next]_vars
  PROVE  LossExplained' /\ LossInv'
<1> USE Constants DEF TypeOK, ThreadsOK, FilesOK, HistoryOK, FileInv, LossExplained, LossInv, Promised
<1>1. ASSUME NEW t \in Thread, Load(t) PROVE LossExplained' /\ LossInv'
  <2>1. SUFFICES ASSUME ~overlapped', ~cut' PROVE LossExplained' /\ LossInv'
    OBVIOUS
  <2>2. \A u \in Thread : at[u] \notin InFile /\ at[u] # "write"
    BY <1>1, <2>1, LoadSteps DEF InFile
  <2>3. disk = confirmed /\ Loaded = confirmed
    BY <1>1, <2>1, <2>2, LoadSteps, LoadedList
  <2>4. QED
    BY <1>1, <2>1, <2>2, <2>3, LoadSteps DEF files
<1>2. ASSUME NEW t \in Thread, Rewrite(t) PROVE LossExplained' /\ LossInv'
  <2>1. SUFFICES ASSUME ~overlapped', ~cut' PROVE LossExplained' /\ LossInv'
    OBVIOUS
  <2>2. ~overlapped /\ ~cut /\ at[t] \in InFile
    BY <1>2, <2>1, RewriteFacts
  <2>3. \A u \in Thread : at'[u] \notin InFile
    BY <1>2, <2>2, RewriteFacts
  <2>4. disk' = list[t] /\ confirmed' = Promised(t)
    BY <1>2, <2>2, RewriteFacts
  <2>5. QED
    BY <2>2, <2>3, <2>4
<1>3. ASSUME NEW t \in Thread, Copy(t) PROVE LossExplained' /\ LossInv'
  BY <1>3 DEF Copy, Goto, InFile, history
<1>4. ASSUME NEW t \in Thread, Truncate(t) PROVE LossExplained' /\ LossInv'
  BY <1>4 DEF Truncate, Goto, InFile, history
<1>5. ASSUME NEW t \in Thread, WriteFails(t) PROVE LossExplained' /\ LossInv'
  BY <1>5 DEF WriteFails, Goto, InFile, files
<1>6. CASE Crash
  BY <1>6 DEF Crash, InFile, files
<1>7. CASE Quiet
  BY <1>7 DEF Quiet, files, InFile
<1>8. QED
  BY <1>1, <1>2, <1>3, <1>4, <1>5, <1>6, <1>7, Steps, QuietSteps

\* ... the copies of what the file has lost.
LEMMA RecoverStep ==
  ASSUME TypeOK, FileInv, RecoverInv, [Next]_vars
  PROVE  RecoverInv'
<1> USE Constants DEF TypeOK, ThreadsOK, FilesOK, HistoryOK, FileInv, RecoverInv, Promised
<1>1. ASSUME NEW t \in Thread, Load(t) PROVE RecoverInv'
  <2>1. SUFFICES ASSUME ~overlapped' PROVE RecoverInv'
    BY DEF RecoverInv
  <2>2. ~overlapped /\ UNCHANGED <<disk, saved, confirmed>>
    BY <1>1, <2>1, LoadSteps DEF files
  <2>3. \A u \in Thread : u # t => at'[u] \notin InFile
    BY <1>1, <2>1, LoadSteps
  <2>4. Loaded' = Loaded
    BY <2>2 DEF Loaded
  <2>5. ASSUME at'[t] \in InFile, NEW c \in Company \ saved
        PROVE  Copies(c, list'[t]) = Copies(c, Promised(t)')
    <3>1. request'[t].to \in Company \cup {None}
      <4>1. request[t] \in Request
        OBVIOUS
      <4>2. QED
        BY <1>1, <2>5, <4>1, LoadSteps, Target
    <3>2. Copies(c, Loaded) = Copies(c, confirmed)
      BY <2>2
    <3>3. IsList(Loaded) /\ IsList(confirmed)
      BY LoadedList
    <3>4. list'[t] = Changed(Loaded, request'[t].from, request'[t].to)
      BY <1>1, <2>5, LoadSteps
    <3>5. QED
      BY <2>2, <3>1, <3>2, <3>3, <3>4, ChangedAlike
  <2>6. \A u \in Thread : at'[u] # "truncate"
    BY <1>1, <2>3, LoadSteps DEF InFile
  <2>7. QED
    BY <2>2, <2>3, <2>4, <2>5, <2>6
<1>2. ASSUME NEW t \in Thread, Rewrite(t) PROVE RecoverInv'
  <2>1. SUFFICES ASSUME ~overlapped' PROVE RecoverInv'
    BY DEF RecoverInv
  <2>2. ~overlapped /\ at[t] \in InFile /\ saved' = saved
    BY <1>2, <2>1, RewriteFacts
  <2>3. \A u \in Thread : at'[u] \notin InFile /\ at'[u] # "truncate"
    BY <1>2, <2>2, RewriteFacts DEF InFile
  <2>4. disk' = list[t] /\ confirmed' = Promised(t)
    BY <1>2, <2>2, RewriteFacts
  <2>5. Loaded' = list[t]
    BY <2>4, LoadedList DEF Loaded
  <2>6. QED
    BY <2>2, <2>3, <2>4, <2>5
<1>3. ASSUME NEW t \in Thread, Copy(t) PROVE RecoverInv'
  <2>1. saved' = saved \cup DOMAIN Loaded /\ Loaded' = Loaded
    BY <1>3 DEF Copy, Loaded
  <2>2. /\ UNCHANGED <<request, list, confirmed, overlapped>>
        /\ \A u \in Thread : at'[u] \in InFile => at[u] \in InFile
    BY <1>3 DEF Copy, Goto, InFile, history
  <2>3. QED
    BY <2>1, <2>2
<1>4. ASSUME NEW t \in Thread, Truncate(t) PROVE RecoverInv'
  <2>1. /\ UNCHANGED <<request, list, confirmed, overlapped, saved>>
        /\ at[t] = "truncate" /\ at[t] \in InFile /\ at'[t] = "write"
        /\ \A u \in Thread : at'[u] \in InFile => at[u] \in InFile
        /\ \A u \in Thread : u # t => at'[u] = at[u]
    BY <1>4 DEF Truncate, Goto, InFile, history
  <2>2. Loaded' = EmptyBag
    BY <1>4 DEF Truncate, Loaded
  <2>3. ASSUME ~overlapped, NEW c \in Company \ saved
        PROVE  Copies(c, Loaded') = Copies(c, Loaded)
    BY <2>1, <2>2, <2>3, LoadedList DEF Copies
  <2>4. \A u \in Thread : ~overlapped => at'[u] # "truncate"
    BY <2>1 DEF InFile
  <2>5. QED
    BY <2>1, <2>3, <2>4
<1>5. ASSUME NEW t \in Thread, WriteFails(t) PROVE RecoverInv'
  <2>1. /\ UNCHANGED <<disk, saved, confirmed, overlapped>> /\ at'[t] = "idle"
        /\ \A u \in Thread : u # t => at'[u] = at[u] /\ request'[u] = request[u] /\ list'[u] = list[u]
    BY <1>5 DEF WriteFails, Goto, files
  <2>2. Loaded' = Loaded
    BY <2>1 DEF Loaded
  <2>3. QED
    BY <2>1, <2>2 DEF InFile
<1>6. CASE Crash
  <2>1. UNCHANGED <<disk, saved, confirmed, overlapped>> /\ \A u \in Thread : at'[u] = "idle"
    BY <1>6 DEF Crash, files
  <2>2. Loaded' = Loaded
    BY <2>1 DEF Loaded
  <2>3. QED
    BY <2>1, <2>2 DEF InFile
<1>7. CASE Quiet
  <2>1. Loaded' = Loaded
    BY <1>7 DEF Quiet, files, Loaded
  <2>2. QED
    BY <1>7, <2>1 DEF Quiet, files, InFile
<1>8. QED
  BY <1>1, <1>2, <1>3, <1>4, <1>5, <1>6, <1>7, Steps, QuietSteps

\* ... the companies behind the decisions.
LEMMA DecisionStep ==
  ASSUME TypeOK, RequestInv, DecisionsBacked, DecisionInv, [Next]_vars
  PROVE  DecisionsBacked' /\ DecisionInv'
<1> USE Constants DEF TypeOK, ThreadsOK, FilesOK, ImportOK, DecisionsBacked, DecisionInv
<1>1. ASSUME NEW t \in Thread, Load(t) PROVE DecisionsBacked' /\ DecisionInv'
  <2>1. UNCHANGED <<catalog, proposal, added>>
    BY <1>1 DEF Load
  <2>2. \A e \in Entry : mem'[e] = "active" => mem[e] = "active"
    BY <1>1, LoadSteps DEF Raised
  <2>3. at'[t] # "commit"
    BY <1>1, LoadSteps DEF Raised, Goto, InFile
  <2>4. QED
    BY <1>1, <2>1, <2>2, <2>3, LoadSteps
<1>2. ASSUME NEW t \in Thread, Rewrite(t) PROVE DecisionsBacked' /\ DecisionInv'
  <2>1. UNCHANGED <<catalog, proposal>> /\ added \subseteq added'
    BY <1>2, RewriteFacts DEF Rewrite
  <2>2. request[t] \in Request /\ request'[t].proposal = request[t].proposal
    <3>1. /\ request[t] \in Request
          /\ request'[t] = [NoRequest EXCEPT !.proposal = request[t].proposal]
      BY <1>2 DEF Rewrite, Finished
    <3>2. [NoRequest EXCEPT !.proposal = request[t].proposal].proposal = request[t].proposal
      BY DEF NoRequest
    <3>3. QED
      BY <3>1, <3>2
  <2>3. CASE t = Importer
    <3>1. entry \in Entry /\ request[t].to = CompanyOf[entry]
      BY <1>2, <2>3, RewriteFacts DEF RequestInv, Adds
    <3>2. CompanyOf[entry] \in added'
      BY <1>2, <3>1, RewriteFacts
    <3>3. mem' = [mem EXCEPT ![entry] = "active"]
      BY <1>2, <2>3 DEF Rewrite, Finished
    <3>4. QED
      BY <1>2, <2>1, <2>3, <3>2, <3>3, RewriteFacts
  <2>4. CASE t # Importer
    <3>1. at'[t] = "commit" => request[t].proposal # None
      BY <1>2, <2>4 DEF Rewrite, Finished, Goto
    <3>2. at'[t] = "commit" => CompanyOf[request'[t].proposal] \in added'
      <4>1. SUFFICES ASSUME at'[t] = "commit" PROVE CompanyOf[request'[t].proposal] \in added'
        OBVIOUS
      <4>2. request[t].proposal \in Proposal
        BY <2>2, <3>1, <4>1 DEF Request
      <4>3. request[t].to = CompanyOf[request[t].proposal]
        BY <1>2, <3>1, <4>1, RewriteFacts DEF RequestInv, Adds
      <4>4. QED
        BY <1>2, <2>2, <4>2, <4>3, RewriteFacts
    <3>3. QED
      BY <1>2, <2>1, <2>4, <3>2, RewriteFacts
  <2>5. QED
    BY <2>3, <2>4
<1>3. ASSUME NEW t \in Thread, Copy(t) PROVE DecisionsBacked' /\ DecisionInv'
  BY <1>3 DEF Copy, Goto, history, import
<1>4. ASSUME NEW t \in Thread, Truncate(t) PROVE DecisionsBacked' /\ DecisionInv'
  BY <1>4 DEF Truncate, Goto, history, import
<1>5. ASSUME NEW t \in Thread, WriteFails(t) PROVE DecisionsBacked' /\ DecisionInv'
  <2>1. \A e \in Entry : mem'[e] = "active" => mem[e] = "active"
    BY <1>5 DEF WriteFails, EndImport, import
  <2>2. QED
    BY <1>5, <2>1 DEF WriteFails, Goto
<1>6. ASSUME NEW c \in Client, Asked(c) PROVE DecisionsBacked' /\ DecisionInv'
  BY <1>6 DEF Asked, Ask, Goto, history, import
<1>7. ASSUME NEW c \in Client, Decided(c) PROVE DecisionsBacked' /\ DecisionInv'
  <2>1. /\ UNCHANGED <<catalog, mem, added>> /\ at'[c] = "idle"
        /\ \A u \in Thread : u # c => at'[u] = at[u] /\ request'[u] = request[u]
    BY <1>7 DEF Decided, Goto, history, import
  <2>2. \A p \in Proposal : proposal'[p] = "approved" =>
          \/ proposal[p] = "approved"
          \/ at[c] = "commit" /\ p = request[c].proposal
    BY <1>7 DEF Decided
  <2>3. QED
    BY <2>1, <2>2
<1>8. CASE ImportRead
  <2>1. \A e \in Entry : mem'[e] = "active" => catalog[e] = "active"
    BY <1>8 DEF ImportRead
  <2>2. QED
    BY <1>8, <2>1 DEF ImportRead, Goto, history
<1>9. CASE ImportKeys
  BY <1>9 DEF ImportKeys, Goto
<1>10. CASE ImportEntry
  <2>1. \A e \in Entry : mem'[e] = "active" => mem[e] = "active"
    BY <1>10 DEF ImportEntry
  <2>2. UNCHANGED <<catalog, proposal, added>>
    BY <1>10 DEF ImportEntry, history
  <2>3. \A u \in Thread : at'[u] = "commit" => at[u] = "commit" /\ request'[u] = request[u]
    <3>1. \/ UNCHANGED <<at, request>>
          \/ /\ \E r : request' = [request EXCEPT ![Importer] = r]
             /\ at' = [at EXCEPT ![Importer] = "load"]
      BY <1>10 DEF ImportEntry, Goto
    <3>2. QED
      BY <3>1
  <2>4. QED
    BY <2>1, <2>2, <2>3
<1>11. CASE ImportSave
  BY <1>11 DEF ImportSave, EndImport, Goto, history
<1>12. CASE ImportFails
  BY <1>12 DEF ImportFails, EndImport, Goto, history
<1>13. CASE Suggest
  BY <1>13 DEF Suggest, threads, history, import
<1>14. CASE Crash
  BY <1>14 DEF Crash, EndImport
<1>15. CASE UNCHANGED vars
  BY <1>15 DEF vars, threads, history, import
<1>16. QED
  BY <1>1, <1>2, <1>3, <1>4, <1>5, <1>6, <1>7, <1>8, <1>9, <1>10, <1>11, <1>12, <1>13,
     <1>14, <1>15, Steps

\* ... the import past its keys, from then on until it ends.
Busy == at[Importer] \in {"pick", "load"} \cup InFile

\* A list that holds no more of the imported companies than B is as free of twins.
LEMMA FewerTwins ==
  ASSUME NEW B, IsList(B), NEW D, IsList(D), NEW X, NEW Y,
         TwinFree(B, X), SitesKnown(B, X), X \subseteq Y,
         \A c : c \notin Y => Copies(c, D) <= Copies(c, B)
  PROVE  TwinFree(D, Y) /\ SitesKnown(D, Y)
<1>1. ASSUME NEW c \in (imported \cap DOMAIN D) \ Y
      PROVE  c \in (imported \cap DOMAIN B) \ X /\ (B[c] = 1 => D[c] = 1)
  <2>1. Copies(c, D) <= Copies(c, B) /\ Copies(c, D) > 0
    BY <1>1, CopiesOf
  <2>2. Copies(c, B) \in Nat /\ Copies(c, D) \in Nat
    BY CopiesOf
  <2>3. c \in DOMAIN B /\ Copies(c, D) = D[c] /\ Copies(c, B) = B[c]
    BY <1>1, <2>1, <2>2, CopiesOf
  <2>4. QED
    BY <1>1, <2>1, <2>2, <2>3
<1>2. QED
  BY <1>1 DEF TwinFree, SitesKnown

\* ... and the portals of the import without twins.
LEMMA TwinStep ==
  ASSUME TypeOK, RequestInv, FileInv, TwinInv, [Next]_vars
  PROVE  TwinInv'
<1> USE Constants DEF TypeOK, ThreadsOK, FilesOK, HistoryOK
<1>1. ASSUME NEW t \in Thread, Load(t) PROVE TwinInv'
  <2>1. IsList(Loaded) /\ request[t] \in Request
    BY LoadedList
  <2>2. UNCHANGED <<disk, imported, keys>> /\ Loaded' = Loaded
    BY <1>1, LoadSteps DEF files, Loaded
  <2>3. (at'[Importer] \in {"pick", "load"} \cup InFile) => at[Importer] \in {"pick", "load"} \cup InFile
    BY <1>1, LoadSteps
  <2>4. at'[t] \in InFile => /\ request'[t].to \in Company \cup {None}
                           /\ list'[t] = Changed(Loaded, request'[t].from, request'[t].to)
                           /\ IsList(list'[t])
    <3>1. SUFFICES ASSUME at'[t] \in InFile
                   PROVE  /\ request'[t].to \in Company \cup {None}
                          /\ list'[t] = Changed(Loaded, request'[t].from, request'[t].to)
                          /\ IsList(list'[t])
      OBVIOUS
    <3>2. request'[t].to \in Company \cup {None}
      BY <1>1, <2>1, <3>1, LoadSteps, Target
    <3>3. list'[t] = Changed(Loaded, request'[t].from, request'[t].to)
      BY <1>1, <3>1, LoadSteps
    <3>4. QED
      BY <2>1, <3>2, <3>3, ChangedList
  <2>5. ASSUME ~overlapped'
        PROVE  /\ TwinFree(Loaded, {})' /\ SitesKnown(Loaded, {})'
               /\ at'[t] \in InFile =>
                    /\ TwinFree(list[t], {request[t].to})'
                    /\ SitesKnown(list[t], {request[t].to})'
    <3>1. ~overlapped
      BY <1>1, <2>5, LoadSteps
    <3>2. TwinFree(Loaded, {}) /\ SitesKnown(Loaded, {})
      BY <3>1 DEF TwinInv
    <3>4. at'[t] \in InFile => TwinFree(list'[t], {request'[t].to}) /\ SitesKnown(list'[t], {request'[t].to})
      <4>1. SUFFICES ASSUME at'[t] \in InFile
                     PROVE  TwinFree(list'[t], {request'[t].to}) /\ SitesKnown(list'[t], {request'[t].to})
        OBVIOUS
      <4>2. \A c : c \notin {request'[t].to} => Copies(c, list'[t]) <= Copies(c, Loaded)
        BY <2>1, <2>4, <4>1, ChangedList
      <4>3. QED
        BY <2>1, <2>4, <3>2, <4>1, <4>2, FewerTwins
    <3>5. TwinFree(Loaded, {})' /\ SitesKnown(Loaded, {})'
      BY <2>2, <2>3, <3>2 DEF TwinFree, SitesKnown
    <3>6. at'[t] \in InFile =>
            TwinFree(list[t], {request[t].to})' /\ SitesKnown(list[t], {request[t].to})'
      BY <2>2, <2>3, <3>4 DEF TwinFree, SitesKnown
    <3>7. QED
      BY <3>5, <3>6
  <2>6. ~overlapped' => \A u \in Thread : at'[u] \in InFile => u = t
    BY <1>1, LoadSteps
  <2>7. entry' # None => KeysOf(CompanyOf[entry']) \cap keys' = {}
    <3>1. entry' = None \/ entry' = entry
      BY <1>1, LoadSteps DEF Raised
    <3>2. QED
      BY <2>2, <3>1 DEF TwinInv
  <2>8. at'[Importer] \in InFile => Copies(CompanyOf[entry'], list'[Importer]) = 1
    <3>1. CASE t = Importer
      <4>1. SUFFICES ASSUME at'[t] \in InFile
                     PROVE  Copies(CompanyOf[entry'], list'[t]) = 1
        BY <3>1
      <4>2. entry # None /\ entry' = entry
        BY <1>1, <3>1, <4>1, LoadSteps DEF ImportOK
      <4>3. entry \in Entry /\ Adds(request[t], CompanyOf[entry])
        BY <3>1, <4>2 DEF RequestInv
      <4>4. request'[t].to \in Targets(request[t], Loaded)
        BY <1>1, <4>1, LoadSteps
      <4>5. request'[t].to = CompanyOf[entry] /\ Name[CompanyOf[entry]] \notin Names(Loaded)
        BY <2>1, <4>3, <4>4, Target DEF Adds
      <4>6. CompanyOf[entry] \notin DOMAIN Loaded
        BY <4>5 DEF Names
      <4>7. QED
        BY <2>1, <2>4, <4>1, <4>2, <4>3, <4>5, <4>6, ChangedList
    <3>2. CASE t # Importer
      <4>1. at'[Importer] = at[Importer] /\ list'[Importer] = list[Importer]
        BY <1>1, <3>2, LoadSteps
      <4>2. entry' = entry
        BY <1>1, <3>2, LoadSteps DEF Raised
      <4>3. QED
        BY <4>1, <4>2 DEF TwinInv
    <3>3. QED
      BY <3>1, <3>2
  <2>9. ~overlapped' => \A u \in Thread : at'[u] \in InFile =>
          TwinFree(list[u], {request[u].to})' /\ SitesKnown(list[u], {request[u].to})'
    BY <2>5, <2>6
  <2>10. QED
    BY <2>5, <2>7, <2>8, <2>9 DEF TwinInv
<1>2. ASSUME NEW t \in Thread, Rewrite(t) PROVE TwinInv'
  <2>1. ASSUME ~overlapped'
        PROVE  TwinFree(Loaded, {})' /\ SitesKnown(Loaded, {})'
    <3>1. ~overlapped /\ at[t] \in InFile /\ disk' = list[t]
      BY <1>2, <2>1, RewriteFacts DEF FileInv
    <3>2. Loaded' = list[t] /\ IsList(list[t])
      BY <3>1, LoadedList DEF Loaded
    <3>3. TwinFree(list[t], {request[t].to}) /\ SitesKnown(list[t], {request[t].to})
      BY <3>1 DEF TwinInv
    <3>4. CASE t = Importer
      <4>1. entry \in Entry /\ request[t].to = CompanyOf[entry]
        BY <3>1, <3>4 DEF RequestInv, ImportOK, Adds
      <4> DEFINE k == CompanyOf[entry]
      <4>2. Site[k] \notin keys /\ list[t][k] = 1
        <5>1. entry # None /\ Copies(k, list[t]) = 1
          BY <3>1, <3>4, <4>1 DEF TwinInv
        <5>2. Site[k] \in KeysOf(k)
          BY DEF KeysOf
        <5>3. QED
          BY <5>1, <5>2 DEF TwinInv, Copies
      <4>3. keys' = keys \cup KeysOf(k) /\ imported' = imported \cup {k}
        BY <1>2, <3>4, <4>1 DEF Rewrite, Finished
      <4>4. \A c \in (imported \cap DOMAIN list[t]) \ {k} : Site[c] \in keys
        BY <3>1, <3>3, <3>4, <4>1 DEF SitesKnown
      <4>5. \A c, d \in (imported \cap DOMAIN list[t]) \ {k} :
              Site[c] = Site[d] => c = d /\ list[t][c] = 1
        BY <3>3, <4>1 DEF TwinFree
      <4>6. \A c, d \in imported' \cap DOMAIN list[t] : Site[c] = Site[d] => c = d /\ list[t][c] = 1
        BY <4>2, <4>3, <4>4, <4>5
      <4>7. \A c \in imported' \cap DOMAIN list[t] : Site[c] \in keys'
        BY <4>3, <4>4 DEF KeysOf
      <4>8. QED
        BY <3>2, <4>6, <4>7 DEF TwinFree, SitesKnown
    <3>5. CASE t # Importer
      <4>1. imported' = imported \ {request[t].from, request[t].to} /\ keys' = keys
        BY <1>2, <3>5 DEF Rewrite, Finished
      <4>2. at'[Importer] = at[Importer]
        BY <1>2, <3>5, RewriteFacts
      <4>3. QED
        BY <3>2, <3>3, <4>1, <4>2 DEF TwinFree, SitesKnown
    <3>6. QED
      BY <3>4, <3>5
  <2>2. ~overlapped' => \A u \in Thread : at'[u] \notin InFile
    BY <1>2, RewriteFacts DEF FileInv
  <2>3. entry' # None => KeysOf(CompanyOf[entry']) \cap keys' = {}
    BY <1>2, RewriteFacts DEF TwinInv
  <2>4. at'[Importer] \in InFile => Copies(CompanyOf[entry'], list'[Importer]) = 1
    BY <1>2, RewriteFacts DEF TwinInv
  <2>5. QED
    BY <2>1, <2>2, <2>3, <2>4 DEF TwinInv
<1>3. ASSUME NEW t \in Thread, Copy(t) PROVE TwinInv'
  <2>1. /\ UNCHANGED <<disk, request, list, imported, keys, entry, overlapped>> /\ Loaded' = Loaded
        /\ \A u \in Thread : at'[u] \in InFile <=> at[u] \in InFile
        /\ Busy' <=> Busy
    BY <1>3 DEF Copy, Goto, InFile, history, import, Loaded, Busy
  <2>2. QED
    BY <2>1 DEF TwinInv, TwinFree, SitesKnown, Busy
<1>4. ASSUME NEW t \in Thread, Truncate(t) PROVE TwinInv'
  <2>1. /\ UNCHANGED <<request, list, imported, keys, entry, overlapped>>
        /\ \A u \in Thread : at'[u] \in InFile <=> at[u] \in InFile
        /\ Busy' <=> Busy
    BY <1>4 DEF Truncate, Goto, InFile, history, import, Busy
  <2>2. Loaded' = EmptyBag /\ DOMAIN EmptyBag = {}
    BY <1>4, LoadedList DEF Truncate, Loaded
  <2>3. QED
    BY <2>1, <2>2 DEF TwinInv, TwinFree, SitesKnown, Busy
<1>5. ASSUME NEW t \in Thread, WriteFails(t) PROVE TwinInv'
  <2>1. /\ UNCHANGED <<disk, imported, overlapped>> /\ at'[t] = "idle"
        /\ \A u \in Thread : u # t => at'[u] = at[u] /\ request'[u] = request[u] /\ list'[u] = list[u]
    BY <1>5 DEF WriteFails, Goto, files
  <2>2. Loaded' = Loaded /\ (Busy' => Busy /\ t # Importer)
    BY <2>1 DEF Loaded, Busy, InFile
  <2>3. CASE t = Importer
    <3>1. entry' = None
      BY <1>5, <2>3 DEF WriteFails, EndImport
    <3>2. QED
      BY <2>1, <2>2, <2>3, <3>1 DEF TwinInv, TwinFree, SitesKnown, Busy, InFile
  <2>4. CASE t # Importer
    <3>1. UNCHANGED <<entry, keys>>
      BY <1>5, <2>4 DEF WriteFails, import
    <3>2. QED
      BY <2>1, <2>2, <2>4, <3>1 DEF TwinInv, TwinFree, SitesKnown, Busy, InFile
  <2>5. QED
    BY <2>3, <2>4
<1>6. CASE Crash
  <2>1. /\ UNCHANGED <<disk, imported, overlapped>> /\ entry' = None
        /\ \A u \in Thread : at'[u] = "idle"
    BY <1>6 DEF Crash, EndImport, files
  <2>2. Loaded' = Loaded /\ ~Busy'
    BY <2>1 DEF Loaded, Busy, InFile
  <2>3. QED
    BY <2>1, <2>2 DEF TwinInv, TwinFree, SitesKnown, Busy, InFile
<1>7. ASSUME Quiet, UNCHANGED <<keys, entry>>, Busy' => Busy PROVE TwinInv'
  <2>1. /\ UNCHANGED <<disk, list, imported, keys, entry>> /\ Loaded' = Loaded
        /\ overlapped => overlapped'
        /\ \A u \in Thread : at'[u] \in InFile => at[u] \in InFile /\ request'[u] = request[u]
    BY <1>7 DEF Quiet, files, Loaded
  <2>2. QED
    BY <1>7, <2>1 DEF TwinInv, TwinFree, SitesKnown, Busy
<1>8. ASSUME NEW c \in Client, Asked(c) \/ Decided(c) PROVE TwinInv'
  <2>1. Quiet /\ UNCHANGED <<keys, entry>> /\ at'[Importer] = at[Importer]
    BY <1>8, QuietSteps DEF Asked, Ask, Decided, Goto, import
  <2>2. QED
    BY <1>7, <2>1 DEF Busy
<1>9. CASE ImportRead
  <2>1. Quiet /\ UNCHANGED <<keys, entry>> /\ at'[Importer] = "keys"
    BY <1>9, QuietSteps DEF ImportRead, Goto
  <2>2. QED
    BY <1>7, <2>1 DEF Busy, InFile
<1>10. CASE ImportKeys
  <2>1. /\ UNCHANGED <<disk, list, request, imported>> /\ Loaded' = Loaded
        /\ at[Importer] = "keys" /\ at' = [at EXCEPT ![Importer] = "pick"] /\ entry' = entry
        /\ keys' = UNION {KeysOf(c) : c \in DOMAIN Loaded}
        /\ overlapped' = (overlapped \/ SomeoneElse(Importer))
    BY <1>10 DEF ImportKeys, Goto, files, Loaded
  <2>2. entry = None
    BY <2>1 DEF ImportOK, InFile
  <2>3. ~overlapped' => \A u \in Thread : at'[u] \notin InFile
    BY <2>1 DEF SomeoneElse, InFile
  <2>4. \A c \in imported \cap DOMAIN Loaded : Site[c] \in keys'
    BY <2>1 DEF KeysOf
  <2>5. at'[Importer] \notin InFile
    BY <2>1 DEF InFile
  <2>6. QED
    BY <2>1, <2>2, <2>3, <2>4, <2>5 DEF TwinInv, TwinFree, SitesKnown
<1>11. CASE ImportEntry
  <2>1. Quiet /\ keys' = keys /\ at[Importer] = "pick"
    BY <1>11, QuietSteps DEF ImportEntry
  <2>2. \/ UNCHANGED entry
        \/ entry' # None /\ KeysOf(CompanyOf[entry']) \cap keys' = {}
    BY <1>11, <2>1 DEF ImportEntry, Waiting
  <2>3. /\ UNCHANGED <<disk, list, imported>> /\ Loaded' = Loaded
        /\ overlapped => overlapped'
        /\ \A u \in Thread : at'[u] \in InFile => at[u] \in InFile /\ request'[u] = request[u]
    BY <2>1 DEF Quiet, files, Loaded
  <2>4. Busy /\ at[Importer] \notin InFile /\ at'[Importer] \notin InFile
    BY <2>1, <2>3 DEF Busy, InFile
  <2>5. QED
    BY <2>1, <2>2, <2>3, <2>4 DEF TwinInv, TwinFree, SitesKnown, Busy
<1>12. CASE ImportSave \/ ImportFails
  <2>1. Quiet /\ at'[Importer] = "idle" /\ entry' = None
    BY <1>12, QuietSteps DEF ImportSave, ImportFails, EndImport, Goto
  <2>2. /\ UNCHANGED <<disk, list, imported>> /\ Loaded' = Loaded
        /\ overlapped => overlapped'
        /\ \A u \in Thread : at'[u] \in InFile => at[u] \in InFile /\ request'[u] = request[u]
    BY <2>1 DEF Quiet, files, Loaded
  <2>3. at'[Importer] \notin {"pick", "load"} \cup InFile
    BY <2>1 DEF InFile
  <2>4. QED
    BY <2>1, <2>2, <2>3 DEF TwinInv, TwinFree, SitesKnown
<1>13. CASE Suggest \/ UNCHANGED vars
  <2>1. Quiet /\ UNCHANGED <<keys, entry, at>>
    BY <1>13, QuietSteps DEF Suggest, vars, threads, import
  <2>2. QED
    BY <1>7, <2>1 DEF Busy
<1>14. QED
  BY <1>1, <1>2, <1>3, <1>4, <1>5, <1>6, <1>8, <1>9, <1>10, <1>11, <1>12, <1>13, Steps

--------------------------------------------------------------------------------
(* The theorems.                                                           *)

\* The companies at the start are on disk, and nothing runs.
LEMMA InitInv == Init => IInv
<1> SUFFICES ASSUME Init PROVE IInv
  OBVIOUS
<1>1. IsList(SetToBag(Initial)) /\ IsList(EmptyBag)
  BY ConstantsOK DEF IsList, IsABag, SetToBag, EmptyBag
<1>2. FilesOK /\ HistoryOK
  BY <1>1 DEF Init, FilesOK, HistoryOK, Status
<1>3. ThreadsOK
  BY <1>1, RequestShapes DEF Init, ThreadsOK, At
<1>4. ImportOK
  BY Constants DEF Init, ImportOK, Status, InFile
<1>5. TypeOK
  BY <1>2, <1>3, <1>4 DEF TypeOK
<1>6. \A t \in Thread : at[t] = "idle"
  BY DEF Init
<1>7. RequestInv
  BY <1>6, Constants DEF Init, RequestInv, InFile
<1>8. Loaded = confirmed /\ disk = confirmed
  BY <1>1, <1>5, LoadedList DEF Init
<1>9. FileInv /\ LossExplained /\ LossInv /\ RecoverInv
  BY <1>6, <1>8 DEF FileInv, LossExplained, LossInv, RecoverInv, InFile
<1>10. DecisionsBacked /\ DecisionInv
  BY <1>6 DEF Init, DecisionsBacked, DecisionInv
<1>11. TwinInv
  <2>1. imported = {} /\ entry = None
    BY DEF Init
  <2>2. QED
    BY <1>6, <2>1, Constants DEF TwinInv, TwinFree, SitesKnown, InFile
<1>12. QED
  BY <1>5, <1>7, <1>9, <1>10, <1>11 DEF IInv

\* A step of a writer, a request, the import, the discovery or a crash preserves
\* the invariant.
LEMMA StepInv == IInv /\ [Next]_vars => IInv'
BY TypeStep, RequestStep, FileStep, LossStep, RecoverStep, DecisionStep, TwinStep DEF IInv

\* The invariant holds of every behaviour of companies.json and its writers.
THEOREM InvHolds == Spec => []IInv
BY InitInv, StepInv, PTL DEF Spec

\* The files, the threads and the import keep their types, and a thread holds
\* what belongs to the place where it stands.
THEOREM TypeHolds == Spec => []TypeOK
<1>1. IInv => TypeOK
  BY DEF IInv
<1>2. QED
  BY <1>1, InvHolds, PTL

\* The file holds exactly what the finished operations make, one after another,
\* unless a load overlapped a write or a write in place broke off.
THEOREM LossHolds == Spec => []LossExplained
<1>1. IInv => LossExplained
  BY DEF IInv
<1>2. QED
  BY <1>1, InvHolds, PTL

\* Without overlaps no company that was ever promised is lost for good, wherever
\* a write in place breaks off: it is in the file or in a copy.
THEOREM RecoverableHolds == Spec => []Recoverable
<1>1. ASSUME IInv, ~overlapped, NEW c \in DOMAIN confirmed, c \notin saved
      PROVE  c \in DOMAIN Loaded
  <2>1. IsList(confirmed) /\ IsList(Loaded)
    BY <1>1, LoadedList DEF IInv, TypeOK, HistoryOK
  <2>2. c \in Company \ saved
    BY <1>1, <2>1 DEF IsList
  <2>3. Copies(c, Loaded) = Copies(c, confirmed)
    BY <1>1, <2>2 DEF IInv, RecoverInv
  <2>4. QED
    BY <1>1, <2>1, <2>3, CopiesOf
<1>2. IInv => Recoverable
  BY <1>1 DEF Recoverable
<1>3. QED
  BY <1>2, InvHolds, PTL

\* An entry is active, and a proposal approved, only after its company was
\* written to companies.json.
THEOREM DecisionsHold == Spec => []DecisionsBacked
<1>1. IInv => DecisionsBacked
  BY DEF IInv
<1>2. QED
  BY <1>1, InvHolds, PTL

\* The import never adds two portals of one site, however its batches fail or
\* crash, unless a load overlapped a write.
THEOREM NoTwinsHolds == Spec => []NoTwins
<1>1. IInv => NoTwins
  BY DEF IInv, TwinInv, TwinFree, NoTwins
<1>2. QED
  BY <1>1, InvHolds, PTL

================================================================================

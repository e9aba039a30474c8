------------------------------ MODULE PanelProofs ------------------------------
(***************************************************************************)
(* Proofs about Panel for any threads, workloads and data: the invariants  *)
(* the run checks.  Every component has an inductive invariant of its own, *)
(* about its variables and the calls that run its operations.  Its own     *)
(* steps are examined one by one; those of the others are dealt with once, *)
(* by the lemma Frames: the variables of a component stay, and so do the   *)
(* calls of its operations, but for requests to the model, which           *)
(* OllamaCalls serves for the document studio and the semantic index.      *)
(***************************************************************************)
EXTENDS Panel, FiniteSetTheorems, TLAPS

--------------------------------------------------------------------------------
(* What a step may do to the calls.                                        *)

ResumeOps == {"approve", "activate", "delete"}
DocumentOps == {"package", "studio", "edit", "remove"}
ApplyOps == {"apply"}
InboxOps == {"bridge", "discover", "decide"}
MemoryOps == {"answer", "publish", "index"}
GetOps == {"get"}
ModelOps == {"chat", "review"}

\* Operations that ask the model.
Askers == ModelOps \cup {"studio", "index"}

CallsOK ==
  /\ DOMAIN call = Thread
  /\ \A t \in Thread :
       {"op", "at"} \subseteq DOMAIN call[t] /\ (call[t].at \in Asking => call[t].op \in Askers)

\* Calls of these operations begin, go on or end; none of them is with the model.
Within(ops) ==
  /\ CallsOK'
  /\ \A t \in Thread :
       \/ call'[t] = call[t]
       \/ /\ call[t].op \in ops \cup {"none"} /\ call[t].at # "post"
          /\ call'[t].op \in ops \/ call'[t] = Idle
          /\ call'[t].at # "post"

\* Calls wait for the model or are answered; their operation stays, or they end.
Asks ==
  /\ CallsOK'
  /\ \A t \in Thread :
       \/ call'[t] = call[t]
       \/ /\ call[t] = Idle \/ call[t].at \in Asking
          /\ \/ call'[t] = Idle
             \/ call[t] = Idle /\ call'[t].op \in ModelOps /\ call'[t].at = "ask"
             \/ /\ call[t].at \in Asking /\ call'[t].at \in Asking \cup {"answered"}
                /\ call'[t].op = call[t].op /\ DOMAIN call'[t] = DOMAIN call[t]
                /\ \A f \in DOMAIN call[t] \ {"at", "left", "posts"} : call'[t][f] = call[t][f]

Moved(t, c) ==
  /\ DOMAIN call' = Thread
  /\ call'[t] = c
  /\ \A u \in Thread \ {t} : call'[u] = call[u]

LEMMA BecomeMoves ==
  ASSUME CallsOK, NEW t \in Thread, NEW c, Become(t, c)
  PROVE  Moved(t, c)
BY DEF CallsOK, Become, Moved

LEMMA BeginMoves ==
  ASSUME CallsOK, NEW t \in Thread, NEW c, Begin(t, c)
  PROVE  Moved(t, c) /\ call[t] = Idle
BY DEF CallsOK, Begin, Moved

LEMMA GotoMoves ==
  ASSUME CallsOK, NEW t \in Thread, NEW at, Goto(t, at)
  PROVE  /\ Moved(t, [call[t] EXCEPT !.at = at])
         /\ call'[t].op = call[t].op /\ call'[t].at = at /\ DOMAIN call'[t] = DOMAIN call[t]
         /\ \A f \in DOMAIN call[t] \ {"at"} : call'[t][f] = call[t][f]
<1>1. Moved(t, [call[t] EXCEPT !.at = at])
  BY BecomeMoves DEF Goto
<1>2. {"op", "at"} \subseteq DOMAIN call[t]
  BY DEF CallsOK
<1>3. QED
  BY <1>1, <1>2 DEF Moved

LEMMA EndMoves ==
  ASSUME CallsOK, NEW t \in Thread, End(t)
  PROVE  Moved(t, Idle)
BY BecomeMoves DEF End

LEMMA IdleCall == Idle.op = "none" /\ Idle.at = "idle" /\ {"op", "at"} \subseteq DOMAIN Idle
BY DEF Idle

\* One thread moves between calls of these operations.
LEMMA MovedWithin ==
  ASSUME CallsOK, NEW ops, NEW t \in Thread, NEW c, Moved(t, c),
         call[t].op \in ops \cup {"none"}, call[t].at # "post",
         c.op \in ops \/ c = Idle, c.at # "post", {"op", "at"} \subseteq DOMAIN c,
         c.at = "ask" => c.op \in Askers
  PROVE  Within(ops)
BY DEF CallsOK, Moved, Within, Asking

LEMMA BeginWithin ==
  ASSUME CallsOK, NEW ops, NEW t \in Thread, NEW c, Begin(t, c),
         c.op \in ops \/ c = Idle, c.at # "post", {"op", "at"} \subseteq DOMAIN c,
         c.at = "ask" => c.op \in Askers
  PROVE  Within(ops)
BY BeginMoves, IdleCall, MovedWithin

LEMMA GotoWithin ==
  ASSUME CallsOK, NEW ops, NEW t \in Thread, NEW at, Goto(t, at), at \notin Asking,
         call[t].op \in ops, call[t].at # "post"
  PROVE  Within(ops)
<1>1. Moved(t, [call[t] EXCEPT !.at = at]) /\ call'[t].op = call[t].op /\ call'[t].at = at
      /\ DOMAIN call'[t] = DOMAIN call[t]
  BY GotoMoves
<1>2. DOMAIN call' = Thread /\ \A u \in Thread \ {t} : call'[u] = call[u]
  BY <1>1 DEF Moved
<1>3. QED
  BY <1>1, <1>2 DEF Within, CallsOK, Asking

LEMMA EndWithin ==
  ASSUME CallsOK, NEW ops, NEW t \in Thread, End(t), call[t].op \in ops, call[t].at # "post"
  PROVE  Within(ops)
BY EndMoves, IdleCall, MovedWithin

LEMMA ResumeWithin ==
  ASSUME CallsOK, NEW t \in Thread, ResumeStep(t)
  PROVE  Within(ResumeOps)
<1>1. CASE ImportResume(t) \/ EditResume(t)
  <2>1. Begin(t, Idle)
    BY <1>1 DEF ImportResume, EditResume
  <2>2. QED
    BY <2>1, BeginWithin, IdleCall
<1>2. CASE ReadResume(t)
  <2>1. PICK op \in {"approve", "activate", "delete"}, v \in DOMAIN resumes :
          Begin(t, [op |-> op, at |-> "commit", version |-> v, row |-> resumes[v],
                    current |-> IF op = "activate" THEN Active \ {v} ELSE {}])
    BY <1>2 DEF ReadResume
  <2>2. QED
    BY <2>1, BeginWithin DEF ResumeOps
<1>3. CASE CommitResume(t)
  <2>1. call[t].op \in ResumeOps /\ call[t].at # "post" /\ End(t)
    BY <1>3 DEF CommitResume, ResumeOps
  <2>2. QED
    BY <2>1, EndWithin
<1>4. QED
  BY <1>1, <1>2, <1>3 DEF ResumeStep
LEMMA DocumentWithin ==
  ASSUME CallsOK, NEW t \in Thread, DocumentStep(t) \/ \E s \in Settings : StartStudio(t, s)
  PROVE  Within(DocumentOps)
<1> USE DEF DocumentOps
<1>1. CASE StartPackage(t)
  BY <1>1, BeginWithin DEF StartPackage
<1>2. CASE NamePackage(t)
  <2>1. PICK v, paths : Become(t, [op |-> "package", at |-> "resume", by |-> call[t].by, version |-> v,
                                   paths |-> paths])
    BY <1>2 DEF NamePackage
  <2>2. call[t].op = "package" /\ call[t].at # "post"
    BY <1>2 DEF NamePackage, In
  <2>3. QED
    BY <2>1, <2>2, BecomeMoves, MovedWithin
<1>3. CASE WritePackage(t)
  <2>1. call[t].op = "package" /\ call[t].at # "post"
    BY <1>3 DEF WritePackage, Package
  <2>2. PICK at \in {"cover_letter", "docx", "save"} : Goto(t, at)
    BY <1>3 DEF WritePackage
  <2>3. QED
    BY <2>1, <2>2, GotoWithin DEF Asking
<1>4. CASE Convert(t)
  BY <1>4, GotoWithin DEF Convert, In, Asking
<1>5. CASE NameStudio(t)
  <2>1. PICK c : Become(t, c) /\ c.op = "studio" /\ c.at = "write" /\ {"op", "at"} \subseteq DOMAIN c
    BY <1>5 DEF NameStudio, Single
  <2>2. call[t].op = "studio" /\ call[t].at # "post"
    BY <1>5 DEF NameStudio, In
  <2>3. QED
    BY <2>1, <2>2, BecomeMoves, MovedWithin
<1>6. CASE StartEdit(t)
  <2>1. PICK c : Begin(t, c) /\ c.op = "edit" /\ c.at = "write" /\ {"op", "at"} \subseteq DOMAIN c
    BY <1>6 DEF StartEdit, Single
  <2>2. QED
    BY <2>1, BeginWithin
<1>7. CASE WriteSingle(t)
  BY <1>7, GotoWithin DEF WriteSingle, Asking
<1>8. CASE SaveRows(t)
  BY <1>8, EndWithin DEF SaveRows
<1>9. CASE StartRemove(t)
  <2>1. PICK d : Begin(t, [op |-> "remove", at |-> "unlink", row |-> d, paths |-> {d.path}])
    BY <1>9 DEF StartRemove
  <2>2. QED
    BY <2>1, BeginWithin
<1>10. CASE Unlink(t)
  BY <1>10, GotoWithin DEF Unlink, In, Asking
<1>11. CASE RemoveRow(t) \/ DocumentFails(t)
  BY <1>11, EndWithin DEF RemoveRow, DocumentFails, In
<1>12. CASE \E s \in Settings : StartStudio(t, s)
  <2>1. PICK s : Begin(t, [op |-> "studio", at |-> "ask", settings |-> s, left |-> 0, posts |-> 0,
                           by |-> served + 1])
    BY <1>12 DEF StartStudio
  <2>2. QED
    BY <2>1, BeginWithin DEF Askers
<1>13. QED
  BY <1>1, <1>2, <1>3, <1>4, <1>5, <1>6, <1>7, <1>8, <1>9, <1>10, <1>11, <1>12 DEF DocumentStep

LEMMA PipelineWithin ==
  ASSUME CallsOK, NEW t \in Thread, PipelineStep(t)
  PROVE  Within(ApplyOps)
<1> USE DEF ApplyOps
<1>1. CASE ReadStatus(t)
  <2>1. PICK from, to, reopen : Begin(t, [op |-> "apply", at |-> "save", read |-> status, from |-> from,
                                          to |-> to, reopen |-> reopen])
    BY <1>1 DEF ReadStatus
  <2>2. QED
    BY <2>1, BeginWithin
<1>2. CASE SaveStatus(t)
  BY <1>2, EndWithin DEF SaveStatus, In
<1>3. QED
  BY <1>1, <1>2 DEF PipelineStep

\* A batch goes on to its next step, or its cycle ends.
LEMMA ProceedMoves ==
  ASSUME CallsOK, NEW t \in Thread, call[t].op = "bridge", call[t].at \in {"save", "receipt", "move"},
         Proceed(t)
  PROVE  /\ Within(InboxOps)
         /\ \A u \in Thread \ {t} : call'[u] = call[u]
         /\ call[t].at = "move" => call'[t] = Idle
         /\ call[t].at # "move" =>
              /\ call'[t].op = "bridge" /\ call'[t].at = After[call[t].at]
              /\ DOMAIN call'[t] = DOMAIN call[t]
              /\ \A f \in DOMAIN call[t] \ {"at"} : call'[t][f] = call[t][f]
<1>1. CASE call[t].at = "move"
  <2>1. End(t)
    BY <1>1 DEF Proceed, After
  <2>2. QED
    BY <1>1, <2>1, EndWithin, EndMoves DEF InboxOps, Moved
<1>2. CASE call[t].at # "move"
  <2>1. PICK at \in {"receipt", "move"} : Goto(t, at) /\ at = After[call[t].at]
    BY <1>2 DEF Proceed, After
  <2>2. QED
    BY <1>2, <2>1, GotoMoves, GotoWithin DEF InboxOps, Moved, Asking
<1>3. QED
  BY <1>1, <1>2

LEMMA InboxWithin ==
  ASSUME CallsOK, NEW t \in Thread, InboxStep(t)
  PROVE  Within(InboxOps)
<1> USE DEF InboxOps
<1>1. CASE TakeBatch(t)
  <2>1. PICK c : Begin(t, c) /\ c.op = "bridge" /\ c.at \in {"receipt", "save"}
                 /\ {"op", "at"} \subseteq DOMAIN c
    BY <1>1 DEF TakeBatch
  <2>2. QED
    BY <2>1, BeginWithin
<1>2. CASE Discover(t)
  <2>1. PICK new : Begin(t, [op |-> "discover", at |-> "save", new |-> new])
    BY <1>2 DEF Discover
  <2>2. QED
    BY <2>1, BeginWithin
<1>3. CASE SaveSuggestions(t)
  <2>1. call[t].op \in {"bridge", "discover"} /\ call[t].at = "save"
    BY <1>3 DEF SaveSuggestions
  <2>2. CASE call[t].op = "bridge" /\ Proceed(t)
    BY <2>1, <2>2, ProceedMoves
  <2>3. CASE End(t)
    BY <2>1, <2>3, EndWithin
  <2>4. QED
    BY <1>3, <2>2, <2>3 DEF SaveSuggestions, Conflicted
<1>4. CASE WriteReceipt(t)
  BY <1>4, ProceedMoves DEF WriteReceipt, In
<1>5. CASE MoveBatch(t)
  BY <1>5, ProceedMoves DEF MoveBatch, In
<1>6. CASE BridgeFails(t) \/ DecideProposal(t)
  <2>1. call[t].op \in InboxOps /\ End(t) /\ call[t].at # "post"
    BY <1>6 DEF BridgeFails, DecideProposal, In, CallsOK, Asking, Askers, ModelOps
  <2>2. QED
    BY <1>6, <2>1, EndWithin
<1>7. CASE ReadProposal(t)
  <2>1. PICK p, verdict : Begin(t, [op |-> "decide", at |-> "save", page |-> p, verdict |-> verdict])
    BY <1>7 DEF ReadProposal
  <2>2. QED
    BY <2>1, BeginWithin
<1>8. QED
  BY <1>1, <1>2, <1>3, <1>4, <1>5, <1>6, <1>7 DEF InboxStep

LEMMA MemoryWithin ==
  ASSUME CallsOK, NEW t \in Thread, MemoryStep(t)
  PROVE  Within(MemoryOps)
<1> USE DEF MemoryOps
<1>1. CASE ReadAnswers(t)
  <2>1. PICK q, a : Begin(t, [op |-> "answer", at |-> "save", question |-> q, answer |-> a,
                              read |-> answers])
    BY <1>1 DEF ReadAnswers
  <2>2. QED
    BY <2>1, BeginWithin
<1>2. CASE SaveAnswers(t)
  BY <1>2, EndWithin DEF SaveAnswers, In
<1>3. CASE Dispose(t)
  BY <1>3, BeginWithin, IdleCall DEF Dispose
<1>4. CASE Publish(t)
  BY <1>4, BeginWithin DEF Publish
<1>5. CASE WriteContext(t)
  BY <1>5, EndWithin, GotoWithin DEF WriteContext, Asking
<1>6. CASE RefreshIndex(t)
  <2>1. CASE Begin(t, Idle)
    BY <2>1, BeginWithin, IdleCall
  <2>2. CASE ~Begin(t, Idle)
    <3>1. PICK at \in {"meta", "ask", "answered"} :
            Begin(t, [op |-> "index", at |-> at, content |-> files,
                      settings |-> BridgeSettings, left |-> 0, posts |-> 0])
      BY <1>6, <2>2 DEF RefreshIndex
    <3>2. QED
      BY <3>1, BeginWithin DEF Askers
  <2>3. QED
    BY <2>1, <2>2
<1>7. CASE WriteMemory(t)
  BY <1>7, EndWithin, GotoWithin DEF WriteMemory, Asking
<1>8. CASE MemoryFails(t)
  BY <1>8, EndWithin DEF MemoryFails
<1>9. QED
  BY <1>1, <1>2, <1>3, <1>4, <1>5, <1>6, <1>7, <1>8 DEF MemoryStep

LEMMA HttpWithin ==
  ASSUME CallsOK, NEW t \in Thread, HttpStep(t)
  PROVE  Within(GetOps)
<1> USE DEF GetOps
<1>1. CASE StartGet(t)
  <2>1. CASE Begin(t, Idle)
    BY <2>1, BeginWithin, IdleCall
  <2>2. CASE ~Begin(t, Idle)
    <3>1. PICK c : Begin(t, c) /\ c.op = "get" /\ c.at = "validate" /\ {"op", "at"} \subseteq DOMAIN c
      BY <1>1, <2>2 DEF StartGet
    <3>2. QED
      BY <3>1, BeginWithin
  <2>3. QED
    BY <2>1, <2>2
<1>2. CASE ClearCache(t)
  BY <1>2, BeginWithin, IdleCall DEF ClearCache
<1>3. CASE Validate(t)
  BY <1>3, GotoWithin, EndWithin DEF Validate, In, Asking
<1>4. CASE EnterSlot(t)
  <2>1. PICK until : Become(t, [call[t] EXCEPT !.at = "sleep", !.until = until])
    BY <1>4 DEF EnterSlot
  <2>2. call[t].op = "get" /\ call[t].at # "post" /\ {"op", "at"} \subseteq DOMAIN call[t]
    BY <1>4 DEF EnterSlot, In, CallsOK
  <2>3. QED
    BY <2>1, <2>2, BecomeMoves, MovedWithin
<1>5. CASE LeaveSlot(t)
  <2>1. Become(t, [call[t] EXCEPT !.at = "send", !.until = 0])
    BY <1>5 DEF LeaveSlot
  <2>2. call[t].op = "get" /\ call[t].at # "post" /\ {"op", "at"} \subseteq DOMAIN call[t]
    BY <1>5 DEF LeaveSlot, In, CallsOK
  <2>3. QED
    BY <2>1, <2>2, BecomeMoves, MovedWithin
<1>6. CASE SendAgain(t)
  <2>1. PICK tries : Become(t, [call[t] EXCEPT !.tries = tries])
    BY <1>6 DEF SendAgain
  <2>2. call[t].op = "get" /\ call[t].at = "send" /\ {"op", "at"} \subseteq DOMAIN call[t]
    BY <1>6 DEF SendAgain, In, CallsOK
  <2>3. QED
    BY <2>1, <2>2, BecomeMoves, MovedWithin
<1>7. CASE Redirected(t)
  <2>1. call[t].op = "get" /\ call[t].at = "send" /\ {"op", "at"} \subseteq DOMAIN call[t]
    BY <1>7 DEF Redirected, In, CallsOK
  <2>2. CASE End(t)
    BY <2>1, <2>2, EndWithin
  <2>3. CASE ~End(t)
    <3>1. PICK h, n : Become(t, [call[t] EXCEPT !.host = h, !.redirects = n, !.tries = 0, !.at = "validate"])
      BY <1>7, <2>3 DEF Redirected
    <3>2. QED
      BY <2>1, <3>1, BecomeMoves, MovedWithin
  <2>4. QED
    BY <2>2, <2>3
<1>8. CASE Answered(t)
  BY <1>8, EndWithin DEF Answered, In
<1>9. QED
  BY <1>1, <1>2, <1>3, <1>4, <1>5, <1>6, <1>7, <1>8 DEF HttpStep

\* A step of the model server, given what its calls carry.
AskersOK ==
  \A t \in Thread : call[t].at \in Asking =>
    /\ {"settings", "left", "posts"} \subseteq DOMAIN call[t]
    /\ call[t].settings \in Settings

LEMMA OllamaAsks ==
  ASSUME CallsOK, AskersOK, NEW t \in Thread, OllamaStep(t)
  PROVE  Asks /\ AskersOK'
<1> USE DEF Asking, ModelOps, Askers
<1>1. ASSUME NEW c, Moved(t, c), c.at \in Asking => c.op \in Askers,
             {"op", "at"} \subseteq DOMAIN c,
             call[t] = Idle \/ call[t].at \in Asking,
             \/ c = Idle
             \/ call[t] = Idle /\ c.op \in ModelOps /\ c.at = "ask"
             \/ /\ call[t].at \in Asking /\ c.at \in Asking \cup {"answered"}
                /\ c.op = call[t].op /\ DOMAIN c = DOMAIN call[t]
                /\ \A f \in DOMAIN call[t] \ {"at", "left", "posts"} : c[f] = call[t][f]
      PROVE  Asks
  BY <1>1 DEF Asks, CallsOK, Moved
<1>2. ASSUME NEW c, Moved(t, c), c.at \in Asking =>
               {"settings", "left", "posts"} \subseteq DOMAIN c /\ c.settings \in Settings
      PROVE  AskersOK'
  BY <1>2 DEF AskersOK, Moved
<1>3. CASE StartChat(t) \/ StartReview(t)
  <2>1. PICK s \in Settings, op \in ModelOps, left \in {0, Attempts - 1} :
          Begin(t, [op |-> op, at |-> "ask", settings |-> s, left |-> left, posts |-> 0])
    BY <1>3 DEF StartChat, StartReview
  <2>2. QED
    BY <2>1, <1>1, <1>2, BeginMoves
<1>4. ASSUME NEW c, Become(t, c), call[t].at \in Asking, DOMAIN c = DOMAIN call[t],
             c.at \in Asking \cup {"answered"},
             \A f \in DOMAIN call[t] \ {"at", "left", "posts"} : c[f] = call[t][f]
      PROVE  Asks /\ AskersOK'
  <2>1. /\ {"op", "at", "settings", "left", "posts"} \subseteq DOMAIN call[t]
        /\ call[t].settings \in Settings /\ call[t].op \in Askers
    BY <1>4 DEF CallsOK, AskersOK
  <2>2. c.op = call[t].op /\ c.settings = call[t].settings
    BY <1>4, <2>1
  <2>3. Moved(t, c)
    BY <1>4, BecomeMoves
  <2>4. Asks
    BY <1>1, <1>4, <2>1, <2>2, <2>3
  <2>5. AskersOK'
    BY <1>2, <1>4, <2>1, <2>2, <2>3
  <2>6. QED
    BY <2>4, <2>5
<1>5. ASSUME call[t].at \in Asking
      PROVE  {"op", "at", "left", "posts"} \subseteq DOMAIN call[t]
  BY <1>5 DEF CallsOK, AskersOK
<1>6. CASE TakePermit(t)
  <2>1. PICK c : Become(t, c) /\ c = [call[t] EXCEPT !.at = "post", !.posts = 0]
    BY <1>6 DEF TakePermit
  <2>2. call[t].at \in Asking
    BY <1>6 DEF TakePermit
  <2>3. /\ DOMAIN c = DOMAIN call[t] /\ c.at = "post"
        /\ \A f \in DOMAIN call[t] \ {"at", "left", "posts"} : c[f] = call[t][f]
    BY <1>5, <2>1, <2>2
  <2>4. QED
    BY <1>4, <2>1, <2>2, <2>3
<1>7. CASE PostAgain(t)
  <2>1. PICK n : Become(t, [call[t] EXCEPT !.posts = n])
    BY <1>7 DEF PostAgain
  <2>2. PICK c : Become(t, c) /\ c = [call[t] EXCEPT !.posts = n]
    BY <2>1
  <2>3. call[t].at \in Asking
    BY <1>7 DEF PostAgain
  <2>4. /\ DOMAIN c = DOMAIN call[t] /\ c.at = call[t].at
        /\ \A f \in DOMAIN call[t] \ {"at", "left", "posts"} : c[f] = call[t][f]
    BY <1>5, <2>2, <2>3
  <2>5. QED
    BY <1>4, <2>2, <2>3, <2>4
<1>8. CASE PostEnds(t)
  <2>1. call[t].at \in Asking
    BY <1>8 DEF PostEnds
  <2>2. ASSUME NEW c, NEW at, NEW left, NEW posts,
               Become(t, c), at \in Asking \cup {"answered"},
               c = [call[t] EXCEPT !.at = at, !.left = left, !.posts = posts]
        PROVE  Asks /\ AskersOK'
    <3>1. /\ DOMAIN c = DOMAIN call[t] /\ c.at = at
          /\ \A f \in DOMAIN call[t] \ {"at", "left", "posts"} : c[f] = call[t][f]
      BY <1>5, <2>1, <2>2
    <3>2. QED
      BY <1>4, <2>1, <2>2, <3>1
  <2>3. CASE Become(t, [call[t] EXCEPT !.at = "answered", !.posts = 0])
    <3>1. PICK c : Become(t, c) /\ c = [call[t] EXCEPT !.at = "answered", !.posts = 0]
      BY <2>3
    <3>2. c = [call[t] EXCEPT !.at = "answered", !.left = call[t].left, !.posts = 0]
      BY <1>5, <2>1, <3>1
    <3>3. QED
      BY <2>2, <3>1, <3>2
  <2>4. CASE Become(t, [call[t] EXCEPT !.at = "ask", !.left = @ - 1])
    <3>1. PICK c : Become(t, c) /\ c = [call[t] EXCEPT !.at = "ask", !.left = @ - 1]
      BY <2>4
    <3>2. c = [call[t] EXCEPT !.at = "ask", !.left = call[t].left - 1, !.posts = call[t].posts]
      BY <1>5, <2>1, <3>1
    <3>3. QED
      BY <2>2, <3>1, <3>2
  <2>5. CASE End(t)
    <3>1. Moved(t, Idle)
      BY <2>5, EndMoves
    <3>2. QED
      BY <1>1, <1>2, <2>1, <3>1, IdleCall
  <2>6. QED
    BY <1>8, <2>3, <2>4, <2>5 DEF PostEnds
<1>9. QED
  BY <1>3, <1>6, <1>7, <1>8 DEF OllamaStep

--------------------------------------------------------------------------------
(* What a step of the panel may do to each component.                      *)

\* A thread is idle or in a call that has a name.
Named == \A t \in Thread : call[t] = Idle \/ call[t].op # "none"

BaseInv == CallsOK /\ AskersOK /\ Named

\* Calls of these operations stay as they are.
Keeps(ops) == \A t \in Thread : call[t].op \in ops \/ call'[t].op \in ops => call'[t] = call[t]

\* No request is sent or ends.
PostsStay == \A t \in Thread : call'[t] = call[t] \/ (call[t].at # "post" /\ call'[t].at # "post")

LEMMA WithinKeeps ==
  ASSUME NEW o, NEW ops, Within(o), o \cap ops = {}, "none" \notin ops
  PROVE  Keeps(ops)
BY IdleCall DEF Within, Keeps

LEMMA WithinPosts ==
  ASSUME NEW ops, Within(ops)
  PROVE  PostsStay /\ CallsOK'
BY DEF Within, PostsStay

\* Calls get their name when they begin and keep it to the end.
LEMMA WithinNamed ==
  ASSUME Named, NEW ops, Within(ops), "none" \notin ops
  PROVE  Named'
BY DEF Within, Named

LEMMA AsksNamed ==
  ASSUME CallsOK, Named, Asks
  PROVE  Named'
BY DEF Asks, Named, CallsOK, Askers, ModelOps

LEMMA AsksKeeps ==
  ASSUME CallsOK, Asks, NEW ops, ops \cap Askers = {}, "none" \notin ops
  PROVE  Keeps(ops)
BY IdleCall DEF Asks, Keeps, CallsOK, Askers

\* Calls of operations that do not ask carry no settings to keep.
LEMMA WithinAskers ==
  ASSUME BaseInv, NEW ops, Within(ops), ops \cap Askers = {}
  PROVE  AskersOK'
<1>1. ASSUME NEW t \in Thread, call'[t].at \in Asking
      PROVE  call'[t] = call[t]
  BY <1>1, IdleCall DEF Within, CallsOK, Askers, ModelOps, Asking
<1>2. QED
  BY <1>1 DEF AskersOK, BaseInv

LEMMA DocumentAskers ==
  ASSUME BaseInv, NEW t \in Thread, DocumentStep(t) \/ \E s \in Settings : StartStudio(t, s)
  PROVE  AskersOK'
<1> USE DEF BaseInv
<1>1. ASSUME NEW c, Moved(t, c), c.at \in Asking =>
               {"settings", "left", "posts"} \subseteq DOMAIN c /\ c.settings \in Settings
      PROVE  AskersOK'
  BY <1>1 DEF AskersOK, Moved
<1>2. ASSUME NEW at, at \notin Asking, Goto(t, at)
      PROVE  AskersOK'
  <2>1. Moved(t, [call[t] EXCEPT !.at = at]) /\ call'[t].at = at
    BY <1>2, GotoMoves
  <2>2. QED
    BY <1>2, <2>1 DEF AskersOK, Moved
<1>3. CASE \E s \in Settings : StartStudio(t, s)
  <2>1. PICK s \in Settings :
          Begin(t, [op |-> "studio", at |-> "ask", settings |-> s, left |-> 0, posts |-> 0,
                    by |-> served + 1])
    BY <1>3 DEF StartStudio
  <2>2. QED
    BY <2>1, <1>1, BeginMoves
<1>4. CASE StartPackage(t) \/ StartEdit(t) \/ StartRemove(t)
  <2>1. ASSUME NEW c, Begin(t, c), c.at \notin Asking
        PROVE  AskersOK'
    BY <2>1, <1>1, BeginMoves
  <2>2. CASE StartPackage(t)
    BY <2>1, <2>2 DEF StartPackage, Asking
  <2>3. CASE StartEdit(t)
    BY <2>1, <2>3 DEF StartEdit, Single, Asking
  <2>4. CASE StartRemove(t)
    BY <2>1, <2>4 DEF StartRemove, Asking
  <2>5. QED
    BY <1>4, <2>2, <2>3, <2>4
<1>5. CASE NamePackage(t) \/ NameStudio(t)
  <2>1. CASE NamePackage(t)
    <3>1. PICK v, paths : Become(t, [op |-> "package", at |-> "resume", by |-> call[t].by, version |-> v,
                                     paths |-> paths])
      BY <2>1 DEF NamePackage
    <3>2. QED
      BY <3>1, <1>1, BecomeMoves DEF Asking
  <2>2. CASE NameStudio(t)
    <3>1. PICK c : Become(t, c) /\ c.at = "write"
      BY <2>2 DEF NameStudio, Single
    <3>2. QED
      BY <3>1, <1>1, BecomeMoves DEF Asking
  <2>3. QED
    BY <1>5, <2>1, <2>2
<1>6. CASE WritePackage(t) \/ Convert(t) \/ WriteSingle(t) \/ Unlink(t)
  BY <1>2, <1>6 DEF WritePackage, Convert, WriteSingle, Unlink, Asking
<1>7. CASE SaveRows(t) \/ RemoveRow(t) \/ DocumentFails(t)
  BY <1>1, <1>7, EndMoves, IdleCall DEF SaveRows, RemoveRow, DocumentFails, Asking
<1>8. QED
  BY <1>3, <1>4, <1>5, <1>6, <1>7 DEF DocumentStep

LEMMA MemoryAskers ==
  ASSUME BaseInv, NEW t \in Thread, MemoryStep(t)
  PROVE  AskersOK'
<1> USE DEF BaseInv
<1>1. ASSUME NEW c, Moved(t, c), c.at \in Asking =>
               {"settings", "left", "posts"} \subseteq DOMAIN c /\ c.settings \in Settings
      PROVE  AskersOK'
  BY <1>1 DEF AskersOK, Moved
<1>2. ASSUME NEW at, at \notin Asking, Goto(t, at)
      PROVE  AskersOK'
  <2>1. Moved(t, [call[t] EXCEPT !.at = at]) /\ call'[t].at = at
    BY <1>2, GotoMoves
  <2>2. QED
    BY <1>2, <2>1 DEF AskersOK, Moved
<1>3. CASE RefreshIndex(t)
  <2>1. CASE Begin(t, Idle)
    BY <2>1, <1>1, BeginMoves, IdleCall DEF Asking
  <2>2. CASE ~Begin(t, Idle)
    <3>1. PICK at : Begin(t, [op |-> "index", at |-> at, content |-> files,
                              settings |-> BridgeSettings, left |-> 0, posts |-> 0])
      BY <1>3, <2>2 DEF RefreshIndex
    <3>2. QED
      BY <3>1, <1>1, BeginMoves, BridgeAsks
  <2>3. QED
    BY <2>1, <2>2
<1>4. CASE ReadAnswers(t) \/ Publish(t) \/ Dispose(t)
  <2>1. ASSUME NEW c, Begin(t, c), c.at \notin Asking
        PROVE  AskersOK'
    BY <2>1, <1>1, BeginMoves
  <2>2. QED
    BY <1>4, <2>1, IdleCall DEF ReadAnswers, Publish, Dispose, Asking
<1>5. CASE SaveAnswers(t) \/ WriteContext(t) \/ WriteMemory(t) \/ MemoryFails(t)
  <2>1. \/ End(t)
        \/ Goto(t, "learned")
        \/ Goto(t, "meta")
    BY <1>5 DEF SaveAnswers, WriteContext, WriteMemory, MemoryFails
  <2>2. QED
    BY <2>1, <1>1, <1>2, EndMoves, IdleCall DEF Asking
<1>6. QED
  BY <1>3, <1>4, <1>5 DEF MemoryStep

\* The calls and permits that matter to a component, in a step of another one.
LEMMA Frames ==
  ASSUME BaseInv, [Next]_vars
  PROVE  /\ BaseInv'
         /\ \/ \E t \in Thread : ResumeStep(t)
            \/ UNCHANGED resumeVars /\ (Keeps(ResumeOps) \/ Crash)
         /\ \/ \E t \in Thread : DocumentStep(t) \/ \E s \in Settings : StartStudio(t, s)
            \/ UNCHANGED docVars /\ (Keeps(DocumentOps) \/ Asks)
            \/ Crash
         /\ \/ \E t \in Thread : PipelineStep(t)
            \/ UNCHANGED pipelineVars /\ (Keeps(ApplyOps) \/ Crash)
         /\ \/ (\E t \in Thread : InboxStep(t)) \/ \E b \in Batch : Drop(b)
            \/ UNCHANGED inboxVars /\ (Keeps(InboxOps) \/ Crash)
         /\ \/ \E t \in Thread : MemoryStep(t)
            \/ UNCHANGED memoryVars /\ (Keeps(MemoryOps) \/ Asks)
            \/ Crash
         /\ \/ \E t \in Thread : OllamaStep(t)
            \/ UNCHANGED permits /\ PostsStay
            \/ Crash
         /\ \/ (\E t \in Thread : HttpStep(t)) \/ Tick \/ \E h \in Host : Renumber(h)
            \/ UNCHANGED httpVars /\ Keeps(GetOps)
            \/ Crash
<1> USE DEF BaseInv
<1>1. CASE UNCHANGED vars
  BY <1>1 DEF vars, threads, Keeps, PostsStay, CallsOK, AskersOK, Named
<1>2. CASE Resumes
  <2>1. PICK t \in Thread : ResumeStep(t)
    BY <1>2 DEF Resumes
  <2>2. Within(ResumeOps)
    BY <2>1, ResumeWithin
  <2>3. PostsStay /\ AskersOK' /\ CallsOK' /\ Named'
    BY <2>2, WithinPosts, WithinAskers, WithinNamed DEF ResumeOps, Askers, ModelOps
  <2>4. /\ Keeps(DocumentOps) /\ Keeps(ApplyOps) /\ Keeps(InboxOps)
        /\ Keeps(MemoryOps) /\ Keeps(GetOps)
    BY <2>2, WithinKeeps DEF ResumeOps, DocumentOps, ApplyOps, InboxOps, MemoryOps, GetOps
  <2>5. QED
    BY <1>2, <2>1, <2>3, <2>4 DEF Resumes
<1>3. CASE Documents
  <2>1. PICK t \in Thread : DocumentStep(t) \/ \E s \in Settings : StartStudio(t, s)
    BY <1>3 DEF Documents
  <2>2. Within(DocumentOps) /\ AskersOK'
    BY <2>1, DocumentWithin, DocumentAskers
  <2>3. PostsStay /\ CallsOK' /\ Named'
    BY <2>2, WithinPosts, WithinNamed DEF DocumentOps
  <2>4. /\ Keeps(ResumeOps) /\ Keeps(ApplyOps) /\ Keeps(InboxOps)
        /\ Keeps(MemoryOps) /\ Keeps(GetOps)
    BY <2>2, WithinKeeps DEF ResumeOps, DocumentOps, ApplyOps, InboxOps, MemoryOps, GetOps
  <2>5. QED
    BY <1>3, <2>1, <2>2, <2>3, <2>4 DEF Documents
<1>4. CASE Applications
  <2>1. PICK t \in Thread : PipelineStep(t)
    BY <1>4 DEF Applications
  <2>2. Within(ApplyOps)
    BY <2>1, PipelineWithin
  <2>3. PostsStay /\ AskersOK' /\ CallsOK' /\ Named'
    BY <2>2, WithinPosts, WithinAskers, WithinNamed DEF ApplyOps, Askers, ModelOps
  <2>4. /\ Keeps(ResumeOps) /\ Keeps(DocumentOps) /\ Keeps(InboxOps)
        /\ Keeps(MemoryOps) /\ Keeps(GetOps)
    BY <2>2, WithinKeeps DEF ResumeOps, DocumentOps, ApplyOps, InboxOps, MemoryOps, GetOps
  <2>5. QED
    BY <1>4, <2>1, <2>3, <2>4 DEF Applications
<1>5. CASE Research
  <2>1. CASE \E b \in Batch : Drop(b)
    <3>1. call' = call
      BY <2>1 DEF Drop, threads
    <3>2. QED
      BY <1>5, <2>1, <3>1 DEF Research, Keeps, PostsStay, CallsOK, AskersOK, Named
  <2>2. CASE \E t \in Thread : InboxStep(t)
    <3>1. Within(InboxOps)
      BY <2>2, InboxWithin
    <3>2. PostsStay /\ AskersOK' /\ CallsOK' /\ Named'
      BY <3>1, WithinPosts, WithinAskers, WithinNamed DEF InboxOps, Askers, ModelOps
    <3>3. /\ Keeps(ResumeOps) /\ Keeps(DocumentOps) /\ Keeps(ApplyOps)
          /\ Keeps(MemoryOps) /\ Keeps(GetOps)
      BY <3>1, WithinKeeps DEF ResumeOps, DocumentOps, ApplyOps, InboxOps, MemoryOps, GetOps
    <3>4. QED
      BY <1>5, <2>2, <3>2, <3>3 DEF Research
  <2>3. QED
    BY <1>5, <2>1, <2>2 DEF Research
<1>6. CASE Memory
  <2>1. PICK t \in Thread : MemoryStep(t)
    BY <1>6 DEF Memory
  <2>2. Within(MemoryOps) /\ AskersOK'
    BY <2>1, MemoryWithin, MemoryAskers
  <2>3. PostsStay /\ CallsOK' /\ Named'
    BY <2>2, WithinPosts, WithinNamed DEF MemoryOps
  <2>4. /\ Keeps(ResumeOps) /\ Keeps(DocumentOps) /\ Keeps(ApplyOps)
        /\ Keeps(InboxOps) /\ Keeps(GetOps)
    BY <2>2, WithinKeeps DEF ResumeOps, DocumentOps, ApplyOps, InboxOps, MemoryOps, GetOps
  <2>5. QED
    BY <1>6, <2>1, <2>2, <2>3, <2>4 DEF Memory
<1>7. CASE Ollama
  <2>1. PICK t \in Thread : OllamaStep(t)
    BY <1>7 DEF Ollama
  <2>2. Asks /\ AskersOK'
    BY <2>1, OllamaAsks
  <2>3. CallsOK' /\ Keeps(ResumeOps) /\ Keeps(ApplyOps) /\ Keeps(InboxOps) /\ Keeps(GetOps)
    BY <2>2, AsksKeeps DEF Asks, Askers, ModelOps, ResumeOps, ApplyOps, InboxOps, GetOps
  <2>4. Named'
    BY <2>2, AsksNamed
  <2>5. QED
    BY <1>7, <2>1, <2>2, <2>3, <2>4 DEF Ollama
<1>8. CASE Web
  <2>1. CASE Tick \/ \E h \in Host : Renumber(h)
    <3>1. call' = call
      BY <2>1 DEF Tick, Renumber, threads
    <3>2. QED
      BY <1>8, <2>1, <3>1 DEF Web, Keeps, PostsStay, CallsOK, AskersOK, Named
  <2>2. CASE \E t \in Thread : HttpStep(t)
    <3>1. Within(GetOps)
      BY <2>2, HttpWithin
    <3>2. PostsStay /\ AskersOK' /\ CallsOK' /\ Named'
      BY <3>1, WithinPosts, WithinAskers, WithinNamed DEF GetOps, Askers, ModelOps
    <3>3. /\ Keeps(ResumeOps) /\ Keeps(DocumentOps) /\ Keeps(ApplyOps)
          /\ Keeps(InboxOps) /\ Keeps(MemoryOps)
      BY <3>1, WithinKeeps DEF ResumeOps, DocumentOps, ApplyOps, InboxOps, MemoryOps, GetOps
    <3>4. QED
      BY <1>8, <2>2, <3>2, <3>3 DEF Web
  <2>3. QED
    BY <1>8, <2>1, <2>2 DEF Web
<1>9. CASE Crash
  <2>1. BaseInv'
    BY <1>9, IdleCall DEF Crash, CallsOK, AskersOK, Named, Asking
  <2>2. UNCHANGED <<resumeVars, pipelineVars, inboxVars>>
    BY <1>9 DEF Crash
  <2>3. QED
    BY <1>9, <2>1, <2>2
<1>10. QED
  BY <1>1, <1>2, <1>3, <1>4, <1>5, <1>6, <1>7, <1>8, <1>9 DEF Next

--------------------------------------------------------------------------------
LEMMA BaseInit == Init => BaseInv
BY IdleCall DEF Init, ThreadsInit, BaseInv, CallsOK, AskersOK, Named, Asking

\* A crash leaves no call behind.
LEMMA CrashIdle ==
  ASSUME Crash, NEW t \in Thread
  PROVE  call'[t] = Idle
BY DEF Crash

--------------------------------------------------------------------------------
(* Applications                                                            *)

Event == [from : Open \cup Terminal, to : Open \cup Terminal, reopen : BOOLEAN]

\* What a session that has read the status carries to its commit.
ApplyCallsOK ==
  \A t \in Thread : call[t].op = "apply" =>
    LET c == call[t] IN
    /\ c.to \in Open \cup Terminal /\ c.from \in Open \cup Terminal /\ c.reopen \in BOOLEAN
    /\ MayMove(c.from, c.to, c.reopen)
    /\ c.from = IF c.read = "none" THEN "discovered" ELSE c.read
    /\ c.read # "none" => status # "none"

PipelineInv ==
  /\ PipelineOK
  /\ status = "none" => events = <<>>
  /\ EventsTell
  /\ ApplyCallsOK

LEMMA PipelineStepInv ==
  ASSUME BaseInv, PipelineInv, NEW t \in Thread, PipelineStep(t)
  PROVE  PipelineInv'
<1> USE DEF BaseInv
<1>1. CASE ReadStatus(t)
  <2>1. UNCHANGED pipelineVars
    BY <1>1 DEF ReadStatus
  <2>2. PICK to \in Open \cup Terminal, reopen \in BOOLEAN :
          /\ MayMove(IF status = "none" THEN "discovered" ELSE status, to, reopen)
          /\ Begin(t, [op |-> "apply", at |-> "save", read |-> status,
                       from |-> IF status = "none" THEN "discovered" ELSE status,
                       to |-> to, reopen |-> reopen])
    BY <1>1 DEF ReadStatus
  <2>3. Moved(t, [op |-> "apply", at |-> "save", read |-> status,
                  from |-> IF status = "none" THEN "discovered" ELSE status,
                  to |-> to, reopen |-> reopen])
    BY <2>2, BeginMoves
  <2>4. ApplyCallsOK'
    BY <2>1, <2>2, <2>3, StatusesOK DEF ApplyCallsOK, Moved, MayMove, pipelineVars, PipelineInv, PipelineOK
  <2>5. QED
    BY <2>1, <2>4 DEF PipelineInv, PipelineOK, EventsTell, pipelineVars
<1>2. CASE SaveStatus(t)
  <2> DEFINE c == call[t]
  <2>1. /\ c.to \in Open \cup Terminal /\ c.from \in Open \cup Terminal /\ c.reopen \in BOOLEAN
        /\ MayMove(c.from, c.to, c.reopen)
        /\ c.from = IF c.read = "none" THEN "discovered" ELSE c.read
        /\ c.read # "none" => status # "none"
    BY <1>2 DEF SaveStatus, In, PipelineInv, ApplyCallsOK
  <2>2. Moved(t, Idle)
    BY <1>2, EndMoves DEF SaveStatus
  <2>3. ASSUME status # "none" => status' # "none"
        PROVE  ApplyCallsOK'
    BY <2>2, <2>3, IdleCall DEF PipelineInv, ApplyCallsOK, Moved, MayMove
  <2>4. CASE UNCHANGED pipelineVars
    BY <2>3, <2>4 DEF PipelineInv, PipelineOK, EventsTell, pipelineVars
  <2>5. CASE /\ c.read = "none" => status = "none"
             /\ status' = IF c.from = c.to /\ status # "none" THEN status ELSE c.to
             /\ events' = IF c.from = c.to THEN events
                          ELSE Append(events, [from |-> c.from, to |-> c.to, reopen |-> c.reopen])
             /\ stale' = (stale \/ (c.from # c.to /\ status # c.read))
    <3>1. /\ status' \in Open \cup Terminal /\ status' # "none" /\ stale' \in BOOLEAN
      BY <2>1, <2>5, StatusesOK DEF PipelineInv, PipelineOK
    <3>2. CASE c.from = c.to
      <4>1. events' = events /\ stale' = stale
        BY <2>5, <3>2 DEF PipelineInv, PipelineOK
      <4>2. CASE status = "none"
        <5>1. events = <<>> /\ c.to = "discovered" /\ status' = "discovered"
          BY <2>1, <2>5, <3>2, <4>2 DEF PipelineInv
        <5>2. EventsTell'
          BY <4>1, <5>1 DEF EventsTell
        <5>3. QED
          BY <2>3, <3>1, <4>1, <5>1, <5>2 DEF PipelineInv, PipelineOK
      <4>3. CASE status # "none"
        <5>1. status' = status
          BY <2>5, <3>2, <4>3
        <5>2. QED
          BY <2>3, <3>1, <4>1, <5>1 DEF PipelineInv, PipelineOK, EventsTell
      <4>4. QED
        BY <4>2, <4>3
    <3>3. CASE c.from # c.to
      <4> DEFINE e == [from |-> c.from, to |-> c.to, reopen |-> c.reopen]
      <4>1. events' = Append(events, e) /\ status' = c.to /\ stale' = (stale \/ status # c.read)
        BY <2>5, <3>3
      <4>2. events \in Seq(Event) /\ e \in Event /\ e.from = c.from /\ e.to = c.to /\ e.reopen = c.reopen
        BY <2>1 DEF PipelineInv, PipelineOK, Event
      <4> HIDE DEF e
      <4>3. /\ events' \in Seq(Event) /\ Len(events') = Len(events) + 1 /\ Len(events) \in Nat
            /\ events'[Len(events) + 1] = e
            /\ \A i \in 1..Len(events) : events'[i] = events[i]
        BY <4>1, <4>2
      <4>4. events' # <<>> /\ status' = events'[Len(events')].to
        BY <4>1, <4>2, <4>3
      <4>5. ASSUME ~stale'
            PROVE  \A i \in 1..Len(events') :
                     /\ events'[i].from = IF i = 1 THEN "discovered" ELSE events'[i - 1].to
                     /\ events'[i].from \in Terminal => events'[i].reopen
        <5>1. ~stale /\ status = c.read
          BY <4>1, <4>5
        <5>2. /\ events # <<>> => status = events[Len(events)].to
              /\ \A i \in 1..Len(events) :
                   /\ events[i].from = IF i = 1 THEN "discovered" ELSE events[i - 1].to
                   /\ events[i].from \in Terminal => events[i].reopen
          BY <5>1 DEF PipelineInv, EventsTell
        <5>3. e.from = IF Len(events) = 0 THEN "discovered" ELSE events[Len(events)].to
          <6>1. CASE status = "none"
            <7>1. Len(events) = 0
              BY <6>1 DEF PipelineInv
            <7>2. QED
              BY <2>1, <4>2, <5>1, <6>1, <7>1
          <6>2. CASE status # "none"
            <7>1. e.from = status
              BY <2>1, <4>2, <5>1, <6>2
            <7>2. CASE events = <<>>
              BY <6>2, <7>1, <7>2 DEF PipelineInv, EventsTell
            <7>3. CASE events # <<>>
              BY <4>2, <5>2, <7>1, <7>3
            <7>4. QED
              BY <7>2, <7>3
          <6>3. QED
            BY <6>1, <6>2
        <5>4. e.from \in Terminal => e.reopen
          BY <2>1, <3>3, <4>2 DEF MayMove
        <5> SUFFICES ASSUME NEW i \in 1..Len(events')
                     PROVE  /\ events'[i].from = IF i = 1 THEN "discovered" ELSE events'[i - 1].to
                            /\ events'[i].from \in Terminal => events'[i].reopen
          OBVIOUS
        <5>5. CASE i \in 1..Len(events)
          BY <4>3, <5>2, <5>5
        <5>6. CASE i = Len(events) + 1
          BY <4>3, <5>3, <5>4, <5>6
        <5>7. QED
          BY <4>3, <5>5, <5>6
      <4>6. EventsTell'
        BY <4>4, <4>5 DEF EventsTell
      <4>7. PipelineOK'
        BY <3>1, <4>3 DEF PipelineOK, Event
      <4>8. QED
        BY <2>3, <3>1, <4>6, <4>7 DEF PipelineInv
    <3>4. QED
      BY <3>2, <3>3
  <2>6. QED
    BY <1>2, <2>4, <2>5 DEF SaveStatus
<1>3. QED
  BY <1>1, <1>2 DEF PipelineStep

LEMMA PipelineNextInv == BaseInv /\ PipelineInv /\ [Next]_vars => PipelineInv'
<1> SUFFICES ASSUME BaseInv, PipelineInv, [Next]_vars
             PROVE  PipelineInv'
  OBVIOUS
<1>1. CASE \E t \in Thread : PipelineStep(t)
  BY <1>1, PipelineStepInv
<1>2. CASE UNCHANGED pipelineVars /\ (Keeps(ApplyOps) \/ Crash)
  <2>1. \A t \in Thread : call'[t].op = "apply" => call'[t] = call[t]
    BY <1>2, CrashIdle, IdleCall DEF Keeps, ApplyOps
  <2>2. ApplyCallsOK'
    BY <1>2, <2>1 DEF PipelineInv, ApplyCallsOK, MayMove, pipelineVars
  <2>3. QED
    BY <1>2, <2>2 DEF PipelineInv, PipelineOK, EventsTell, pipelineVars
<1>3. QED
  BY <1>1, <1>2, Frames

LEMMA PipelineInitInv == Init => PipelineInv
<1> SUFFICES ASSUME Init PROVE PipelineInv
  OBVIOUS
<1>1. status = "none" /\ events = <<>> /\ stale = FALSE
  BY DEF Init, PipelineInit
<1>2. ApplyCallsOK
  BY IdleCall DEF Init, ThreadsInit, ApplyCallsOK
<1>3. PipelineOK
  <2>1. events \in Seq(Event)
    BY <1>1
  <2>2. QED
    BY <1>1, <2>1 DEF PipelineOK, Event
<1>4. EventsTell
  <2>1. 1..Len(events) = {}
    BY <1>1
  <2>2. QED
    BY <1>1, <2>1 DEF EventsTell
<1>5. QED
  BY <1>1, <1>2, <1>3, <1>4 DEF PipelineInv

\* The status of an application always has the event that led to it, and the events
\* form one chain as long as no commit's session had read another status.
THEOREM EventsTheorem == Spec => []EventsTell
<1>1. Init => PipelineInv
  BY PipelineInitInv
<1>2. BaseInv /\ [Next]_vars => BaseInv'
  BY Frames
<1>3. PipelineInv => EventsTell
  BY DEF PipelineInv
<1>4. QED
  BY <1>1, <1>2, <1>3, BaseInit, PipelineNextInv, PTL DEF Spec

--------------------------------------------------------------------------------
(* Requests to the model                                                   *)

PermitsInv == DOMAIN permits = Settings /\ PermitsHeld

LEMMA OllamaStepInv ==
  ASSUME BaseInv, PermitsInv, NEW t \in Thread, OllamaStep(t)
  PROVE  PermitsInv'
<1> USE DEF BaseInv
<1>1. ASSUME NEW c, Moved(t, c), call[t].at # "post", c.at # "post", UNCHANGED permits
      PROVE  PermitsInv'
  BY <1>1 DEF PermitsInv, PermitsHeld, Moved
<1>2. ASSUME call[t].at \in Asking
      PROVE  {"op", "at", "settings", "posts"} \subseteq DOMAIN call[t] /\ call[t].settings \in Settings
  BY <1>2 DEF CallsOK, AskersOK
<1>3. CASE StartChat(t) \/ StartReview(t)
  <2>1. PICK s \in Settings, op \in ModelOps, left \in {0, Attempts - 1} :
          Begin(t, [op |-> op, at |-> "ask", settings |-> s, left |-> left, posts |-> 0])
    BY <1>3 DEF StartChat, StartReview, ModelOps
  <2>2. UNCHANGED permits
    BY <1>3 DEF StartChat, StartReview
  <2>3. QED
    BY <1>1, <2>1, <2>2, BeginMoves, IdleCall
<1>4. CASE TakePermit(t)
  <2> DEFINE s == call[t].settings
             c == [call[t] EXCEPT !.at = "post", !.posts = 0]
  <2>1. call[t].at = "ask" /\ s \in Settings
    BY <1>2, <1>4 DEF TakePermit, Asking
  <2>2. Moved(t, c)
    BY <1>4, BecomeMoves DEF TakePermit
  <2>3. c.at = "post" /\ c.settings = s
    BY <1>2, <2>1 DEF Asking
  <2> HIDE DEF c
  <2>4. /\ permits' = [permits EXCEPT ![s] = @ \cup {t}] /\ Cardinality(permits[s]) < Maximum[s]
    BY <1>4 DEF TakePermit
  <2>5. DOMAIN permits' = Settings
    BY <2>4 DEF PermitsInv
  <2>6. /\ permits'[s] = permits[s] \cup {t}
        /\ \A r \in Settings \ {s} : permits'[r] = permits[r]
    BY <2>1, <2>4 DEF PermitsInv
  <2>7. ASSUME NEW r \in Settings
        PROVE  permits'[r] = {u \in Thread : call'[u].at = "post" /\ call'[u].settings = r}
    <3>1. \A u \in Thread : call'[u].at = "post" /\ call'[u].settings = r <=>
            u \in permits[r] \/ (u = t /\ r = s)
      BY <2>1, <2>2, <2>3 DEF Moved, PermitsInv, PermitsHeld
    <3>2. permits[r] \subseteq Thread
      BY DEF PermitsInv, PermitsHeld
    <3>3. QED
      BY <2>6, <3>1, <3>2
  <2>8. Cardinality(permits'[s]) <= Maximum[s]
    <3>1. IsFiniteSet(permits[s])
      BY <2>1, ThreadsFinite, FS_Subset DEF PermitsInv, PermitsHeld
    <3>2. t \notin permits[s]
      BY <2>1 DEF PermitsInv, PermitsHeld
    <3>3. Cardinality(permits'[s]) = Cardinality(permits[s]) + 1 /\ Cardinality(permits[s]) \in Nat
      BY <2>6, <3>1, <3>2, FS_AddElement, FS_CardinalityType
    <3>4. Maximum[s] \in Nat
      BY <2>1, SettingsOK
    <3>5. QED
      BY <2>4, <3>3, <3>4
  <2>9. QED
    BY <2>1, <2>5, <2>6, <2>7, <2>8 DEF PermitsInv, PermitsHeld
<1>5. CASE PostAgain(t)
  <2>1. UNCHANGED permits /\ call[t].at = "post"
    BY <1>5 DEF PostAgain
  <2>2. PICK n : Become(t, [call[t] EXCEPT !.posts = n])
    BY <1>5 DEF PostAgain
  <2>3. PICK c : Moved(t, c) /\ c = [call[t] EXCEPT !.posts = n]
    BY <2>2, BecomeMoves
  <2>4. c.at = "post" /\ c.settings = call[t].settings
    BY <1>2, <2>1, <2>3 DEF Asking
  <2>5. \A u \in Thread : (call'[u].at = "post" <=> call[u].at = "post") /\ call'[u].settings = call[u].settings
    BY <2>1, <2>3, <2>4 DEF Moved
  <2>6. QED
    BY <2>1, <2>5 DEF PermitsInv, PermitsHeld
<1>6. CASE PostEnds(t)
  <2> DEFINE s == call[t].settings
  <2>1. call[t].at = "post" /\ s \in Settings
    BY <1>2, <1>6 DEF PostEnds, Asking
  <2>2. permits' = [permits EXCEPT ![s] = @ \ {t}]
    BY <1>6 DEF PostEnds, Released
  <2>3. PICK c : Moved(t, c) /\ c.at # "post"
    <3>1. CASE Become(t, [call[t] EXCEPT !.at = "answered", !.posts = 0])
      <4>1. PICK c : Moved(t, c) /\ c = [call[t] EXCEPT !.at = "answered", !.posts = 0]
        BY <3>1, BecomeMoves
      <4>2. c.at = "answered"
        BY <1>2, <2>1, <4>1 DEF Asking
      <4>3. QED
        BY <4>1, <4>2
    <3>2. CASE Become(t, [call[t] EXCEPT !.at = "ask", !.left = @ - 1])
      <4>1. PICK c : Moved(t, c) /\ c = [call[t] EXCEPT !.at = "ask", !.left = @ - 1]
        BY <3>2, BecomeMoves
      <4>2. c.at = "ask"
        BY <1>2, <2>1, <4>1 DEF Asking
      <4>3. QED
        BY <4>1, <4>2
    <3>3. CASE End(t)
      BY <3>3, EndMoves, IdleCall
    <3>4. QED
      BY <1>6, <3>1, <3>2, <3>3 DEF PostEnds
  <2>4. DOMAIN permits' = Settings
    BY <2>2 DEF PermitsInv
  <2>5. /\ permits'[s] = permits[s] \ {t}
        /\ \A r \in Settings \ {s} : permits'[r] = permits[r]
    BY <2>1, <2>2 DEF PermitsInv
  <2>6. ASSUME NEW r \in Settings
        PROVE  permits'[r] = {u \in Thread : call'[u].at = "post" /\ call'[u].settings = r}
    <3>1. \A u \in Thread : call'[u].at = "post" /\ call'[u].settings = r <=>
            u \in permits[r] /\ ~(u = t /\ r = s)
      BY <2>1, <2>3 DEF Moved, PermitsInv, PermitsHeld
    <3>2. permits[r] \subseteq Thread
      BY DEF PermitsInv, PermitsHeld
    <3>3. QED
      BY <2>5, <3>1, <3>2
  <2>7. Cardinality(permits'[s]) <= Maximum[s]
    <3>1. IsFiniteSet(permits[s])
      BY <2>1, ThreadsFinite, FS_Subset DEF PermitsInv, PermitsHeld
    <3>2. t \in permits[s]
      BY <2>1 DEF PermitsInv, PermitsHeld
    <3>3. Cardinality(permits'[s]) = Cardinality(permits[s]) - 1 /\ Cardinality(permits[s]) \in Nat
      BY <2>5, <3>1, <3>2, FS_RemoveElement, FS_CardinalityType
    <3>4. Maximum[s] \in Nat
      BY <2>1, SettingsOK
    <3>5. QED
      BY <2>1, <3>3, <3>4 DEF PermitsInv, PermitsHeld
  <2>8. QED
    BY <2>1, <2>4, <2>5, <2>6, <2>7 DEF PermitsInv, PermitsHeld
<1>7. QED
  BY <1>3, <1>4, <1>5, <1>6 DEF OllamaStep

LEMMA PermitsNextInv == BaseInv /\ PermitsInv /\ [Next]_vars => PermitsInv'
<1> SUFFICES ASSUME BaseInv, PermitsInv, [Next]_vars
             PROVE  PermitsInv'
  OBVIOUS
<1>1. CASE \E t \in Thread : OllamaStep(t)
  BY <1>1, OllamaStepInv
<1>2. CASE UNCHANGED permits /\ PostsStay
  <2>1. \A s \in Settings : {t \in Thread : call'[t].at = "post" /\ call'[t].settings = s}
                            = {t \in Thread : call[t].at = "post" /\ call[t].settings = s}
    BY <1>2 DEF PostsStay
  <2>2. QED
    BY <1>2, <2>1 DEF PermitsInv, PermitsHeld
<1>3. CASE Crash
  <2>1. permits' = [s \in Settings |-> {}]
    BY <1>3 DEF Crash
  <2>2. \A s \in Settings : {t \in Thread : call'[t].at = "post" /\ call'[t].settings = s} = {}
    BY <1>3, CrashIdle, IdleCall
  <2>3. \A s \in Settings : Cardinality(permits'[s]) <= Maximum[s]
    BY <2>1, FS_EmptySet, SettingsOK
  <2>4. QED
    BY <2>1, <2>2, <2>3 DEF PermitsInv, PermitsHeld
<1>4. QED
  BY <1>1, <1>2, <1>3, Frames

\* Permits are held exactly by the requests under way, never more than the maximum,
\* for any settings, retries and threads.
THEOREM PermitsTheorem == Spec => []PermitsHeld
<1>1. Init => PermitsInv
  <2> SUFFICES ASSUME Init PROVE PermitsInv
    OBVIOUS
  <2>1. permits = [s \in Settings |-> {}]
    BY DEF Init, OllamaInit
  <2>2. \A t \in Thread : call[t].at # "post"
    BY IdleCall DEF Init, ThreadsInit
  <2>3. \A s \in Settings : Cardinality(permits[s]) <= Maximum[s]
    BY <2>1, FS_EmptySet, SettingsOK
  <2>4. QED
    BY <2>1, <2>2, <2>3 DEF PermitsInv, PermitsHeld
<1>2. BaseInv /\ [Next]_vars => BaseInv'
  BY Frames
<1>3. PermitsInv => PermitsHeld
  BY DEF PermitsInv
<1>4. QED
  BY <1>1, <1>2, <1>3, BaseInit, PermitsNextInv, PTL DEF Spec

--------------------------------------------------------------------------------
(* The bridge is in one cycle at a time                                    *)

Bridging == {"bridge", "publish", "index"}
OneBridge == \A t, u \in Thread : call[t].op \in Bridging /\ call[u].op \in Bridging => t = u

\* A cycle begins only where there is none.
BridgeBegins(t) ==
  /\ \A u \in Thread \ {t} : call'[u] = call[u]
  /\ call'[t].op \in Bridging => call[t].op \in Bridging \/ BridgeFree

LEMMA InboxBegins ==
  ASSUME BaseInv, NEW t \in Thread, InboxStep(t)
  PROVE  BridgeBegins(t)
<1> USE DEF BaseInv, Bridging
<1>1. ASSUME NEW c, Moved(t, c), c.op \in Bridging => call[t].op \in Bridging \/ BridgeFree
      PROVE  BridgeBegins(t)
  BY <1>1 DEF BridgeBegins, Moved
<1>2. CASE TakeBatch(t)
  <2>1. BridgeFree /\ \E c : Begin(t, c)
    BY <1>2 DEF TakeBatch
  <2>2. QED
    BY <1>1, <2>1, BeginMoves
<1>3. CASE Discover(t)
  <2>1. PICK new : Begin(t, [op |-> "discover", at |-> "save", new |-> new])
    BY <1>3 DEF Discover
  <2>2. QED
    BY <1>1, <2>1, BeginMoves
<1>4. CASE ReadProposal(t)
  <2>1. PICK p, verdict : Begin(t, [op |-> "decide", at |-> "save", page |-> p, verdict |-> verdict])
    BY <1>4 DEF ReadProposal
  <2>2. QED
    BY <1>1, <2>1, BeginMoves
<1>5. CASE \/ SaveSuggestions(t) \/ WriteReceipt(t) \/ MoveBatch(t)
           \/ BridgeFails(t) \/ DecideProposal(t)
  <2>1. End(t) \/ (call[t].op = "bridge" /\ \E at : Goto(t, at))
    BY <1>5 DEF SaveSuggestions, Conflicted, WriteReceipt, MoveBatch, BridgeFails, DecideProposal, Proceed, In
  <2>2. CASE End(t)
    BY <1>1, <2>2, EndMoves, IdleCall
  <2>3. CASE call[t].op = "bridge" /\ \E at : Goto(t, at)
    BY <2>3, GotoMoves DEF BridgeBegins, Moved
  <2>4. QED
    BY <2>1, <2>2, <2>3
<1>6. QED
  BY <1>2, <1>3, <1>4, <1>5 DEF InboxStep

LEMMA MemoryBegins ==
  ASSUME BaseInv, NEW t \in Thread, MemoryStep(t)
  PROVE  BridgeBegins(t)
<1> USE DEF BaseInv, Bridging
<1>1. ASSUME NEW c, Moved(t, c), c.op \in Bridging => call[t].op \in Bridging \/ BridgeFree
      PROVE  BridgeBegins(t)
  BY <1>1 DEF BridgeBegins, Moved
<1>2. CASE Publish(t) \/ RefreshIndex(t)
  <2>1. BridgeFree /\ \E c : Begin(t, c)
    BY <1>2 DEF Publish, RefreshIndex
  <2>2. QED
    BY <1>1, <2>1, BeginMoves
<1>3. CASE ReadAnswers(t)
  <2>1. PICK q, a : Begin(t, [op |-> "answer", at |-> "save", question |-> q, answer |-> a,
                              read |-> answers])
    BY <1>3 DEF ReadAnswers
  <2>2. QED
    BY <1>1, <2>1, BeginMoves
<1>4. CASE Dispose(t)
  BY <1>1, <1>4, BeginMoves, IdleCall DEF Dispose
<1>5. CASE SaveAnswers(t) \/ WriteContext(t) \/ WriteMemory(t) \/ MemoryFails(t)
  <2>1. End(t) \/ (call[t].op \in Bridging /\ \E at : Goto(t, at))
    BY <1>5 DEF SaveAnswers, WriteContext, WriteMemory, MemoryFails
  <2>2. CASE End(t)
    BY <1>1, <2>2, EndMoves, IdleCall
  <2>3. CASE call[t].op \in Bridging /\ \E at : Goto(t, at)
    BY <2>3, GotoMoves DEF BridgeBegins, Moved
  <2>4. QED
    BY <2>1, <2>2, <2>3
<1>6. QED
  BY <1>2, <1>3, <1>4, <1>5 DEF MemoryStep

LEMMA BridgeNextInv == BaseInv /\ OneBridge /\ [Next]_vars => OneBridge'
<1> SUFFICES ASSUME BaseInv, OneBridge, [Next]_vars
             PROVE  OneBridge'
  OBVIOUS
<1>1. ASSUME NEW t \in Thread, BridgeBegins(t)
      PROVE  OneBridge'
  BY <1>1 DEF BridgeBegins, BridgeFree, OneBridge, Bridging
<1>2. CASE \E t \in Thread : InboxStep(t)
  BY <1>1, <1>2, InboxBegins
<1>3. CASE \E t \in Thread : MemoryStep(t)
  BY <1>1, <1>3, MemoryBegins
<1>4. CASE Crash
  BY <1>4, CrashIdle, IdleCall DEF OneBridge, Bridging
<1>5. CASE /\ ~(\E t \in Thread : InboxStep(t))
           /\ ~(\E t \in Thread : MemoryStep(t))
           /\ ~Crash
  <2>1. Keeps(InboxOps) \/ \E b \in Batch : Drop(b)
    BY <1>5, Frames
  <2>2. Keeps(MemoryOps) \/ Asks
    BY <1>5, Frames
  <2>3. Keeps(InboxOps)
    BY <2>1 DEF Drop, threads, Keeps
  <2>4. \A t \in Thread : call'[t].op \in Bridging => call[t].op \in Bridging
    BY <2>2, <2>3, IdleCall DEF Keeps, Asks, InboxOps, MemoryOps, ModelOps, Bridging
  <2>5. QED
    BY <2>4 DEF OneBridge
<1>6. QED
  BY <1>2, <1>3, <1>4, <1>5

--------------------------------------------------------------------------------
(* The inbox of the research agent                                         *)

\* What a session of suggestions, a batch under way and a decision carry.
BatchCall(c) ==
  /\ {"op", "at", "batch", "refused", "good", "new"} \subseteq DOMAIN c
  /\ c.at \in {"save", "receipt", "move"} /\ c.batch \in Batch /\ c.refused \in BOOLEAN
  /\ c.good \subseteq Portal /\ c.new \subseteq Portal
  /\ verified[c.batch] = c.good
  /\ c.at = "save" => c.good \subseteq c.new \cup DOMAIN proposals
  /\ c.at # "save" => c.good \subseteq DOMAIN proposals
  /\ c.at = "move" => c.batch \in DOMAIN receipts
InboxCall(c) ==
  /\ c.op = "bridge" => BatchCall(c)
  /\ c.op = "discover" => c.new \subseteq Portal
  /\ c.op = "decide" => c.verdict \in Decided

InboxInv == InboxOK /\ ReceiptsTrue /\ \A t \in Thread : InboxCall(call[t])

\* What the steps of a batch add, calls of other threads can live with.
LEMMA InboxOthers ==
  ASSUME InboxInv, NEW t \in Thread, NEW c, Moved(t, c), InboxCall(c)',
         DOMAIN proposals \subseteq DOMAIN proposals', DOMAIN receipts \subseteq DOMAIN receipts',
         \/ verified' = verified
         \/ \A u \in Thread \ {t} : call[u].op # "bridge"
  PROVE  \A u \in Thread : InboxCall(call[u])'
<1>1. ASSUME NEW u \in Thread \ {t}
      PROVE  InboxCall(call[u])'
  <2>1. call'[u] = call[u] /\ InboxCall(call[u])
    BY DEF Moved, InboxInv
  <2>2. QED
    BY <2>1 DEF InboxCall, BatchCall
<1>2. InboxCall(call[t])'
  BY DEF Moved, InboxCall, BatchCall
<1>3. QED
  BY <1>1, <1>2

\* A bridge call at its next step carries what it did before.
LEMMA BatchProceeds ==
  ASSUME BaseInv, InboxInv, NEW t \in Thread, call[t].op = "bridge", Proceed(t)
  PROVE  \E c : /\ Moved(t, c) /\ (c = Idle \/ DOMAIN c = DOMAIN call[t])
                /\ \/ call[t].at = "move" /\ c = Idle
                   \/ /\ call[t].at # "move" /\ c.op = "bridge" /\ c.at = After[call[t].at]
                      /\ c.batch = call[t].batch /\ c.refused = call[t].refused
                      /\ c.good = call[t].good /\ c.new = call[t].new
<1>1. /\ call[t].at \in {"save", "receipt", "move"}
      /\ {"op", "at", "batch", "refused", "good", "new"} \subseteq DOMAIN call[t]
  BY DEF InboxInv, InboxCall, BatchCall
<1>2. CASE call[t].at = "move"
  <2>1. End(t)
    BY <1>2 DEF Proceed, After
  <2>2. QED
    BY <1>2, <2>1, EndMoves DEF BaseInv
<1>3. CASE call[t].at # "move"
  <2>1. Goto(t, After[call[t].at])
    BY <1>1, <1>3 DEF Proceed, After
  <2>2. PICK c : Moved(t, c) /\ c = [call[t] EXCEPT !.at = After[call[t].at]]
    BY <2>1, GotoMoves DEF BaseInv
  <2>3. /\ DOMAIN c = DOMAIN call[t] /\ c.op = "bridge" /\ c.at = After[call[t].at] /\ c.batch = call[t].batch
        /\ c.refused = call[t].refused /\ c.good = call[t].good /\ c.new = call[t].new
    BY <1>1, <2>2
  <2>4. QED
    BY <1>3, <2>2, <2>3
<1>4. QED
  BY <1>2, <1>3

LEMMA InboxStepInv ==
  ASSUME BaseInv, OneBridge, InboxInv, NEW t \in Thread, InboxStep(t)
  PROVE  InboxInv'
<1> USE DEF BaseInv
<1> DEFINE c == call[t]
<1>1. CASE TakeBatch(t)
  <2>1. PICK b \in inbox, refused \in BOOLEAN : \E good \in SUBSET Listed[b] :
          /\ refused => good = {}
          /\ Begin(t, [op |-> "bridge", at |-> IF refused THEN "receipt" ELSE "save", batch |-> b,
                       refused |-> refused, good |-> good, new |-> Unknown(good)])
          /\ verified' = [verified EXCEPT ![b] = good]
    BY <1>1 DEF TakeBatch
  <2>2. PICK good \in SUBSET Listed[b] :
          /\ refused => good = {}
          /\ Begin(t, [op |-> "bridge", at |-> IF refused THEN "receipt" ELSE "save", batch |-> b,
                       refused |-> refused, good |-> good, new |-> Unknown(good)])
          /\ verified' = [verified EXCEPT ![b] = good]
    BY <2>1
  <2>3. BridgeFree /\ UNCHANGED <<inbox, processed, receipts, proposals>>
    BY <1>1 DEF TakeBatch
  <2>4. b \in Batch /\ good \subseteq Portal
    BY BatchesOK DEF InboxInv, InboxOK
  <2>5. /\ verified' \in [Batch -> SUBSET Portal] /\ verified'[b] = good
        /\ \A a \in Batch \ {b} : verified'[a] = verified[a]
    BY <2>2, <2>4 DEF InboxInv, InboxOK
  <2> DEFINE new == [op |-> "bridge", at |-> IF refused THEN "receipt" ELSE "save", batch |-> b,
                     refused |-> refused, good |-> good, new |-> Unknown(good)]
  <2>6. PICK d : Moved(t, d) /\ d = new
    BY <2>2, BeginMoves
  <2>7. InboxCall(d)'
    BY <2>2, <2>3, <2>4, <2>5, <2>6 DEF InboxCall, BatchCall, Unknown
  <2>8. \A u \in Thread : InboxCall(call[u])'
    <3> HIDE DEF new
    <3>1. \A u \in Thread : call[u].op # "bridge"
      BY <2>3 DEF BridgeFree
    <3>2. QED
      BY <2>3, <2>6, <2>7, <3>1, InboxOthers
  <2>9. QED
    BY <2>3, <2>5, <2>8 DEF InboxInv, InboxOK, ReceiptsTrue
<1>2. CASE Discover(t)
  <2>1. PICK new \in SUBSET Portal : Begin(t, [op |-> "discover", at |-> "save", new |-> new])
    BY <1>2 DEF Discover, Unknown
  <2>2. UNCHANGED inboxVars
    BY <1>2 DEF Discover
  <2>3. InboxCall([op |-> "discover", at |-> "save", new |-> new])'
    BY DEF InboxCall
  <2>4. \A u \in Thread : InboxCall(call[u])'
    BY <2>1, <2>2, <2>3, BeginMoves, InboxOthers DEF inboxVars
  <2>5. QED
    BY <2>2, <2>4 DEF InboxInv, InboxOK, ReceiptsTrue, inboxVars
<1>3. CASE SaveSuggestions(t)
  <2>1. /\ c.op \in {"bridge", "discover"} /\ c.at = "save" /\ c.new \subseteq Portal
        /\ UNCHANGED <<inbox, processed, receipts, verified>>
    BY <1>3 DEF SaveSuggestions, InboxInv, InboxCall, BatchCall
  <2> DEFINE conflict == c.new \cap DOMAIN proposals # {}
  <2>2. /\ proposals' = IF conflict THEN proposals
                        ELSE [p \in DOMAIN proposals \cup c.new |-> IF p \in c.new THEN "pending" ELSE proposals[p]]
        /\ \/ c.op = "bridge" /\ IF conflict THEN Conflicted(t) ELSE Proceed(t)
           \/ c.op = "discover" /\ End(t)
    BY <1>3 DEF SaveSuggestions, Propose
  <2>3. DOMAIN proposals' = IF conflict THEN DOMAIN proposals ELSE DOMAIN proposals \cup c.new
    BY <2>2
  <2>4. InboxOK' /\ ReceiptsTrue'
    BY <2>1, <2>2, <2>3 DEF InboxInv, InboxOK, ReceiptsTrue
  <2>5. CASE End(t)
    BY <2>1, <2>3, <2>4, <2>5, EndMoves, IdleCall, InboxOthers DEF InboxInv, InboxCall
  <2>6. CASE c.op = "bridge" /\ ~conflict /\ Proceed(t)
    <3>1. PICK d : /\ Moved(t, d) /\ DOMAIN d = DOMAIN c /\ d.op = "bridge" /\ d.at = "receipt" /\ d.batch = c.batch
                   /\ d.refused = c.refused /\ d.good = c.good /\ d.new = c.new
      BY <2>1, <2>6, BatchProceeds, IdleCall DEF After
    <3>2. InboxCall(d)'
      BY <2>1, <2>3, <2>6, <3>1 DEF InboxInv, InboxCall, BatchCall
    <3>3. QED
      BY <2>1, <2>3, <2>4, <3>1, <3>2, InboxOthers DEF InboxInv
  <2>7. QED
    BY <2>2, <2>5, <2>6 DEF Conflicted
<1>4. CASE WriteReceipt(t)
  <2>1. /\ c.op = "bridge" /\ c.at = "receipt" /\ Proceed(t)
        /\ UNCHANGED <<inbox, processed, proposals, verified>>
    BY <1>4 DEF WriteReceipt, In
  <2>2. receipts' = [b \in DOMAIN receipts \cup {c.batch} |->
                       IF b = c.batch THEN [refused |-> c.refused, accepted |-> c.good] ELSE receipts[b]]
    BY <1>4 DEF WriteReceipt
  <2>3. BatchCall(c)
    BY <2>1 DEF InboxInv, InboxCall
  <2>4. DOMAIN receipts' = DOMAIN receipts \cup {c.batch}
    BY <2>2
  <2>5. InboxOK' /\ ReceiptsTrue'
    BY <2>1, <2>2, <2>3, <2>4 DEF InboxInv, InboxOK, ReceiptsTrue, BatchCall
  <2>6. PICK d : /\ Moved(t, d) /\ DOMAIN d = DOMAIN c /\ d.op = "bridge" /\ d.at = "move" /\ d.batch = c.batch
                 /\ d.refused = c.refused /\ d.good = c.good /\ d.new = c.new
    BY <2>1, BatchProceeds, IdleCall DEF After
  <2>7. InboxCall(d)'
    BY <2>1, <2>3, <2>4, <2>6 DEF InboxCall, BatchCall
  <2>8. QED
    BY <2>1, <2>4, <2>5, <2>6, <2>7, InboxOthers DEF InboxInv
<1>5. CASE MoveBatch(t)
  <2>1. /\ c.op = "bridge" /\ c.at = "move" /\ Proceed(t)
        /\ inbox' = inbox \ {c.batch} /\ processed' = processed \cup {c.batch}
        /\ UNCHANGED <<receipts, proposals, verified>>
    BY <1>5 DEF MoveBatch, In
  <2>2. BatchCall(c)
    BY <2>1 DEF InboxInv, InboxCall
  <2>3. InboxOK' /\ ReceiptsTrue'
    BY <2>1, <2>2 DEF InboxInv, InboxOK, ReceiptsTrue, BatchCall
  <2>4. Moved(t, Idle)
    BY <2>1, BatchProceeds
  <2>5. QED
    BY <2>1, <2>3, <2>4, IdleCall, InboxOthers DEF InboxInv, InboxCall
<1>6. CASE BridgeFails(t)
  <2>1. UNCHANGED inboxVars /\ Moved(t, Idle)
    BY <1>6, EndMoves DEF BridgeFails
  <2>2. InboxCall(Idle)'
    BY IdleCall DEF InboxCall
  <2>3. \A u \in Thread : InboxCall(call[u])'
    BY <2>1, <2>2, InboxOthers DEF inboxVars
  <2>4. QED
    BY <2>1, <2>3 DEF InboxInv, InboxOK, ReceiptsTrue, inboxVars
<1>7. CASE ReadProposal(t)
  <2>1. PICK p \in DOMAIN proposals, verdict \in Decided : Begin(t, [op |-> "decide", at |-> "save", page |-> p, verdict |-> verdict])
    BY <1>7 DEF ReadProposal
  <2>2. UNCHANGED inboxVars
    BY <1>7 DEF ReadProposal
  <2>3. InboxCall([op |-> "decide", at |-> "save", page |-> p, verdict |-> verdict])'
    BY <2>1 DEF InboxCall
  <2>4. \A u \in Thread : InboxCall(call[u])'
    BY <2>1, <2>2, <2>3, BeginMoves, InboxOthers DEF inboxVars
  <2>5. QED
    BY <2>2, <2>4 DEF InboxInv, InboxOK, ReceiptsTrue, inboxVars
<1>8. CASE DecideProposal(t)
  <2>1. /\ c.op = "decide" /\ End(t) /\ UNCHANGED <<inbox, processed, receipts, verified>>
        /\ proposals' \in {proposals, [proposals EXCEPT ![c.page] = c.verdict]}
    BY <1>8 DEF DecideProposal, In
  <2>2. c.verdict \in Decided
    BY <2>1 DEF InboxInv, InboxCall
  <2>3. DOMAIN proposals' = DOMAIN proposals
    BY <2>1
  <2>4. InboxOK' /\ ReceiptsTrue'
    BY <2>1, <2>2, <2>3 DEF InboxInv, InboxOK, ReceiptsTrue
  <2>5. QED
    BY <2>1, <2>3, <2>4, EndMoves, IdleCall, InboxOthers DEF InboxInv, InboxCall
<1>9. QED
  BY <1>1, <1>2, <1>3, <1>4, <1>5, <1>6, <1>7, <1>8 DEF InboxStep

LEMMA InboxNextInv == BaseInv /\ OneBridge /\ InboxInv /\ [Next]_vars => InboxInv'
<1> SUFFICES ASSUME BaseInv, OneBridge, InboxInv, [Next]_vars
             PROVE  InboxInv'
  OBVIOUS
<1>1. CASE \E t \in Thread : InboxStep(t)
  BY <1>1, InboxStepInv
<1>2. CASE \E b \in Batch : Drop(b)
  <2>1. PICK b \in Batch : inbox' = inbox \cup {b}
                           /\ UNCHANGED <<threads, processed, receipts, proposals, verified>>
    BY <1>2 DEF Drop
  <2>2. \A t \in Thread : InboxCall(call[t])'
    BY <2>1 DEF InboxInv, InboxCall, BatchCall, threads
  <2>3. QED
    BY <2>1, <2>2 DEF InboxInv, InboxOK, ReceiptsTrue
<1>3. CASE UNCHANGED inboxVars /\ (Keeps(InboxOps) \/ Crash)
  <2>1. \A t \in Thread : call'[t].op \in InboxOps => call'[t] = call[t]
    BY <1>3, CrashIdle, IdleCall DEF Keeps, InboxOps
  <2>2. \A t \in Thread : InboxCall(call[t])'
    BY <1>3, <2>1 DEF InboxInv, InboxCall, BatchCall, inboxVars, InboxOps
  <2>3. QED
    BY <1>3, <2>2 DEF InboxInv, InboxOK, ReceiptsTrue, inboxVars
<1>4. QED
  BY <1>1, <1>2, <1>3, Frames

LEMMA OneBridgeInit == Init => OneBridge
BY IdleCall DEF Init, ThreadsInit, OneBridge, Bridging

LEMMA InboxInitInv == Init => InboxInv
BY IdleCall
DEF Init, ThreadsInit, InboxInit, InboxInv, InboxOK, ReceiptsTrue, InboxCall

\* However sessions fail or conflict, and wherever a kill hits the bridge, a receipt
\* claims only pages that have a proposal, and a batch that has left the inbox has
\* its receipt and its pages.
THEOREM ReceiptsTheorem == Spec => []ReceiptsTrue
<1>1. Init => InboxInv
  BY InboxInitInv
<1>2. BaseInv /\ [Next]_vars => BaseInv'
  BY Frames
<1>3. InboxInv => ReceiptsTrue
  BY DEF InboxInv
<1>4. QED
  BY <1>1, <1>2, <1>3, BaseInit, OneBridgeInit, BridgeNextInv, InboxNextInv, PTL DEF Spec

--------------------------------------------------------------------------------
(* Answers, context files and the semantic index                           *)

AnswerRow == [Question -> Answer \cup {NoAnswer}]

\* What a request has read, and what a refresh whose index is written describes.
MemoryCall(c) ==
  /\ c.op = "answer" => c.question \in Question /\ c.answer \in Answer /\ c.read \in AnswerRow
  /\ c.op = "index" => {"op", "at", "content"} \subseteq DOMAIN c
  /\ c.op = "index" /\ c.at = "meta" => c.content = index

MemoryInv ==
  /\ answers \in AnswerRow /\ given \in AnswerRow
  /\ AnswersKept
  /\ index \in indexed
  /\ IndexTold
  /\ \A t \in Thread : MemoryCall(call[t])

LEMMA MemoryStepInv ==
  ASSUME BaseInv, OneBridge, MemoryInv, NEW t \in Thread, MemoryStep(t)
  PROVE  MemoryInv'
<1> USE DEF BaseInv
<1> DEFINE c == call[t]
<1>1. ASSUME NEW d, Moved(t, d), MemoryCall(d)', index' = index
      PROVE  \A u \in Thread : MemoryCall(call[u])'
  BY <1>1 DEF Moved, MemoryInv, MemoryCall
\* A thread that has nothing to do with the index starts or ends its call.
<1>2. ASSUME NEW d, Moved(t, d), ~TornOff(c), MemoryCall(d)', UNCHANGED <<index, meta, indexed, torn>>
      PROVE  index' \in indexed' /\ IndexTold' /\ \A u \in Thread : MemoryCall(call[u])'
  <2>1. \A u \in Thread : MemoryCall(call[u])'
    BY <1>1, <1>2
  <2>2. IndexTold'
    BY <1>2 DEF MemoryInv, IndexTold, TornOff, Moved
  <2>3. QED
    BY <1>2, <2>1, <2>2 DEF MemoryInv
<1>3. CASE ReadAnswers(t)
  <2>1. PICK q \in Question, a \in Answer :
          Begin(t, [op |-> "answer", at |-> "save", question |-> q, answer |-> a, read |-> answers])
    BY <1>3 DEF ReadAnswers
  <2>2. UNCHANGED memoryVars
    BY <1>3 DEF ReadAnswers
  <2>3. PICK d : /\ Moved(t, d)
                 /\ d = [op |-> "answer", at |-> "save", question |-> q, answer |-> a, read |-> answers]
    BY <2>1, BeginMoves
  <2>4. MemoryCall(d)' /\ ~TornOff(c)
    BY <2>1, <2>2, <2>3, BeginMoves, IdleCall DEF MemoryCall, MemoryInv, TornOff
  <2>5. QED
    BY <1>2, <2>2, <2>3, <2>4 DEF MemoryInv, AnswersKept, memoryVars
<1>4. CASE SaveAnswers(t)
  <2>1. /\ c.op = "answer" /\ Moved(t, Idle)
        /\ UNCHANGED <<index, meta, indexed, torn>>
        /\ c.question \in Question /\ c.answer \in Answer /\ c.read \in AnswerRow
    BY <1>4, EndMoves DEF SaveAnswers, In, MemoryInv, MemoryCall
  <2>2. index' \in indexed' /\ IndexTold' /\ \A u \in Thread : MemoryCall(call[u])'
    BY <1>2, <2>1, IdleCall DEF MemoryCall, TornOff
  <2>3. CASE UNCHANGED <<answers, lost, given>>
    BY <2>2, <2>3 DEF MemoryInv, AnswersKept
  <2>4. CASE /\ answers' = Merge(c)
             /\ given' = [given EXCEPT ![c.question] = c.answer]
             /\ lost' = (lost \cup {q \in Question : c.read[q] # answers[q]}) \ {c.question}
    <3>1. answers' \in AnswerRow /\ given' \in AnswerRow
      BY <2>1, <2>4 DEF Merge, AnswerRow, MemoryInv
    <3>2. ASSUME NEW q \in Question, q \notin lost'
          PROVE  answers'[q] = given'[q]
      <4>1. CASE q = c.question
        BY <2>1, <2>4, <4>1 DEF Merge, AnswerRow, MemoryInv
      <4>2. CASE q # c.question
        <5>1. q \notin lost /\ c.read[q] = answers[q] /\ answers[q] = given[q]
          BY <2>4, <3>2, <4>2 DEF MemoryInv, AnswersKept
        <5>2. answers'[q] = c.read[q] /\ given'[q] = given[q]
          BY <2>1, <2>4, <4>2 DEF Merge, AnswerRow, MemoryInv
        <5>3. QED
          BY <5>1, <5>2
      <4>3. QED
        BY <4>1, <4>2
    <3>3. QED
      BY <2>2, <3>1, <3>2 DEF MemoryInv, AnswersKept
  <2>5. QED
    BY <1>4, <2>3, <2>4 DEF SaveAnswers
<1>5. CASE Dispose(t)
  <2>1. Moved(t, Idle) /\ c = Idle
    BY <1>5, BeginMoves DEF Dispose
  <2>2. UNCHANGED <<answers, lost, given, index, meta, indexed, torn>>
    BY <1>5 DEF Dispose
  <2>3. QED
    BY <1>2, <2>1, <2>2, IdleCall DEF MemoryInv, AnswersKept, MemoryCall, TornOff
<1>6. CASE Publish(t)
  <2>1. PICK d : Moved(t, d) /\ d.op = "publish" /\ c = Idle
    BY <1>6, BeginMoves DEF Publish
  <2>2. UNCHANGED <<answers, lost, given, index, meta, indexed, torn>>
    BY <1>6 DEF Publish
  <2>3. MemoryCall(d)' /\ ~TornOff(c)
    BY <2>1, IdleCall DEF MemoryCall, TornOff
  <2>4. QED
    BY <1>2, <2>1, <2>2, <2>3 DEF MemoryInv, AnswersKept
<1>7. CASE WriteContext(t)
  <2>1. /\ c.op = "publish"
        /\ UNCHANGED <<answers, lost, given, index, meta, indexed, torn>>
    BY <1>7 DEF WriteContext
  <2>2. PICK d : Moved(t, d) /\ d.op \in {"publish", "none"}
    <3>1. CASE End(t)
      BY <3>1, EndMoves, IdleCall
    <3>2. CASE Goto(t, "learned")
      BY <2>1, <3>2, GotoMoves DEF Moved
    <3>3. QED
      BY <1>7, <3>1, <3>2 DEF WriteContext
  <2>3. MemoryCall(d)' /\ ~TornOff(c)
    BY <2>1, <2>2 DEF MemoryCall, TornOff
  <2>4. QED
    BY <1>2, <2>1, <2>2, <2>3 DEF MemoryInv, AnswersKept
<1>8. CASE RefreshIndex(t)
  <2>1. UNCHANGED <<answers, lost, given, files, index, meta, indexed, torn>>
    BY <1>8 DEF RefreshIndex
  <2>2. PICK d : Moved(t, d) /\ c = Idle /\ (d = Idle \/ (d.op = "index" /\ {"op", "at", "content"} \subseteq DOMAIN d /\ (d.at = "meta" => d.content = index)))
    <3>1. CASE Begin(t, Idle)
      BY <3>1, BeginMoves
    <3>2. CASE ~Begin(t, Idle)
      <4>1. PICK at \in IF index = files THEN {"meta"} ELSE {"ask", "answered"} :
              Begin(t, [op |-> "index", at |-> at, content |-> files,
                        settings |-> BridgeSettings, left |-> 0, posts |-> 0])
        BY <1>8, <3>2 DEF RefreshIndex
      <4>2. QED
        BY <4>1, BeginMoves
    <3>3. QED
      BY <3>1, <3>2
  <2>3. MemoryCall(d)' /\ ~TornOff(c)
    BY <2>1, <2>2, IdleCall DEF MemoryCall, TornOff
  <2>4. QED
    BY <1>2, <2>1, <2>2, <2>3 DEF MemoryInv, AnswersKept
<1>9. CASE WriteMemory(t)
  <2>1. c.op = "index" /\ UNCHANGED <<answers, lost, given>>
    BY <1>9 DEF WriteMemory
  <2>2. \A u \in Thread \ {t} : call[u].op # "index"
    BY <2>1 DEF OneBridge, Bridging
  <2>3. CASE c.at = "answered"
    <3>1. /\ index' = c.content /\ indexed' = indexed \cup {index'} /\ UNCHANGED <<meta, torn>>
          /\ Goto(t, "meta")
      BY <1>9, <2>3 DEF WriteMemory, Written
    <3>2. PICK d : Moved(t, d) /\ d = [c EXCEPT !.at = "meta"]
      BY <3>1, GotoMoves
    <3>3. {"op", "at", "content"} \subseteq DOMAIN c
      BY <2>1 DEF MemoryInv, MemoryCall
    <3>4. DOMAIN d = DOMAIN c /\ d.op = "index" /\ d.at = "meta" /\ d.content = c.content
      BY <2>1, <3>2, <3>3
    <3>5. TornOff(call'[t])
      BY <3>2, <3>4 DEF Moved, TornOff
    <3>6. ASSUME NEW u \in Thread \ {t}
          PROVE  MemoryCall(call[u])'
      BY <2>2, <3>2 DEF Moved, MemoryInv, MemoryCall
    <3>7. MemoryCall(call[t])'
      BY <3>1, <3>2, <3>3, <3>4 DEF Moved, MemoryCall
    <3>8. index' \in indexed' /\ meta' \in indexed'
      BY <3>1 DEF MemoryInv, IndexTold
    <3>9. IndexTold'
      BY <3>5, <3>8 DEF IndexTold
    <3>10. QED
      BY <2>1, <3>6, <3>7, <3>8, <3>9 DEF MemoryInv, AnswersKept
  <2>4. CASE c.at = "meta"
    <3>1. /\ meta' = c.content /\ UNCHANGED <<index, indexed>> /\ End(t)
      BY <1>9, <2>4 DEF WriteMemory, Written
    <3>2. c.content = index
      BY <2>1, <2>4 DEF MemoryInv, MemoryCall
    <3>3. \A u \in Thread : MemoryCall(call[u])'
      BY <1>1, <3>1, EndMoves, IdleCall DEF MemoryCall
    <3>4. QED
      BY <2>1, <3>1, <3>2, <3>3 DEF MemoryInv, AnswersKept, IndexTold
  <2>5. QED
    BY <1>9, <2>3, <2>4 DEF WriteMemory
<1>10. CASE MemoryFails(t)
  <2>1. /\ torn' = (torn \/ TornOff(c)) /\ Moved(t, Idle)
        /\ UNCHANGED <<answers, lost, given, index, meta, indexed>>
    BY <1>10, EndMoves DEF MemoryFails
  <2>2. \A u \in Thread : MemoryCall(call[u])'
    BY <1>1, <2>1, IdleCall DEF MemoryCall
  <2>3. IndexTold'
    BY <2>1 DEF MemoryInv, IndexTold, TornOff, Moved
  <2>4. QED
    BY <2>1, <2>2, <2>3 DEF MemoryInv, AnswersKept
<1>11. QED
  BY <1>3, <1>4, <1>5, <1>6, <1>7, <1>8, <1>9, <1>10 DEF MemoryStep

LEMMA MemoryNextInv == BaseInv /\ OneBridge /\ MemoryInv /\ [Next]_vars => MemoryInv'
<1> SUFFICES ASSUME BaseInv, OneBridge, MemoryInv, [Next]_vars
             PROVE  MemoryInv'
  OBVIOUS
<1>1. CASE \E t \in Thread : MemoryStep(t)
  BY <1>1, MemoryStepInv
<1>2. CASE UNCHANGED memoryVars /\ (Keeps(MemoryOps) \/ Asks)
  <2>1. ASSUME NEW t \in Thread
        PROVE  /\ call'[t].op = "answer" => call'[t] = call[t]
               /\ TornOff(call'[t]) \/ TornOff(call[t]) => call'[t] = call[t]
               /\ call'[t].op = "index" => call[t].op = "index" /\ DOMAIN call'[t] = DOMAIN call[t]
    <3>1. CASE Keeps(MemoryOps)
      BY <3>1 DEF Keeps, MemoryOps, TornOff
    <3>2. CASE Asks
      BY <3>2, IdleCall DEF BaseInv, CallsOK, Asks, Asking, Askers, ModelOps, TornOff
    <3>3. QED
      BY <1>2, <3>1, <3>2
  <2>2. \A t \in Thread : MemoryCall(call[t])'
    BY <1>2, <2>1 DEF MemoryInv, MemoryCall, memoryVars, TornOff
  <2>3. IndexTold'
    BY <1>2, <2>1 DEF MemoryInv, IndexTold, memoryVars, TornOff
  <2>4. QED
    BY <1>2, <2>2, <2>3 DEF MemoryInv, AnswersKept, memoryVars
<1>3. CASE Crash
  <2>1. UNCHANGED <<answers, lost, given, index, meta, indexed>>
        /\ torn' = (torn \/ \E t \in Thread : TornOff(call[t]))
    BY <1>3 DEF Crash
  <2>2. \A t \in Thread : MemoryCall(call[t])'
    BY <1>3, CrashIdle, IdleCall DEF MemoryCall
  <2>3. QED
    BY <2>1, <2>2 DEF MemoryInv, AnswersKept, IndexTold
<1>4. QED
  BY <1>1, <1>2, <1>3, Frames

LEMMA MemoryInitInv == Init => MemoryInv
<1> SUFFICES ASSUME Init PROVE MemoryInv
  OBVIOUS
<1>1. /\ answers = Unanswered /\ given = Unanswered /\ index = NoFiles /\ meta = NoFiles
      /\ indexed = {NoFiles}
  BY DEF Init, MemoryInit
<1>2. \A t \in Thread : MemoryCall(call[t])
  BY IdleCall DEF Init, ThreadsInit, MemoryCall
<1>3. Unanswered \in AnswerRow
  BY DEF Unanswered, AnswerRow
<1>4. QED
  BY <1>1, <1>2, <1>3 DEF MemoryInv, AnswersKept, IndexTold

\* An answer stays until another is given to the same question, or an overlapping
\* request writes back what it had read.
THEOREM AnswersTheorem == Spec => []AnswersKept
<1>1. BaseInv /\ [Next]_vars => BaseInv'
  BY Frames
<1>2. MemoryInv => AnswersKept
  BY DEF MemoryInv
<1>3. QED
  BY <1>1, <1>2, BaseInit, OneBridgeInit, BridgeNextInv, MemoryInitInv, MemoryNextInv, PTL DEF Spec

\* The description of the index is of one that was made, and of the one there is
\* unless a refresh is or broke off between the two files.
THEOREM IndexTheorem == Spec => []IndexTold
<1>1. BaseInv /\ [Next]_vars => BaseInv'
  BY Frames
<1>2. MemoryInv => IndexTold
  BY DEF MemoryInv
<1>3. QED
  BY <1>1, <1>2, BaseInit, OneBridgeInit, BridgeNextInv, MemoryInitInv, MemoryNextInv, PTL DEF Spec

--------------------------------------------------------------------------------
(* Requests to the web                                                     *)

Sleeps(t, h) == call[t].op = "get" /\ call[t].at = "sleep" /\ call[t].host = h

\* A request past its validation goes to a host its caller allows; one that sleeps
\* wakes no sooner than its distance after the last slot.
GetCall(c) ==
  c.op = "get" =>
    /\ {"op", "at", "host", "allowed", "spacing", "redirects", "tries", "until"} \subseteq DOMAIN c
    /\ c.at \in {"validate", "slot", "sleep", "send"} /\ c.host \in Host /\ c.spacing \in Nat
    /\ c.at # "validate" => c.host \in c.allowed
    /\ c.at = "sleep" => c.until \in Nat /\ (c.host \in DOMAIN last => c.until >= last[c.host] + c.spacing)

SlotsInv ==
  /\ DOMAIN slot = Host
  /\ \A h \in Host : slot[h] = {t \in Thread : Sleeps(t, h)}
  /\ \A h \in Host : \A t, u \in Thread : Sleeps(t, h) /\ Sleeps(u, h) => t = u

ClockInv ==
  /\ clock \in Nat /\ DOMAIN last \subseteq Host
  /\ \A h \in DOMAIN last : last[h] \in Nat

HttpInv ==
  /\ SlotsInv /\ ClockInv
  /\ \A t \in Thread : GetCall(call[t])
  /\ early = FALSE

\* Steps of one thread that take or leave no slot.
LEMMA HttpOthers ==
  ASSUME HttpInv, NEW t \in Thread, NEW c, Moved(t, c), GetCall(c)',
         ~(call[t].op = "get" /\ call[t].at = "sleep"), ~(c.op = "get" /\ c.at = "sleep"),
         UNCHANGED <<clock, last, slot, early>>
  PROVE  HttpInv'
<1>1. \A u \in Thread : \A h : Sleeps(u, h)' <=> Sleeps(u, h)
  BY DEF Moved, Sleeps
<1>2. SlotsInv'
  <2>1. \A h \in Host : {u \in Thread : Sleeps(u, h)'} = {u \in Thread : Sleeps(u, h)}
    BY <1>1
  <2>2. QED
    BY <1>1, <2>1 DEF HttpInv, SlotsInv
<1>3. \A u \in Thread : GetCall(call[u])'
  BY DEF Moved, HttpInv, GetCall
<1>4. QED
  BY <1>2, <1>3 DEF HttpInv, ClockInv

LEMMA HttpStepInv ==
  ASSUME BaseInv, HttpInv, NEW t \in Thread, HttpStep(t)
  PROVE  HttpInv'
<1> USE DEF BaseInv
<1> DEFINE c == call[t]
<1>1. CASE StartGet(t)
  <2>1. UNCHANGED httpVars
    BY <1>1 DEF StartGet
  <2>2. PICK d : Moved(t, d) /\ c = Idle
                 /\ (d = Idle \/ \E h \in Host, allowed \in Allowed, spacing \in Distances :
                       d = [op |-> "get", at |-> "validate", first |-> h, host |-> h, allowed |-> allowed,
                            spacing |-> spacing, redirects |-> 0, tries |-> 0, until |-> 0])
    BY <1>1, BeginMoves DEF StartGet
  <2>3. \A spacing \in Distances : spacing \in Nat
    BY HostsOK DEF Distances
  <2>4. GetCall(d)' /\ d.at # "sleep"
    BY <2>2, <2>3, IdleCall DEF GetCall
  <2>5. QED
    BY <2>1, <2>2, <2>4, IdleCall, HttpOthers DEF httpVars
<1>2. CASE ClearCache(t)
  <2>1. Moved(t, Idle) /\ c = Idle /\ UNCHANGED <<clock, last, slot, early>>
    BY <1>2, BeginMoves DEF ClearCache
  <2>2. GetCall(Idle)'
    BY IdleCall DEF GetCall
  <2>3. QED
    BY <2>1, <2>2, IdleCall, HttpOthers
<1>3. CASE Validate(t) \/ SendAgain(t) \/ Redirected(t) \/ Answered(t)
  <2>1. /\ c.op = "get" /\ c.at \in {"validate", "send"} /\ UNCHANGED <<clock, last, slot, early>>
    BY <1>3 DEF Validate, SendAgain, Redirected, Answered, In, httpVars
  <2>2. GetCall(c)
    BY DEF HttpInv
  <2>3. CASE End(t)
    <3>1. GetCall(Idle)'
      BY IdleCall DEF GetCall
    <3>2. QED
      BY <2>1, <2>3, <3>1, EndMoves, IdleCall, HttpOthers
  <2>4. CASE Goto(t, "slot") /\ ValidUrl(c, c.host)
    <3>1. PICK d : Moved(t, d) /\ d = [c EXCEPT !.at = "slot"]
      BY <2>4, GotoMoves
    <3>2. /\ DOMAIN d = DOMAIN c /\ d.op = "get" /\ d.at = "slot" /\ d.host = c.host
          /\ d.spacing = c.spacing /\ d.allowed = c.allowed
      BY <2>1, <2>2, <3>1 DEF GetCall
    <3>3. GetCall(d)'
      BY <2>1, <2>2, <2>4, <3>2 DEF GetCall, ValidUrl
    <3>4. QED
      BY <2>1, <3>1, <3>2, <3>3, HttpOthers
  <2>5. CASE SendAgain(t)
    <3>1. PICK n : Become(t, [c EXCEPT !.tries = n])
      BY <2>5 DEF SendAgain
    <3>2. PICK d : Moved(t, d) /\ d = [c EXCEPT !.tries = n]
      BY <3>1, BecomeMoves
    <3>3. /\ DOMAIN d = DOMAIN c /\ d.op = "get" /\ d.at = c.at /\ d.host = c.host
          /\ d.spacing = c.spacing /\ d.allowed = c.allowed
      BY <2>1, <2>2, <3>2 DEF GetCall
    <3>4. GetCall(d)'
      BY <2>1, <2>2, <3>3 DEF GetCall
    <3>5. QED
      BY <2>1, <3>2, <3>3, <3>4, HttpOthers
  <2>6. CASE Redirected(t) /\ ~End(t)
    <3>0. PICK h \in Host : \E n : Become(t, [c EXCEPT !.host = h, !.redirects = n, !.tries = 0, !.at = "validate"])
      BY <2>6 DEF Redirected
    <3>1. PICK n : Become(t, [c EXCEPT !.host = h, !.redirects = n, !.tries = 0, !.at = "validate"])
      BY <3>0
    <3>2. PICK d : Moved(t, d) /\ d = [c EXCEPT !.host = h, !.redirects = n, !.tries = 0, !.at = "validate"]
      BY <3>1, BecomeMoves
    <3>3. /\ DOMAIN d = DOMAIN c /\ d.op = "get" /\ d.at = "validate" /\ d.host = h
          /\ d.spacing = c.spacing /\ d.allowed = c.allowed
      BY <2>1, <2>2, <3>2 DEF GetCall
    <3>4. GetCall(d)'
      BY <2>1, <2>2, <3>3 DEF GetCall
    <3>5. QED
      BY <2>1, <3>2, <3>3, <3>4, HttpOthers
  <2>7. QED
    BY <1>3, <2>3, <2>4, <2>5, <2>6 DEF Validate, Answered
<1>4. CASE EnterSlot(t)
  <2>1. /\ c.op = "get" /\ c.at = "slot" /\ slot[c.host] = {}
        /\ slot' = [slot EXCEPT ![c.host] = @ \cup {t}]
        /\ UNCHANGED <<clock, last, cached, early>>
        /\ Become(t, [c EXCEPT !.at = "sleep",
                      !.until = IF c.host \in DOMAIN last THEN last[c.host] + c.spacing ELSE 0])
    BY <1>4 DEF EnterSlot, In, Free
  <2>2. GetCall(c)
    BY DEF HttpInv
  <2>3. PICK d : Moved(t, d) /\ d = [c EXCEPT !.at = "sleep",
                                     !.until = IF c.host \in DOMAIN last THEN last[c.host] + c.spacing ELSE 0]
    BY <2>1, BecomeMoves
  <2>4. /\ Moved(t, d) /\ DOMAIN d = DOMAIN c /\ d.op = "get" /\ d.at = "sleep" /\ d.host = c.host
        /\ d.spacing = c.spacing /\ d.allowed = c.allowed
        /\ d.until = IF c.host \in DOMAIN last THEN last[c.host] + c.spacing ELSE 0
    BY <2>1, <2>2, <2>3 DEF GetCall
  <2>5. c.host \in Host /\ c.spacing \in Nat
    BY <2>1, <2>2 DEF GetCall
  <2>6. d.until \in Nat /\ (c.host \in DOMAIN last => d.until >= last[c.host] + c.spacing)
    BY <2>4, <2>5 DEF HttpInv, ClockInv
  <2>7. GetCall(d)'
    BY <2>1, <2>2, <2>4, <2>6 DEF GetCall
  <2>8. \A u \in Thread : GetCall(call[u])'
    <3>1. Moved(t, d) /\ UNCHANGED last
      BY <2>1, <2>4
    <3>2. QED
      BY <2>7, <3>1 DEF Moved, HttpInv, GetCall
  <2>9. \A u \in Thread : \A h : Sleeps(u, h)' <=> Sleeps(u, h) \/ (u = t /\ h = c.host)
    <3>1. c.op = "get" /\ c.at = "slot" /\ Moved(t, d)
      BY <2>1, <2>4
    <3>2. d.op = "get" /\ d.at = "sleep" /\ d.host = c.host
      BY <2>4
    <3>3. QED
      BY <3>1, <3>2 DEF Moved, Sleeps
  <2>10. \A u \in Thread : ~Sleeps(u, c.host)
    BY <2>1, <2>5 DEF HttpInv, SlotsInv
  <2>11. DOMAIN slot' = Host /\ \A h \in Host : slot'[h] = IF h = c.host THEN {t} ELSE slot[h]
    BY <2>1, <2>5 DEF HttpInv, SlotsInv
  <2>12. \A h \in Host : slot'[h] = {u \in Thread : Sleeps(u, h)'}
    BY <2>9, <2>10, <2>11 DEF HttpInv, SlotsInv
  <2>13. SlotsInv'
    BY <2>9, <2>10, <2>11, <2>12 DEF HttpInv, SlotsInv
  <2>14. QED
    BY <2>1, <2>8, <2>13 DEF HttpInv, ClockInv
<1>5. CASE LeaveSlot(t)
  <2>1. /\ c.op = "get" /\ c.at = "sleep" /\ clock >= c.until
        /\ early' = (early \/ (c.host \in DOMAIN last /\ clock < last[c.host] + c.spacing))
        /\ last' = [g \in DOMAIN last \cup {c.host} |-> IF g = c.host THEN clock ELSE last[g]]
        /\ slot' = [slot EXCEPT ![c.host] = @ \ {t}]
        /\ Become(t, [c EXCEPT !.at = "send", !.until = 0])
        /\ UNCHANGED <<clock, cached>>
    BY <1>5 DEF LeaveSlot, In, Unlocked
  <2>2. GetCall(c)
    BY DEF HttpInv
  <2>3. PICK d : Moved(t, d) /\ d = [c EXCEPT !.at = "send", !.until = 0]
    BY <2>1, BecomeMoves
  <2>4. /\ Moved(t, d) /\ DOMAIN d = DOMAIN c /\ d.op = "get" /\ d.at = "send" /\ d.host = c.host
        /\ d.spacing = c.spacing /\ d.allowed = c.allowed
    BY <2>1, <2>2, <2>3 DEF GetCall
  <2>5. c.host \in Host /\ c.spacing \in Nat /\ c.until \in Nat
        /\ (c.host \in DOMAIN last => c.until >= last[c.host] + c.spacing)
    BY <2>1, <2>2 DEF GetCall
  <2>6. early' = FALSE
    <3>1. c.host \in DOMAIN last => ~(clock < last[c.host] + c.spacing)
      <4>1. SUFFICES ASSUME c.host \in DOMAIN last
                     PROVE  ~(clock < last[c.host] + c.spacing)
        OBVIOUS
      <4>2. last[c.host] \in Nat /\ clock \in Nat
        BY <4>1 DEF HttpInv, ClockInv
      <4>3. QED
        BY <2>1, <2>5, <4>1, <4>2
    <3>2. QED
      BY <2>1, <3>1 DEF HttpInv
  <2>7. GetCall(d)'
    BY <2>1, <2>2, <2>4 DEF GetCall
  <2>8. Sleeps(t, c.host)
    BY <2>1 DEF Sleeps
  <2>9. \A u \in Thread : \A h : Sleeps(u, h)' <=> Sleeps(u, h) /\ u # t
    <3>1. Moved(t, d) /\ d.at = "send"
      BY <2>4
    <3>2. QED
      BY <3>1 DEF Moved, Sleeps
  <2>10. /\ \A u \in Thread \ {t} : ~Sleeps(u, c.host)
         /\ \A h \in Host \ {c.host} : ~Sleeps(t, h)
    BY <2>5, <2>8 DEF HttpInv, SlotsInv, Sleeps
  <2>11. ASSUME NEW u \in Thread
         PROVE  GetCall(call[u])'
    <3>1. CASE u = t
      BY <2>3, <2>7, <3>1 DEF Moved, GetCall
    <3>2. CASE u # t
      <4>1. call'[u] = call[u] /\ GetCall(call[u])
        BY <2>3, <3>2 DEF Moved, HttpInv
      <4>2. CASE call[u].op = "get" /\ call[u].at = "sleep"
        <5>1. call[u].host # c.host
          BY <2>10, <3>2, <4>2 DEF Sleeps
        <5>2. /\ call[u].host \in DOMAIN last' => call[u].host \in DOMAIN last
              /\ call[u].host \in DOMAIN last => last'[call[u].host] = last[call[u].host]
          BY <2>1, <5>1
        <5>3. QED
          BY <4>1, <4>2, <5>2 DEF GetCall
      <4>3. CASE ~(call[u].op = "get" /\ call[u].at = "sleep")
        BY <4>1, <4>3 DEF GetCall
      <4>4. QED
        BY <4>2, <4>3
    <3>3. QED
      BY <3>1, <3>2
  <2>12. DOMAIN slot' = Host /\ \A h \in Host : slot'[h] = IF h = c.host THEN slot[h] \ {t} ELSE slot[h]
    BY <2>1, <2>5 DEF HttpInv, SlotsInv
  <2>13. \A h \in Host : slot'[h] = {u \in Thread : Sleeps(u, h)'}
    BY <2>9, <2>10, <2>12 DEF HttpInv, SlotsInv
  <2>14. SlotsInv'
    BY <2>9, <2>12, <2>13 DEF HttpInv, SlotsInv
  <2>15. ClockInv'
    BY <2>1, <2>5 DEF HttpInv, ClockInv
  <2>16. QED
    BY <2>6, <2>11, <2>14, <2>15 DEF HttpInv
<1>6. QED
  BY <1>1, <1>2, <1>3, <1>4, <1>5 DEF HttpStep

LEMMA HttpNextInv == BaseInv /\ HttpInv /\ [Next]_vars => HttpInv'
<1> SUFFICES ASSUME BaseInv, HttpInv, [Next]_vars
             PROVE  HttpInv'
  OBVIOUS
<1>1. CASE \E t \in Thread : HttpStep(t)
  BY <1>1, HttpStepInv
<1>2. CASE Tick
  <2>1. clock' = clock + 1 /\ UNCHANGED <<call, last, slot, early>>
    BY <1>2 DEF Tick, threads
  <2>2. SlotsInv' /\ ClockInv'
    BY <2>1 DEF HttpInv, SlotsInv, ClockInv, Sleeps
  <2>3. QED
    BY <2>1, <2>2 DEF HttpInv, GetCall
<1>3. CASE UNCHANGED httpVars /\ Keeps(GetOps)
  <2>1. \A t \in Thread : \A h : Sleeps(t, h)' <=> Sleeps(t, h)
    BY <1>3 DEF Keeps, GetOps, Sleeps
  <2>2. \A h \in Host : {t \in Thread : Sleeps(t, h)'} = {t \in Thread : Sleeps(t, h)}
    BY <2>1
  <2>3. SlotsInv'
    BY <1>3, <2>1, <2>2 DEF HttpInv, SlotsInv, httpVars
  <2>4. \A t \in Thread : GetCall(call[t])'
    BY <1>3 DEF Keeps, GetOps, HttpInv, GetCall, httpVars
  <2>5. QED
    BY <1>3, <2>3, <2>4 DEF HttpInv, ClockInv, httpVars
<1>4. CASE \E h \in Host : Renumber(h)
  <2>1. UNCHANGED <<clock, call, last, slot, early>>
    BY <1>4 DEF Renumber, threads
  <2>2. SlotsInv' /\ ClockInv'
    BY <2>1 DEF HttpInv, SlotsInv, ClockInv, Sleeps
  <2>3. QED
    BY <2>1, <2>2 DEF HttpInv, GetCall
<1>5. CASE Crash
  <2>1. /\ slot' = [h \in Host |-> {}] /\ last' = [h \in {} |-> 0]
        /\ UNCHANGED <<clock, early>>
    BY <1>5 DEF Crash
  <2>2. \A t \in Thread : GetCall(call[t])' /\ \A h : ~Sleeps(t, h)'
    BY <1>5, CrashIdle, IdleCall DEF GetCall, Sleeps
  <2>3. SlotsInv'
    BY <2>1, <2>2 DEF SlotsInv
  <2>4. ClockInv'
    BY <2>1 DEF HttpInv, ClockInv
  <2>5. QED
    BY <2>1, <2>2, <2>3, <2>4 DEF HttpInv
<1>6. QED
  BY <1>1, <1>2, <1>3, <1>4, <1>5, Frames

LEMMA HttpInitInv == Init => HttpInv
<1> SUFFICES ASSUME Init PROVE HttpInv
  OBVIOUS
<1>1. /\ clock = 0 /\ last = [h \in {} |-> 0] /\ slot = [h \in Host |-> {}] /\ early = FALSE
  BY DEF Init, HttpInit
<1>2. \A t \in Thread : GetCall(call[t]) /\ \A h : ~Sleeps(t, h)
  BY IdleCall DEF Init, ThreadsInit, GetCall, Sleeps
<1>3. QED
  BY <1>1, <1>2 DEF HttpInv, SlotsInv, ClockInv

\* The host of a request past its validation is public unless it changed since.
FreshInv == \A t \in Thread : Trusting(t) => call[t].host \in public \/ t \in moved

\* Of the steps of a call, only a validation that finds its host public makes it trust
\* one; a request that ends or is redirected forgets what moved.
LEMMA FreshStep ==
  ASSUME BaseInv, HttpInv, FreshInv, NEW t \in Thread, HttpStep(t)
  PROVE  FreshInv'
<1> USE DEF BaseInv
<1> DEFINE c == call[t]
<1> SUFFICES ASSUME NEW u \in Thread, Trusting(u)'
             PROVE  call'[u].host \in public' \/ u \in moved'
  BY DEF FreshInv
<1>1. public' = public /\ (moved' = moved \/ moved' = moved \ {t})
  BY DEF HttpStep, StartGet, ClearCache, Validate, EnterSlot, LeaveSlot, SendAgain, Redirected,
         Answered, httpVars, addresses
<1>2. PICK d : Moved(t, d)
  <2>1. CASE StartGet(t) \/ ClearCache(t)
    BY <2>1, BeginMoves DEF StartGet, ClearCache
  <2>2. CASE Validate(t) \/ EnterSlot(t) \/ LeaveSlot(t) \/ SendAgain(t) \/ Answered(t)
    <3>1. \E e : Become(t, e)
      BY <2>2 DEF Validate, EnterSlot, LeaveSlot, SendAgain, Answered, Goto, End
    <3>2. QED
      BY <3>1, BecomeMoves
  <2>3. CASE Redirected(t)
    <3>1. \E e : Become(t, e)
      BY <2>3 DEF Redirected, End
    <3>2. QED
      BY <3>1, BecomeMoves
  <2>4. QED
    BY <2>1, <2>2, <2>3 DEF HttpStep
<1>3. CASE u # t
  <2>1. call'[u] = call[u]
    BY <1>2, <1>3 DEF Moved
  <2>2. Trusting(u)
    BY <2>1 DEF Trusting
  <2>3. QED
    BY <1>1, <1>3, <2>1, <2>2 DEF FreshInv
<1>4. CASE u = t
  <2>1. CASE Validate(t) /\ ~End(t)
    <3>1. In(t, "get", "validate") /\ Goto(t, "slot") /\ c.host \in public
      BY <2>1 DEF Validate, ValidUrl
    <3>2. PICK e : Moved(t, e) /\ e = [c EXCEPT !.at = "slot"]
      BY <3>1, GotoMoves
    <3>3. e.host = c.host
      BY <3>1, <3>2 DEF HttpInv, GetCall, In
    <3>4. QED
      BY <1>1, <1>4, <3>1, <3>2, <3>3 DEF Moved
  <2>2. CASE EnterSlot(t) \/ LeaveSlot(t) \/ SendAgain(t)
    <3>1. Trusting(t) /\ moved' = moved
      BY <2>2 DEF EnterSlot, LeaveSlot, SendAgain, In, Trusting, httpVars, addresses
    <3>2. GetCall(c) /\ c.op = "get"
      BY <3>1 DEF HttpInv, Trusting
    <3>3. \/ \E n : Become(t, [c EXCEPT !.at = "sleep", !.until = n])
          \/ Become(t, [c EXCEPT !.at = "send", !.until = 0])
          \/ \E n : Become(t, [c EXCEPT !.tries = n])
      BY <2>2 DEF EnterSlot, LeaveSlot, SendAgain
    <3>4. \E e : Moved(t, e) /\ e.host = c.host
      <4>1. CASE \E n : Become(t, [c EXCEPT !.at = "sleep", !.until = n])
        <5>1. PICK n, e : Moved(t, e) /\ e = [c EXCEPT !.at = "sleep", !.until = n]
          BY <4>1, BecomeMoves
        <5>2. e.host = c.host
          BY <3>2, <5>1 DEF GetCall
        <5>3. QED
          BY <5>1, <5>2
      <4>2. CASE Become(t, [c EXCEPT !.at = "send", !.until = 0])
        <5>1. PICK e : Moved(t, e) /\ e = [c EXCEPT !.at = "send", !.until = 0]
          BY <4>2, BecomeMoves
        <5>2. e.host = c.host
          BY <3>2, <5>1 DEF GetCall
        <5>3. QED
          BY <5>1, <5>2
      <4>3. CASE \E n : Become(t, [c EXCEPT !.tries = n])
        <5>1. PICK n, e : Moved(t, e) /\ e = [c EXCEPT !.tries = n]
          BY <4>3, BecomeMoves
        <5>2. e.host = c.host
          BY <3>2, <5>1 DEF GetCall
        <5>3. QED
          BY <5>1, <5>2
      <4>4. QED
        BY <3>3, <4>1, <4>2, <4>3
    <3>5. QED
      BY <1>1, <1>4, <3>1, <3>4 DEF Moved, FreshInv
  <2>3. CASE End(t) \/ ClearCache(t)
    <3>1. Moved(t, Idle)
      BY <2>3, EndMoves, BeginMoves DEF ClearCache
    <3>2. QED
      BY <1>4, <3>1, IdleCall DEF Moved, Trusting
  <2>4. CASE StartGet(t)
    <3>1. PICK e : Moved(t, e) /\ (e = Idle \/ e.at = "validate")
      BY <2>4, BeginMoves DEF StartGet
    <3>2. QED
      BY <1>4, <3>1, IdleCall DEF Moved, Trusting
  <2>5. CASE Redirected(t) /\ ~End(t)
    <3>1. PICK h, n : Become(t, [c EXCEPT !.host = h, !.redirects = n, !.tries = 0, !.at = "validate"])
      BY <2>5 DEF Redirected
    <3>2. PICK e : Moved(t, e) /\ e = [c EXCEPT !.host = h, !.redirects = n, !.tries = 0, !.at = "validate"]
      BY <3>1, BecomeMoves
    <3>3. GetCall(c) /\ c.op = "get"
      BY <2>5 DEF HttpInv, Redirected, In
    <3>4. e.at = "validate"
      BY <3>2, <3>3 DEF GetCall
    <3>5. QED
      BY <1>4, <3>2, <3>4 DEF Moved, Trusting
  <2>6. QED
    BY <2>1, <2>2, <2>3, <2>4, <2>5 DEF HttpStep, Validate, Answered
<1>5. QED
  BY <1>3, <1>4

LEMMA FreshNext == BaseInv /\ HttpInv /\ FreshInv /\ [Next]_vars => FreshInv'
<1> SUFFICES ASSUME BaseInv, HttpInv, FreshInv, [Next]_vars
             PROVE  FreshInv'
  OBVIOUS
<1>1. CASE \E t \in Thread : HttpStep(t)
  BY <1>1, FreshStep
<1>2. CASE Tick \/ (UNCHANGED httpVars /\ Keeps(GetOps))
  BY <1>2 DEF Tick, threads, httpVars, addresses, Keeps, GetOps, FreshInv, Trusting
<1>3. CASE \E h \in Host : Renumber(h)
  <2>1. PICK h \in Host : Renumber(h)
    BY <1>3
  <2>2. call' = call /\ public' \in {public \ {h}, public \cup {h}}
        /\ moved' = moved \cup {t \in Thread : Trusting(t) /\ call[t].host = h}
    BY <2>1 DEF Renumber, threads
  <2>3. SUFFICES ASSUME NEW t \in Thread, Trusting(t)
                 PROVE  call[t].host \in public' \/ t \in moved'
    BY <2>2 DEF FreshInv, Trusting
  <2>4. CASE call[t].host = h
    BY <2>2, <2>3, <2>4
  <2>5. CASE call[t].host # h
    BY <2>2, <2>3, <2>5 DEF FreshInv
  <2>6. QED
    BY <2>4, <2>5
<1>4. CASE Crash
  BY <1>4, CrashIdle, IdleCall DEF FreshInv, Trusting
<1>5. QED
  BY <1>1, <1>2, <1>3, <1>4, Frames

\* Slots of one host are never taken too soon after the last one; after any number of
\* redirects and retries requests go to hosts their callers allow, and to public ones
\* unless their addresses changed after the last validation.
THEOREM PolicyTheorem == Spec => []PolicyKept
<1>1. Init => HttpInv /\ FreshInv
  BY HttpInitInv, IdleCall DEF Init, ThreadsInit, FreshInv, Trusting
<1>2. BaseInv /\ [Next]_vars => BaseInv'
  BY Frames
<1>3. HttpInv /\ FreshInv => PolicyKept
  BY DEF HttpInv, PolicyKept, GetCall, In, FreshInv, Trusting
<1>4. QED
  BY <1>1, <1>2, <1>3, BaseInit, HttpNextInv, FreshNext, PTL DEF Spec

--------------------------------------------------------------------------------
(* Resume versions                                                         *)

\* What a call has seen of a row it will update, and what is still so of that row:
\* texts never change and approvals are not taken back.
ResumeCall(c) ==
  c.op \in ResumeOps =>
    /\ c.version \in made /\ c.row \in Row
    /\ c.op = "approve" => (c.version \in DOMAIN resumes => resumes[c.version].valid)
    /\ c.op = "activate" => (c.version \in DOMAIN resumes =>
                               resumes[c.version].valid /\ resumes[c.version].approved)
    /\ c.op = "delete" => ~c.row.active

RowsInv ==
  /\ DOMAIN resumes \subseteq made /\ made \subseteq Version
  /\ \A v \in DOMAIN resumes : resumes[v] \in Row
  /\ \A v \in DOMAIN resumes : (resumes[v].approved => resumes[v].valid)
                               /\ (resumes[v].active => resumes[v].approved)
  /\ \A v, w \in Active : v = w

ResumeInv ==
  /\ RowsInv
  /\ activated \in BOOLEAN /\ crossed \in BOOLEAN
  /\ activated /\ ~crossed => Active # {}
  /\ \A t \in Thread : ResumeCall(call[t])

LEMMA OneActiveHolds == ResumeInv => OneActive
<1> SUFFICES ASSUME ResumeInv PROVE OneActive
  OBVIOUS
<1>1. Cardinality(Active) <= 1
  <2>1. CASE Active = {}
    BY <2>1, FS_EmptySet
  <2>2. CASE Active # {}
    <3>1. PICK v : v \in Active
      BY <2>2
    <3>2. Active = {v}
      BY <3>1 DEF ResumeInv, RowsInv
    <3>3. Cardinality(Active) = 1
      BY <3>2, FS_Singleton
    <3>4. QED
      BY <3>3
  <2>3. QED
    BY <2>1, <2>2
<1>2. \A v \in Active : resumes[v].approved /\ resumes[v].valid
  BY DEF ResumeInv, RowsInv, Active
<1>3. QED
  BY <1>1, <1>2 DEF ResumeInv, OneActive

\* A new version has no approval and no calls.
LEMMA InsertInv ==
  ASSUME ResumeInv, NEW t \in Thread, Moved(t, Idle), NEW markdown \in Text, Insert(markdown)
  PROVE  ResumeInv'
<1>1. PICK v \in Version \ made :
        /\ made' = made \cup {v}
        /\ resumes' = With(resumes, v, [valid |-> Valid(markdown), approved |-> FALSE, active |-> FALSE])
        /\ UNCHANGED <<activated, crossed>>
  BY DEF Insert
<1>2. v \notin DOMAIN resumes
  BY <1>1 DEF ResumeInv, RowsInv
<1>3. /\ DOMAIN resumes' = DOMAIN resumes \cup {v}
      /\ resumes'[v] = [valid |-> Valid(markdown), approved |-> FALSE, active |-> FALSE]
      /\ \A w \in DOMAIN resumes : resumes'[w] = resumes[w]
  BY <1>1, <1>2 DEF With
<1>4. resumes'[v] \in Row /\ ~resumes'[v].active /\ ~resumes'[v].approved
  BY <1>3 DEF Row, Valid
<1>5. Active' = Active
  BY <1>2, <1>3, <1>4 DEF Active
<1>6. RowsInv'
  BY <1>1, <1>3, <1>4, <1>5 DEF ResumeInv, RowsInv
<1>7. ASSUME NEW u \in Thread
      PROVE  ResumeCall(call[u])'
  <2>1. CASE u = t
    BY <2>1, IdleCall DEF Moved, ResumeCall, ResumeOps
  <2>2. CASE u # t
    <3>1. call'[u] = call[u] /\ ResumeCall(call[u])
      BY <2>2 DEF Moved, ResumeInv
    <3>2. CASE call[u].op \in ResumeOps
      <4>1. call[u].version \in made /\ call[u].version # v
        BY <1>1, <3>1, <3>2 DEF ResumeCall
      <4>2. QED
        BY <1>1, <1>3, <3>1, <3>2, <4>1 DEF ResumeCall
    <3>3. QED
      BY <3>1, <3>2 DEF ResumeCall
  <2>3. QED
    BY <2>1, <2>2
<1>8. QED
  BY <1>1, <1>5, <1>6, <1>7 DEF ResumeInv

\* Commits keep texts and approvals of the rows that stay.
LEMMA RowsStay ==
  ASSUME ResumeInv, NEW t \in Thread, Moved(t, Idle), made' = made,
         DOMAIN resumes' \subseteq DOMAIN resumes,
         \A v \in DOMAIN resumes' : /\ resumes'[v].valid = resumes[v].valid
                                    /\ resumes[v].approved => resumes'[v].approved
  PROVE  \A u \in Thread : ResumeCall(call[u])'
<1> SUFFICES ASSUME NEW u \in Thread
             PROVE  ResumeCall(call[u])'
  OBVIOUS
<1>1. CASE u = t
  BY <1>1, IdleCall DEF Moved, ResumeCall, ResumeOps
<1>2. CASE u # t
  <2>1. call'[u] = call[u] /\ ResumeCall(call[u])
    BY <1>2 DEF Moved, ResumeInv
  <2>2. QED
    BY <2>1 DEF ResumeCall
<1>3. QED
  BY <1>1, <1>2

LEMMA CommitInv ==
  ASSUME BaseInv, ResumeInv, NEW t \in Thread, CommitResume(t)
  PROVE  ResumeInv'
<1> DEFINE c == call[t]
<1>1. c.op \in ResumeOps /\ made' = made /\ Moved(t, Idle)
  BY EndMoves DEF CommitResume, ResumeOps, BaseInv
<1>2. ResumeCall(c)
  BY DEF ResumeInv
<1>3. CASE UNCHANGED <<resumes, activated, crossed>>
  <2>1. \A u \in Thread : ResumeCall(call[u])'
    BY <1>1, <1>3, RowsStay
  <2>2. QED
    BY <1>1, <1>3, <2>1 DEF ResumeInv, RowsInv, Active
<1>4. CASE /\ Updated(c) \subseteq DOMAIN resumes
           /\ resumes' = Applied(c)
           /\ activated' = (activated \/ (c.op = "activate" /\ c.version \in DOMAIN resumes))
           /\ crossed' = ((crossed /\ Active = {}) \/ Crossing(c))
  <2>1. activated' \in BOOLEAN /\ crossed' \in BOOLEAN
    BY <1>4 DEF ResumeInv
  <2>2. CASE c.op = "approve"
    <3>1. resumes' = [v \in DOMAIN resumes |->
                        IF v = c.version THEN [resumes[v] EXCEPT !.approved = TRUE] ELSE resumes[v]]
      BY <1>4, <2>2 DEF Applied
    <3>2. ASSUME NEW v \in DOMAIN resumes
          PROVE  /\ resumes'[v] \in Row /\ resumes'[v].valid = resumes[v].valid
                 /\ resumes'[v].active = resumes[v].active
                 /\ resumes[v].approved => resumes'[v].approved
                 /\ resumes'[v].approved => resumes[v].approved \/ v = c.version
      <4>1. resumes[v] \in Row
        BY DEF ResumeInv, RowsInv
      <4>2. QED
        BY <3>1, <4>1 DEF Row
    <3>3. DOMAIN resumes' = DOMAIN resumes
      BY <3>1
    <3> HIDE <3>1
    <3>4. Active' = Active
      BY <3>2, <3>3 DEF Active
    <3>5. c.version \in DOMAIN resumes => resumes[c.version].valid
      BY <1>1, <1>2, <2>2 DEF ResumeCall
    <3>6. RowsInv'
      <4>1. \A v \in DOMAIN resumes : resumes'[v].approved => resumes'[v].valid
        BY <3>2, <3>5 DEF ResumeInv, RowsInv
      <4>2. \A v \in DOMAIN resumes : resumes'[v].active => resumes'[v].approved
        BY <3>2 DEF ResumeInv, RowsInv
      <4>3. QED
        BY <1>1, <3>2, <3>3, <3>4, <4>1, <4>2 DEF ResumeInv, RowsInv
    <3>7. \A u \in Thread : ResumeCall(call[u])'
      BY <1>1, <3>2, <3>3, RowsStay
    <3>8. activated' /\ ~crossed' => Active' # {}
      BY <1>4, <2>2, <3>4 DEF ResumeInv
    <3>9. QED
      BY <2>1, <3>6, <3>7, <3>8 DEF ResumeInv
  <2>3. CASE c.op = "activate"
    <3>1. resumes' = [v \in DOMAIN resumes |->
                        IF v # c.version THEN [resumes[v] EXCEPT !.active = FALSE]
                        ELSE IF c.row.active THEN resumes[v] ELSE [resumes[v] EXCEPT !.active = TRUE]]
      BY <1>4, <2>3 DEF Applied, Activated
    <3>2. ASSUME NEW v \in DOMAIN resumes
          PROVE  /\ resumes'[v] \in Row /\ resumes'[v].valid = resumes[v].valid
                 /\ resumes'[v].approved = resumes[v].approved
                 /\ v # c.version => ~resumes'[v].active
                 /\ v = c.version => (resumes'[v].active <=> ~c.row.active \/ resumes[v].active)
      <4>1. resumes[v] \in Row
        BY DEF ResumeInv, RowsInv
      <4>2. CASE v # c.version
        BY <3>1, <4>1, <4>2 DEF Row
      <4>3. CASE v = c.version /\ c.row.active
        BY <3>1, <4>1, <4>3
      <4>4. CASE v = c.version /\ ~c.row.active
        BY <3>1, <4>1, <4>4 DEF Row
      <4>5. QED
        BY <4>2, <4>3, <4>4
    <3>3. DOMAIN resumes' = DOMAIN resumes
      BY <3>1
    <3> HIDE <3>1
    <3>4. Active' = {v \in DOMAIN resumes : v = c.version /\ (~c.row.active \/ resumes[v].active)}
      BY <3>2, <3>3 DEF Active
    <3>5. c.version \in DOMAIN resumes => resumes[c.version].valid /\ resumes[c.version].approved
      BY <1>1, <1>2, <2>3 DEF ResumeCall
    <3>6. RowsInv'
      <4>1. \A v \in DOMAIN resumes : resumes'[v].approved => resumes'[v].valid
        BY <3>2 DEF ResumeInv, RowsInv
      <4>2. \A v \in DOMAIN resumes : resumes'[v].active => resumes'[v].approved
        BY <3>2, <3>5
      <4>3. \A v, w \in Active' : v = w
        BY <3>4
      <4>4. QED
        BY <1>1, <3>2, <3>3, <4>1, <4>2, <4>3 DEF ResumeInv, RowsInv
    <3>7. \A u \in Thread : ResumeCall(call[u])'
      BY <1>1, <3>2, <3>3, RowsStay
    <3>8. ~crossed' => Active' # {}
      <4>1. SUFFICES ASSUME ~crossed' PROVE c.version \in Active'
        OBVIOUS
      <4>2. c.row.active => c.version \in Active
        BY <1>4, <2>3, <4>1 DEF Crossing
      <4>3. CASE c.row.active
        BY <3>4, <4>2, <4>3 DEF Active
      <4>4. CASE ~c.row.active
        <5>1. c.version \in DOMAIN resumes
          BY <1>4, <2>3, <4>4 DEF Updated
        <5>2. QED
          BY <3>4, <4>4, <5>1
      <4>5. QED
        BY <4>3, <4>4
    <3>9. QED
      BY <2>1, <3>6, <3>7, <3>8 DEF ResumeInv
  <2>4. CASE c.op = "delete"
    <3>1. resumes' = [w \in DOMAIN resumes \ {c.version} |-> resumes[w]]
      BY <1>4, <2>4 DEF Applied, Without
    <3>2. /\ DOMAIN resumes' = DOMAIN resumes \ {c.version}
          /\ \A v \in DOMAIN resumes' : resumes'[v] = resumes[v]
      BY <3>1
    <3>3. Active' = Active \ {c.version}
      BY <3>2 DEF Active
    <3>4. RowsInv'
      BY <1>1, <3>2, <3>3 DEF ResumeInv, RowsInv
    <3>5. \A u \in Thread : ResumeCall(call[u])'
      BY <1>1, <3>2, RowsStay
    <3>6. ~crossed' => c.version \notin Active
      BY <1>1, <1>2, <1>4, <2>4 DEF Crossing, ResumeCall
    <3>7. activated' /\ ~crossed' => Active' # {}
      BY <1>4, <2>4, <3>3, <3>6 DEF ResumeInv
    <3>8. QED
      BY <2>1, <3>4, <3>5, <3>7 DEF ResumeInv
  <2>5. QED
    BY <1>1, <2>2, <2>3, <2>4 DEF ResumeOps
<1>5. QED
  BY <1>3, <1>4 DEF CommitResume

LEMMA ReadResumeInv ==
  ASSUME BaseInv, ResumeInv, NEW t \in Thread, ReadResume(t)
  PROVE  ResumeInv'
<1>1. PICK op \in ResumeOps, v \in DOMAIN resumes :
        /\ May(op, resumes[v])
        /\ Begin(t, [op |-> op, at |-> "commit", version |-> v, row |-> resumes[v],
                     current |-> IF op = "activate" THEN Active \ {v} ELSE {}])
  BY DEF ReadResume, ResumeOps
<1>2. UNCHANGED resumeVars
  BY DEF ReadResume
<1>3. PICK d : /\ Moved(t, d) /\ d.op = op /\ d.version = v /\ d.row = resumes[v]
  BY <1>1, BeginMoves DEF BaseInv
<1>4. /\ v \in made /\ resumes[v] \in Row
      /\ resumes[v].approved => resumes[v].valid
  BY DEF ResumeInv, RowsInv
<1>5. ResumeCall(d)
  BY <1>1, <1>3, <1>4 DEF ResumeCall, May
<1>6. \A u \in Thread : ResumeCall(call[u])'
  BY <1>2, <1>3, <1>5 DEF Moved, ResumeInv, ResumeCall, resumeVars
<1>7. QED
  BY <1>2, <1>6 DEF ResumeInv, RowsInv, Active, resumeVars

LEMMA ResumeNextInv == BaseInv /\ ResumeInv /\ [Next]_vars => ResumeInv'
<1> SUFFICES ASSUME BaseInv, ResumeInv, [Next]_vars
             PROVE  ResumeInv'
  OBVIOUS
<1>1. ASSUME NEW t \in Thread, ResumeStep(t)
      PROVE  ResumeInv'
  <2>1. CASE ImportResume(t)
    BY <2>1, BeginMoves, InsertInv DEF ImportResume, BaseInv
  <2>2. CASE EditResume(t)
    BY <2>2, BeginMoves, InsertInv DEF EditResume, BaseInv, Text
  <2>3. QED
    BY <1>1, <2>1, <2>2, ReadResumeInv, CommitInv DEF ResumeStep
<1>2. CASE UNCHANGED resumeVars /\ (Keeps(ResumeOps) \/ Crash)
  <2>1. \A t \in Thread : call'[t].op \in ResumeOps => call'[t] = call[t]
    BY <1>2, CrashIdle, IdleCall DEF Keeps, ResumeOps
  <2>2. \A t \in Thread : ResumeCall(call[t])'
    BY <1>2, <2>1 DEF ResumeInv, ResumeCall, resumeVars
  <2>3. QED
    BY <1>2, <2>2 DEF ResumeInv, RowsInv, Active, resumeVars
<1>3. QED
  BY <1>1, <1>2, Frames

LEMMA ResumeInitInv == Init => ResumeInv
<1> SUFFICES ASSUME Init PROVE ResumeInv
  OBVIOUS
<1>1. PICK old \in SUBSET Version : \E active \in {{}} \cup {{v} : v \in old} :
        /\ resumes = [v \in old |-> [valid |-> TRUE, approved |-> TRUE, active |-> v \in active]]
        /\ activated = (active # {})
  BY DEF Init, ResumesInit
<1> PICK active \in {{}} \cup {{v} : v \in old} :
        /\ resumes = [v \in old |-> [valid |-> TRUE, approved |-> TRUE, active |-> v \in active]]
        /\ activated = (active # {})
  BY <1>1
<1>2. made = DOMAIN resumes /\ crossed = FALSE
  BY DEF Init, ResumesInit
<1>3. DOMAIN resumes = old /\ \A v \in old :
        resumes[v] = [valid |-> TRUE, approved |-> TRUE, active |-> v \in active]
  BY <1>1
<1>4. Active = active
  BY <1>1, <1>3 DEF Active
<1>5. RowsInv
  BY <1>1, <1>2, <1>3, <1>4 DEF RowsInv, Row
<1>6. \A t \in Thread : ResumeCall(call[t])
  BY IdleCall DEF Init, ThreadsInit, ResumeCall, ResumeOps
<1>7. QED
  BY <1>1, <1>2, <1>4, <1>5, <1>6 DEF ResumeInv

\* There is never more than one active resume and it has a text and its approval;
\* there is one once one was activated, unless two requests have crossed since.
THEOREM ActiveTheorem == Spec => []OneActive
<1>1. Init => ResumeInv
  BY ResumeInitInv
<1>2. BaseInv /\ [Next]_vars => BaseInv'
  BY Frames
<1>3. QED
  BY <1>1, <1>2, BaseInit, ResumeNextInv, OneActiveHolds, PTL DEF Spec

================================================================================

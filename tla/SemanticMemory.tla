----------------------------- MODULE SemanticMemory -----------------------------
(***************************************************************************)
(* What the research agent is told of the user (learning.py and the rest   *)
(* of openclaw_bridge.py): answers and feedback in the database, the       *)
(* context files the bridge writes from them, and the index of embeddings  *)
(* over those files with its description.  Of the context files two are    *)
(* kept, in the order in which they are written; of the jobs one.          *)
(***************************************************************************)
EXTENDS ResearchInbox

CONSTANTS
  Question, Answer,   \* of active learning
  NoAnswer,
  BridgeSettings      \* settings of the model the bridge uses

VARIABLES
  answers,      \* the row of answers, all NoAnswer before it exists
  lost,         \* history: questions whose answer an overlapping request took back
  given,        \* history: the last answer committed to each question
  disposition,  \* what the user thinks of the job
  files,        \* context files
  published,    \* publish_context has come to its end in this cycle of the bridge
  index,        \* the files semantic_index.json was made from
  meta,         \* the files semantic_index.meta.json describes
  indexed,      \* history: whatever the index was made from
  torn          \* history: an index was written, its description was not

memoryVars == <<answers, lost, given, disposition, files, published, index, meta, indexed, torn>>

Disposition == {"discovered", "saved", "discarded"}
Unanswered == [q \in Question |-> NoAnswer]
NoFiles == [feedback |-> "none", learned |-> [signal |-> "none", answers |-> Unanswered]]

MemoryInit ==
  /\ answers = Unanswered /\ lost = {} /\ given = Unanswered /\ disposition = "discovered"
  /\ files = NoFiles /\ published = FALSE /\ index = NoFiles /\ meta = NoFiles /\ indexed = {NoFiles} /\ torn = FALSE

--------------------------------------------------------------------------------
(* The user                                                                *)

\* answer_question reads all answers of the row.
ReadAnswers(t) ==
  /\ \E q \in Question, a \in Answer :
       Begin(t, [op |-> "answer", at |-> "save", question |-> q, answer |-> a, read |-> answers])
  /\ UNCHANGED memoryVars

\* Mutant: the row is replaced by the new answer alone.
AnswerAlone(c) == [Unanswered EXCEPT ![c.question] = c.answer]

\* They are written back with the new one.
Merge(c) == [c.read EXCEPT ![c.question] = c.answer]

\* Two requests that both found no row both insert it: the second one fails.
SaveAnswers(t) ==
  /\ In(t, "answer", "save")
  /\ LET c == call[t]
     IN IF c.read = Unanswered /\ answers # Unanswered THEN UNCHANGED <<answers, lost, given>>
        ELSE /\ answers' = Merge(c)
             /\ given' = [given EXCEPT ![c.question] = c.answer]
             /\ lost' = (lost \cup {q \in Question : c.read[q] # answers[q]}) \ {c.question}
  /\ End(t)
  /\ UNCHANGED <<disposition, files, published, index, meta, indexed, torn>>

\* update_disposition decides on nothing it reads.
Dispose(t) ==
  /\ disposition' \in Disposition
  /\ Begin(t, Idle)
  /\ UNCHANGED <<answers, lost, given, files, published, index, meta, indexed, torn>>

--------------------------------------------------------------------------------
(* The bridge                                                              *)

\* summary: what the feedback on jobs says in favour or against, beside the
\* answers.  (Constraints, preferences and decisions on portals are left out.)
Learned == [signal |-> disposition, answers |-> answers]

\* A cycle of the bridge begins with publish_context.  Its queries are taken as one.
Publish(t) ==
  /\ BridgeFree
  /\ Begin(t, [op |-> "publish", at |-> "feedback",
               content |-> [feedback |-> disposition, learned |-> Learned]])
  /\ published' = FALSE
  /\ UNCHANGED <<answers, lost, given, disposition, files, index, meta, indexed, torn>>

WriteContext(t) ==
  /\ call[t].op = "publish"
  /\ \/ /\ call[t].at = "feedback" /\ Goto(t, "learned")
        /\ files' = [files EXCEPT !.feedback = call[t].content.feedback]
        /\ UNCHANGED published
     \/ /\ call[t].at = "learned" /\ End(t)
        /\ files' = [files EXCEPT !.learned = call[t].content.learned]
        /\ published' = TRUE
  /\ UNCHANGED <<answers, lost, given, disposition, index, meta, indexed, torn>>

\* The cycle ends with the index, unless the inbox has failed before.  Its
\* description is compared first, then the index itself.  If neither fits, the
\* model embeds the texts that are new; there may be none, as texts of other
\* files may have gone.
RefreshIndex(t) ==
  /\ BridgeFree /\ published
  /\ IF meta = files THEN Begin(t, Idle)
     ELSE \E at \in IF index = files THEN {"meta"} ELSE {"ask", "answered"} :
            Begin(t, [op |-> "index", at |-> at, content |-> files,
                      settings |-> BridgeSettings, left |-> 0, posts |-> 0])
  /\ published' = FALSE
  /\ UNCHANGED <<answers, lost, given, disposition, files, index, meta, indexed, torn>>

\* Mutant: the description is written before the index.
MetaFirst == [answered |-> "meta", meta |-> "index"]

\* What a refresh writes when it has its embeddings, and after that.
Written == [answered |-> "index", meta |-> "meta"]

WriteMemory(t) ==
  /\ call[t].op = "index" /\ call[t].at \in {"answered", "meta"}
  /\ \/ /\ Written[call[t].at] = "index"
        /\ index' = call[t].content /\ indexed' = indexed \cup {index'}
        /\ UNCHANGED <<meta, torn>>
     \/ /\ Written[call[t].at] = "meta"
        /\ meta' = call[t].content /\ torn' = FALSE
        /\ UNCHANGED <<index, indexed>>
  /\ IF call[t].at = "answered" THEN Goto(t, "meta") ELSE End(t)
  /\ UNCHANGED <<answers, lost, given, disposition, files, published>>

\* Killed here, or failing here, a refresh leaves an index of its own and the
\* description of an older one.
TornOff(c) == c.op = "index" /\ c.at = "meta"

MemoryFails(t) ==
  /\ call[t].op \in {"answer", "publish", "index"} /\ call[t].at \notin {"ask", "post"}
  /\ torn' = (torn \/ TornOff(call[t]))
  /\ End(t)
  /\ UNCHANGED <<answers, lost, given, disposition, files, published, index, meta, indexed>>

MemoryStep(t) ==
  \/ ReadAnswers(t) \/ SaveAnswers(t) \/ Dispose(t) \/ Publish(t) \/ WriteContext(t)
  \/ RefreshIndex(t) \/ WriteMemory(t) \/ MemoryFails(t)

--------------------------------------------------------------------------------
MemoryOK ==
  /\ {answers, given} \subseteq [Question -> Answer \cup {NoAnswer}] /\ lost \subseteq Question
  /\ disposition \in Disposition /\ {torn, published} \subseteq BOOLEAN
  /\ {files, index, meta} \cup indexed \subseteq
       LET said == Disposition \cup {"none"}
       IN [feedback : said, learned : [signal : said, answers : [Question -> Answer \cup {NoAnswer}]]]

\* An answer the user has given stays until another one is given to the same
\* question, unless a request that overlapped it writes back what it had read.
AnswersKept == \A q \in Question \ lost : answers[q] = given[q]

\* The description never promises an index that was not made.  It is of the index
\* there is, unless a refresh is or broke off between the two: then it is older,
\* and context that returns to what it was is taken for indexed.
IndexTold ==
  /\ meta \in indexed
  /\ meta # index => torn \/ \E t \in Thread : TornOff(call[t])
================================================================================

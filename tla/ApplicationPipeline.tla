--------------------------- MODULE ApplicationPipeline ---------------------------
(***************************************************************************)
(* The application for one job (applications.py) and its events.  A status *)
(* is set by a session that reads the row, checks, and commits the status  *)
(* with an event from the status read.                                     *)
(***************************************************************************)
EXTENDS PanelThreads, Sequences

CONSTANTS
  Open,      \* statuses an application may leave freely; "discovered" is one
  Terminal   \* offer, rejected, withdrawn, closed

ASSUME StatusesOK ==
  "discovered" \in Open /\ Open \cap Terminal = {} /\ "none" \notin Open \cup Terminal

VARIABLES
  status,    \* of the application, "none" before it exists
  events,    \* its events in the order they were committed
  stale      \* history: a commit whose session had read another status

pipelineVars == <<status, events, stale>>

PipelineInit == status = "none" /\ events = <<>> /\ stale = FALSE

\* Mutant: a terminal status is left without asking.
MayMoveFreely(from, to, reopen) == TRUE

\* A terminal status is left only by an explicit reopening.
MayMove(from, to, reopen) == from \in Terminal /\ from # to => reopen

\* set_status reads the row; a first application starts as discovered.
ReadStatus(t) ==
  /\ \E to \in Open \cup Terminal, reopen \in BOOLEAN :
       LET from == IF status = "none" THEN "discovered" ELSE status
       IN /\ MayMove(from, to, reopen)
          /\ Begin(t, [op |-> "apply", at |-> "save", read |-> status, from |-> from,
                       to |-> to, reopen |-> reopen])
  /\ UNCHANGED pipelineVars

\* An insert conflicts with a row inserted since: job_id is unique; any commit may
\* fail.  A status that stays as it was read leaves no event.
SaveStatus(t) ==
  /\ In(t, "apply", "save")
  /\ LET c == call[t]
     IN \/ UNCHANGED pipelineVars
        \/ /\ c.read = "none" => status = "none"
           /\ status' = IF c.from = c.to /\ status # "none" THEN status ELSE c.to
           /\ events' = IF c.from = c.to THEN events
                        ELSE Append(events, [from |-> c.from, to |-> c.to, reopen |-> c.reopen])
           /\ stale' = (stale \/ (c.from # c.to /\ status # c.read))
  /\ End(t)

PipelineStep(t) == ReadStatus(t) \/ SaveStatus(t)

--------------------------------------------------------------------------------
PipelineOK ==
  /\ status \in Open \cup Terminal \cup {"none"} /\ stale \in BOOLEAN
  /\ events \in Seq([from : Open \cup Terminal, to : Open \cup Terminal, reopen : BOOLEAN])

\* The events tell how the application came to its status: the last one leads to
\* it, also when sessions overlapped.  Unless they did, each event starts where
\* the one before ended, the first at discovered, and a terminal status has been
\* left only by a request that said so.
EventsTell ==
  /\ status \notin {"none", "discovered"} => events # <<>>
  /\ events # <<>> => status = events[Len(events)].to
  /\ ~stale => \A i \in 1..Len(events) :
       /\ events[i].from = IF i = 1 THEN "discovered" ELSE events[i - 1].to
       /\ events[i].from \in Terminal => events[i].reopen
================================================================================

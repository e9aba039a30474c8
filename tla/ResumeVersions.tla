----------------------------- MODULE ResumeVersions -----------------------------
(***************************************************************************)
(* Versions of the resume (resume_import/versions.py) and the API of the   *)
(* panel that changes them.  A version is a row; its Markdown never        *)
(* changes, so whether it is valid is settled when it is created.  The     *)
(* status and the warnings of a row are left out: nothing decides on them. *)
(***************************************************************************)
EXTENDS PanelThreads

CONSTANT Version   \* identifiers of versions

VARIABLES
  resumes,    \* rows by identifier
  made,       \* identifiers given out: they are never used again
  activated,  \* history: a version has been activated
  crossed     \* history: two requests crossed, and none has been active since

resumeVars == <<resumes, made, activated, crossed>>

Active == {v \in DOMAIN resumes : resumes[v].active}
Row == [valid : BOOLEAN, approved : BOOLEAN, active : BOOLEAN]
Without(rows, v) == [w \in DOMAIN rows \ {v} |-> rows[w]]
With(rows, v, row) == [w \in DOMAIN rows \cup {v} |-> IF w = v THEN row ELSE rows[w]]

\* The versions the panel finds: some approved before, one of them active or none.
ResumesInit ==
  /\ \E old \in SUBSET Version : \E active \in {{}} \cup {{v} : v \in old} :
       /\ Cardinality(old) <= 2
       /\ resumes = [v \in old |-> [valid |-> TRUE, approved |-> TRUE, active |-> v \in active]]
       /\ activated = (active # {})
  /\ made = DOMAIN resumes /\ crossed = FALSE

\* What an upload that passes validate_upload is turned into, or an edit: only
\* whether any text is left matters.  (Everything else validate_markdown finds is
\* a warning.)
Text == {"blank", "text"}
Valid(markdown) == markdown # "blank"

Insert(markdown) ==
  \E v \in Version \ made :
    /\ made' = made \cup {v}
    /\ resumes' = With(resumes, v, [valid |-> Valid(markdown), approved |-> FALSE, active |-> FALSE])
    /\ UNCHANGED <<activated, crossed>>

\* POST /api/resumes/import: a new draft, even of a text that is blank.
ImportResume(t) == Begin(t, Idle) /\ \E markdown \in Text : Insert(markdown)

\* PUT of a version: a draft with the new text, which must not be blank.  What it
\* was made from stays as it is; if that is gone by the commit, the new row's
\* reference to it fails and nothing is inserted.
EditResume(t) ==
  /\ DOMAIN resumes # {}
  /\ Begin(t, Idle) /\ Insert("text")

\* The checks of approve, activate and delete, made on the row as it was read.
May(op, row) ==
  \/ op = "approve" /\ row.valid
  \/ op = "activate" /\ row.approved
  \/ op = "delete" /\ ~row.active

\* The session loads the row; activate loads the active version too.
ReadResume(t) ==
  /\ \E op \in {"approve", "activate", "delete"}, v \in DOMAIN resumes :
       /\ May(op, resumes[v])
       /\ Begin(t, [op |-> op, at |-> "commit", version |-> v, row |-> resumes[v],
                    current |-> IF op = "activate" THEN Active \ {v} ELSE {}])
  /\ UNCHANGED resumeVars

\* Mutant: the bulk update is dropped, the loaded version alone is deactivated.
ActivatedLoaded(c) ==
  [v \in DOMAIN resumes |->
     IF v = c.version THEN [resumes[v] EXCEPT !.active = TRUE]
     ELSE IF v \in c.current THEN [resumes[v] EXCEPT !.active = FALSE] ELSE resumes[v]]

\* Every other version is deactivated by one UPDATE.  The ORM writes the version
\* itself only if it was not active when it was loaded.
Activated(c) ==
  [v \in DOMAIN resumes |->
     IF v # c.version THEN [resumes[v] EXCEPT !.active = FALSE]
     ELSE IF c.row.active THEN resumes[v] ELSE [resumes[v] EXCEPT !.active = TRUE]]

\* The rows an UPDATE by primary key must find: otherwise the session is rolled
\* back.  A column the session has not changed needs none.
Updated(c) ==
  CASE c.op = "approve" -> IF c.row.approved THEN {} ELSE {c.version}
    [] c.op = "activate" -> c.current \cup (IF c.row.active THEN {} ELSE {c.version})
    [] c.op = "delete" -> {}

Applied(c) ==
  CASE c.op = "approve" -> [v \in DOMAIN resumes |->
                              IF v = c.version THEN [resumes[v] EXCEPT !.approved = TRUE] ELSE resumes[v]]
    [] c.op = "activate" -> Activated(c)
    [] c.op = "delete" -> Without(resumes, c.version)

\* What the session has read of its version is the opposite by now.
Crossing(c) ==
  \/ c.op = "activate" /\ c.row.active /\ c.version \notin Active
  \/ c.op = "delete" /\ ~c.row.active /\ c.version \in Active

\* Any commit may fail, too.
CommitResume(t) ==
  /\ call[t].at = "commit" /\ call[t].op \in {"approve", "activate", "delete"}
  /\ \/ /\ Updated(call[t]) \subseteq DOMAIN resumes
        /\ resumes' = Applied(call[t])
        /\ activated' = (activated \/ (call[t].op = "activate" /\ call[t].version \in DOMAIN resumes))
        /\ crossed' = ((crossed /\ Active = {}) \/ Crossing(call[t]))
     \/ UNCHANGED <<resumes, activated, crossed>>
  /\ End(t)
  /\ UNCHANGED made

ResumeStep(t) == ImportResume(t) \/ EditResume(t) \/ ReadResume(t) \/ CommitResume(t)

--------------------------------------------------------------------------------
ResumesOK ==
  /\ DOMAIN resumes \subseteq made /\ made \subseteq Version /\ \A v \in DOMAIN resumes : resumes[v] \in Row
  /\ {activated, crossed} \subseteq BOOLEAN

\* However activations, approvals and deletions overlap, one version at most is
\* active, and it has been approved: documents are made from that one.  Once a
\* version has been activated there is always one, unless two requests crossed: an
\* activation of a version that was active already and has been replaced since, or
\* a deletion of one that has been activated since.  The next activation mends it.
OneActive ==
  /\ Cardinality(Active) <= 1
  /\ \A v \in Active : resumes[v].approved /\ resumes[v].valid
  /\ activated /\ ~crossed => Active # {}
================================================================================

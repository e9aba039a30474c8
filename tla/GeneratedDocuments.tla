--------------------------- MODULE GeneratedDocuments ---------------------------
(***************************************************************************)
(* Generated documents of one job: files under output/ and rows in         *)
(* generated_documents.  Three operations make them: the package of        *)
(* DocumentGenerator (resume, cover letter, manifest), the helpers of      *)
(* LocalDocumentStudio, which ask the model first, and the editing of a    *)
(* text in the panel.  Nothing keeps two of them apart.  docx and pdf      *)
(* follow their Markdown everywhere and are left out.  What a file holds   *)
(* is named by the call that wrote it last.                                *)
(***************************************************************************)
EXTENDS ResumeVersions

CONSTANTS
  Helper,      \* a document type of the studio
  MaxVersion   \* bound on version numbers

ASSUME VersionsBounded == MaxVersion \in Nat

VARIABLES
  docs,       \* rows: document type, version, path, and the call that made them
  disk,       \* files by path
  manifests,  \* versions with a manifest
  shared      \* history: paths of two overlapping calls, or a deletion broke off on

docVars == <<docs, disk, manifests, shared>>

\* The generator and the others name files differently: resume-v2.md and
\* resume.en.v2.md.
Package == {"resume", "cover_letter"}
Path == [style : {"package", "single"}, what : Package \cup {Helper}, version : 1..MaxVersion]
PathOf(style, what, v) == [style |-> style, what |-> what, version |-> v]

DocsInit == docs = {} /\ disk = [p \in {} |-> 0] /\ manifests = {} /\ shared = {}

\* Mutant: the highest number is used again.
NextReused(rows) ==
  IF rows = {} THEN 1 ELSE CHOOSE n \in 1..MaxVersion :
    (\E d \in rows : d.version = n) /\ \A d \in rows : d.version <= n

\* SELECT max(version), plus one
NextVersion(rows) ==
  CHOOSE n \in 1..MaxVersion + 1 :
    /\ \A d \in rows : d.version < n
    /\ n = 1 \/ \E d \in rows : d.version = n - 1

OfType(what) == {d \in docs : d.what = what}

\* The paths a call writes or removes before its session ends.
InHand(c) ==
  IF c.op \in {"package", "studio", "edit", "remove"} /\ c.at \notin {"name", "ask", "post", "answered"}
  THEN c.paths ELSE {}
\* Another has them in hand, or has saved them in a row since the rows were read.
TakenBy(t, paths, read) ==
  shared' = shared \cup (UNION {paths \cap InHand(call[u]) : u \in Thread \ {t}})
                   \cup (paths \cap ({d.path : d \in docs} \ read))

\* A deletion that ends after unlink and before its commit.
BrokenOff(c) == IF c.op = "remove" /\ c.at = "save" THEN c.paths ELSE {}

Put(path, by) == disk' = [p \in DOMAIN disk \cup {path} |-> IF p = path THEN by ELSE disk[p]]

--------------------------------------------------------------------------------
(* DocumentApplicationService.generate                                     *)

\* The job has its analysis and an approved structured resume; the highest
\* version of any document of the job is read.
StartPackage(t) ==
  /\ Begin(t, [op |-> "package", at |-> "name", by |-> served + 1, least |-> NextVersion(docs),
               read |-> {d.path : d \in docs}])
  /\ UNCHANGED docVars

\* DocumentGenerator counts the manifests on disk.
NamePackage(t) ==
  /\ In(t, "package", "name")
  /\ LET counted == Cardinality(manifests) + 1
         least == call[t].least
         v == IF counted > least THEN counted ELSE least
         paths == {PathOf("package", what, v) : what \in Package}
     IN /\ v <= MaxVersion
        /\ Become(t, [op |-> "package", at |-> "resume", by |-> call[t].by, version |-> v, paths |-> paths])
        /\ TakenBy(t, paths, call[t].read)
  /\ UNCHANGED <<docs, disk, manifests>>

\* Resume, cover letter, manifest.  How the resume is tailored to the job and what
\* the letter says of its analysis is left out.
WritePackage(t) ==
  /\ call[t].op = "package"
  /\ \/ /\ call[t].at \in Package
        /\ Put(PathOf("package", call[t].at, call[t].version), call[t].by)
        /\ Goto(t, IF call[t].at = "resume" THEN "cover_letter" ELSE "docx")
        /\ UNCHANGED manifests
     \/ /\ call[t].at = "manifest"
        /\ manifests' = manifests \cup {call[t].version}
        /\ Goto(t, "save")
        /\ UNCHANGED disk
  /\ UNCHANGED <<docs, shared>>

\* Between the texts and the manifest the same is written as docx, and soffice, a
\* process of its own, makes pdf files of them.
Convert(t) ==
  /\ In(t, "package", "docx")
  /\ Goto(t, "manifest")
  /\ UNCHANGED docVars

--------------------------------------------------------------------------------
(* LocalDocumentStudio.generate and edit_document                          *)

\* An active approved resume is needed; then the model is asked (module
\* OllamaCalls).
StartStudio(t, settings) ==
  /\ \E v \in Active : resumes[v].approved
  /\ Begin(t, [op |-> "studio", at |-> "ask", settings |-> settings, left |-> 0, posts |-> 0,
               by |-> served + 1])
  /\ UNCHANGED docVars

Single(t, op, what, by) ==
  LET v == NextVersion(OfType(what))
      path == PathOf("single", what, v)
      write == [op |-> op, at |-> "write", by |-> by, what |-> what, version |-> v, paths |-> {path}]
  IN /\ v <= MaxVersion
     /\ TakenBy(t, {path}, {d.path : d \in docs})
     /\ IF op = "edit" THEN Begin(t, write) ELSE Become(t, write)

NameStudio(t) ==
  /\ In(t, "studio", "answered")
  /\ Single(t, "studio", Helper, call[t].by)
  /\ UNCHANGED <<docs, disk, manifests>>

StartEdit(t) ==
  /\ \E d \in docs : Single(t, "edit", d.what, served + 1)
  /\ UNCHANGED <<docs, disk, manifests>>

\* A temporary file takes the place of whatever has the name.
WriteSingle(t) ==
  /\ call[t].op \in {"studio", "edit"} /\ call[t].at = "write"
  /\ \E path \in call[t].paths : Put(path, call[t].by)
  /\ Goto(t, "save")
  /\ UNCHANGED <<docs, manifests, shared>>

--------------------------------------------------------------------------------
(* Rows                                                                    *)

NewRows(c) ==
  {[what |-> p.what, version |-> c.version, path |-> p, by |-> c.by] : p \in c.paths}

\* The unique key of generated_documents; a conflict rolls all the rows back and
\* leaves the files.
Conflict(rows) ==
  \E d \in docs, r \in rows : d.what = r.what /\ d.version = r.version

SaveRows(t) ==
  /\ call[t].op \in {"package", "studio", "edit"} /\ call[t].at = "save"
  /\ docs' = IF Conflict(NewRows(call[t])) THEN docs ELSE docs \cup NewRows(call[t])
  /\ End(t)
  /\ UNCHANGED <<disk, manifests, shared>>

StartRemove(t) ==
  /\ \E d \in docs :
       /\ Begin(t, [op |-> "remove", at |-> "unlink", row |-> d, paths |-> {d.path}])
       /\ TakenBy(t, {d.path}, {d.path})
  /\ UNCHANGED <<docs, disk, manifests>>

Unlink(t) ==
  /\ In(t, "remove", "unlink")
  /\ disk' = [p \in DOMAIN disk \ call[t].paths |-> disk[p]]
  /\ Goto(t, "save")
  /\ UNCHANGED <<docs, manifests, shared>>

RemoveRow(t) ==
  /\ In(t, "remove", "save")
  /\ docs' = docs \ {call[t].row}
  /\ End(t)
  /\ UNCHANGED <<disk, manifests, shared>>

\* A file cannot be written, a conversion fails, the session cannot commit.
DocumentFails(t) ==
  /\ call[t].op \in {"package", "studio", "edit", "remove"}
  /\ call[t].at \notin {"name", "ask", "post"}
  /\ shared' = shared \cup BrokenOff(call[t])
  /\ End(t)
  /\ UNCHANGED <<docs, disk, manifests>>

DocumentStep(t) ==
  \/ StartPackage(t) \/ NamePackage(t) \/ WritePackage(t) \/ Convert(t)
  \/ NameStudio(t) \/ StartEdit(t) \/ WriteSingle(t) \/ SaveRows(t)
  \/ StartRemove(t) \/ Unlink(t) \/ RemoveRow(t) \/ DocumentFails(t)

--------------------------------------------------------------------------------
DocumentsOK ==
  /\ \A d \in docs : d.path \in Path /\ d.what = d.path.what /\ d.version = d.path.version
  /\ DOMAIN disk \subseteq Path /\ shared \subseteq Path /\ manifests \subseteq 1..MaxVersion

\* The file a row names is there and holds what the call of that row has written,
\* and a package has its manifest: whatever fails or overlaps, unless two calls
\* that overlapped chose the same path, or a deletion is or broke off between file
\* and row.
FilesMatchRows ==
  \A d \in docs :
    d.path \notin shared \cup UNION {BrokenOff(call[t]) : t \in Thread} =>
      /\ d.path \in DOMAIN disk /\ disk[d.path] = d.by
      /\ d.path.style = "package" => d.version \in manifests
================================================================================

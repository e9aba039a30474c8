-------------------------- MODULE PanelDocumentProofs --------------------------
(***************************************************************************)
(* The files of generated documents match their rows, for any threads and  *)
(* calls.  The argument follows paths: a path two calls have in hand is    *)
(* shared, and so is a path a call has in hand and a row names, unless the *)
(* call removes that very row.  What a call has written to a path that is  *)
(* not shared is therefore still there when its rows are saved.            *)
(*                                                                         *)
(* Last, the types of the whole panel: what a call has read or made is     *)
(* what the table, file or answer it ends up in may hold.                  *)
(***************************************************************************)
EXTENDS PanelProofs, LeastElements

--------------------------------------------------------------------------------
PackagePaths(v) == {PathOf("package", what, v) : what \in Package}

PackageCall(c) ==
  /\ {"op", "at", "by"} \subseteq DOMAIN c
  /\ c.at = "name" => \A p \in c.read : p.version < c.least
  /\ c.at = "name" => c.least \in Nat \ {0}
  /\ c.at # "name" =>
       /\ {"op", "at", "by", "version", "paths"} \subseteq DOMAIN c
       /\ c.at \in {"resume", "cover_letter", "docx", "manifest", "save"}
       /\ c.version \in 1..MaxVersion /\ c.paths = PackagePaths(c.version)
  /\ c.at = "save" => c.version \in manifests

SingleCall(c) ==
  /\ {"op", "at", "by"} \subseteq DOMAIN c
  /\ c.at \in {"ask", "post", "answered", "write", "save"}
  /\ c.at \in {"write", "save"} =>
       /\ {"op", "at", "by", "version", "paths"} \subseteq DOMAIN c
       /\ \E path \in Path : c.paths = {path} /\ path.style = "single" /\ path.version = c.version

RemoveCall(c) ==
  /\ {"op", "at", "row", "paths"} \subseteq DOMAIN c
  /\ c.at \in {"unlink", "save"} /\ c.paths = {c.row.path}

DocCall(c) ==
  /\ c.op = "package" => PackageCall(c)
  /\ c.op \in {"studio", "edit"} => SingleCall(c)
  /\ c.op = "remove" => RemoveCall(c)

\* What a call has written so far.
Done(c) ==
  IF (c.op \in {"studio", "edit"} /\ c.at = "save") \/ (c.op = "package" /\ c.at \in {"docx", "manifest", "save"})
  THEN c.paths
  ELSE IF c.op = "package" /\ c.at = "cover_letter" THEN {PathOf("package", "resume", c.version)} ELSE {}

DocRows ==
  /\ \A d \in docs : d.path \in Path /\ d.what = d.path.what /\ d.version = d.path.version
  /\ \A d, e \in docs : d.what = e.what /\ d.version = e.version => d = e
  /\ manifests \subseteq 1..MaxVersion

\* A path in two hands is shared.
PairInv == \A t, u \in Thread : t # u => InHand(call[t]) \cap InHand(call[u]) \subseteq shared

\* A path in a hand that a row names is shared, but for the removal of that row.
HeldRows ==
  \A t \in Thread, d \in docs :
    d.path \in InHand(call[t]) => d.path \in shared \/ (call[t].op = "remove" /\ call[t].row = d)

\* A call finds what it has written.
WrittenInv ==
  \A t \in Thread : \A p \in Done(call[t]) \ shared : p \in DOMAIN disk /\ disk[p] = call[t].by

DocInv ==
  /\ DocRows /\ PairInv /\ HeldRows /\ WrittenInv /\ FilesMatchRows
  /\ \A t \in Thread : DocCall(call[t])

\* A call that is not about documents has nothing in hand.
LEMMA EmptyHands ==
  ASSUME NEW c, c.op \notin DocumentOps \/ c.at \in {"name", "ask", "post", "answered"}
  PROVE  InHand(c) = {} /\ Done(c) = {} /\ BrokenOff(c) = {}
BY DEF InHand, Done, BrokenOff, DocumentOps

LEMMA OtherCall ==
  ASSUME NEW c, c.op \notin DocumentOps
  PROVE  DocCall(c)
BY DEF DocCall, DocumentOps

\* A call moves on without touching rows or files.
LEMMA HandsMove ==
  ASSUME DocInv, NEW t \in Thread, NEW c, Moved(t, c), DocCall(c),
         UNCHANGED <<docs, disk, manifests>>, shared \subseteq shared',
         BrokenOff(call[t]) \subseteq shared' \cup BrokenOff(c),
         \A u \in Thread \ {t} : InHand(c) \cap InHand(call[u]) \subseteq shared',
         \A d \in docs : d.path \in InHand(c) => d.path \in shared' \/ (c.op = "remove" /\ c.row = d),
         \A p \in Done(c) \ shared' : p \in DOMAIN disk /\ disk[p] = c.by
  PROVE  DocInv'
<1>1. call'[t] = c /\ \A u \in Thread \ {t} : call'[u] = call[u]
  BY DEF Moved
<1>2. \A x : /\ InHand(x)' = InHand(x) /\ Done(x)' = Done(x) /\ BrokenOff(x)' = BrokenOff(x)
             /\ DocCall(x)' <=> DocCall(x)
  BY DEF DocCall, PackageCall, SingleCall, RemoveCall
<1>3. DocRows'
  BY DEF DocInv, DocRows
<1>4. PairInv'
  BY <1>1, <1>2 DEF DocInv, PairInv
<1>5. HeldRows'
  BY <1>1, <1>2 DEF DocInv, HeldRows
<1>6. WrittenInv'
  BY <1>1, <1>2 DEF DocInv, WrittenInv
<1>7. FilesMatchRows'
  <2>1. shared \cup UNION {BrokenOff(call[u]) : u \in Thread}
          \subseteq shared' \cup UNION {BrokenOff(call'[u]) : u \in Thread}
    BY <1>1
  <2>2. QED
    BY <2>1 DEF DocInv, FilesMatchRows
<1>8. \A u \in Thread : DocCall(call[u])'
  BY <1>1 DEF DocInv, DocCall, PackageCall, SingleCall, RemoveCall
<1>9. QED
  BY <1>3, <1>4, <1>5, <1>6, <1>7, <1>8 DEF DocInv
\* NextVersion is above every version there is, and one above the highest at most.
LEMMA NextVersionAbove ==
  ASSUME NEW rows, \A d \in rows : d.version \in 1..MaxVersion
  PROVE  /\ NextVersion(rows) \in 1..MaxVersion + 1
         /\ \A d \in rows : d.version < NextVersion(rows)
<1> DEFINE above == {n \in 1..MaxVersion + 1 : \A d \in rows : d.version < n}
<1>1. MaxVersion + 1 \in above
  BY VersionsBounded
<1>2. above \in SUBSET Nat /\ above # {}
  BY <1>1, VersionsBounded
<1>3. PICK n \in above : \A m \in above : n <= m
  BY <1>2, LeastElement
<1>4. n = 1 \/ \E d \in rows : d.version = n - 1
  <2>1. SUFFICES ASSUME n # 1 PROVE \E d \in rows : d.version = n - 1
    OBVIOUS
  <2>2. n \in 2..MaxVersion + 1 /\ n - 1 \notin above
    BY <1>3, <2>1, VersionsBounded
  <2>3. PICK d \in rows : ~(d.version < n - 1)
    BY <2>2, VersionsBounded
  <2>4. d.version \in Nat /\ d.version < n
    BY <1>3, VersionsBounded
  <2>5. QED
    BY <2>2, <2>3, <2>4, VersionsBounded
<1>5. \E n_1 \in 1..MaxVersion + 1 :
        /\ \A d \in rows : d.version < n_1
        /\ n_1 = 1 \/ \E d \in rows : d.version = n_1 - 1
  BY <1>3, <1>4
<1>6. QED
  BY <1>5 DEF NextVersion

\* What is done is in hand.
LEMMA DoneInHand ==
  ASSUME NEW c, DocCall(c)
  PROVE  Done(c) \subseteq InHand(c)
<1>1. CASE c.op = "package" /\ c.at = "cover_letter"
  BY <1>1 DEF DocCall, PackageCall, PackagePaths, Package, Done, InHand
<1>2. CASE ~(c.op = "package" /\ c.at = "cover_letter")
  BY <1>2 DEF Done, InHand
<1>3. QED
  BY <1>1, <1>2

\* A call takes paths it had not in hand.
LEMMA TakesPaths ==
  ASSUME DocInv, NEW t \in Thread, NEW c, Moved(t, c), DocCall(c), NEW read,
         UNCHANGED <<docs, disk, manifests>>, TakenBy(t, InHand(c), read),
         InHand(call[t]) = {}, BrokenOff(call[t]) = {}, Done(c) = {},
         \A d \in docs : d.path \in InHand(c) \cap read => c.op = "remove" /\ c.row = d
  PROVE  DocInv'
<1> DEFINE held == UNION {InHand(c) \cap InHand(call[u]) : u \in Thread \ {t}}
           named == InHand(c) \cap ({d.path : d \in docs} \ read)
<1>1. shared' = shared \cup held \cup named
  BY DEF TakenBy
<1>2. \A u \in Thread \ {t} : InHand(c) \cap InHand(call[u]) \subseteq held
  OBVIOUS
<1>3. \A d \in docs : d.path \in InHand(c) => d.path \in named \/ (c.op = "remove" /\ c.row = d)
  OBVIOUS
<1> HIDE DEF held, named
<1>4. /\ shared \subseteq shared'
      /\ BrokenOff(call[t]) \subseteq shared' \cup BrokenOff(c)
      /\ \A p \in Done(c) \ shared' : p \in DOMAIN disk /\ disk[p] = c.by
  BY <1>1
<1>5. \A u \in Thread \ {t} : InHand(c) \cap InHand(call[u]) \subseteq shared'
  BY <1>1, <1>2
<1>6. \A d \in docs : d.path \in InHand(c) => d.path \in shared' \/ (c.op = "remove" /\ c.row = d)
  BY <1>1, <1>3
<1>7. QED
  BY <1>4, <1>5, <1>6, HandsMove

\* A call ends, or goes to the model, or waits: it has nothing in hand then.
LEMMA HandsEmpty ==
  ASSUME DocInv, NEW t \in Thread, NEW c, Moved(t, c), DocCall(c),
         UNCHANGED <<docs, disk, manifests>>, shared' = shared \cup BrokenOff(call[t]),
         InHand(c) = {}, Done(c) = {}
  PROVE  DocInv'
BY HandsMove

\* A call writes to a path it has in hand.
LEMMA Writes ==
  ASSUME DocInv, NEW t \in Thread, NEW c, Moved(t, c), DocCall(c), NEW p \in InHand(call[t]),
         call[t].op \in {"package", "studio", "edit"}, c.op = call[t].op, c.by = call[t].by,
         InHand(c) = InHand(call[t]), Done(c) \subseteq Done(call[t]) \cup {p},
         Put(p, call[t].by), UNCHANGED <<docs, manifests, shared>>
  PROVE  DocInv'
<1>1. call'[t] = c /\ \A u \in Thread \ {t} : call'[u] = call[u]
  BY DEF Moved
<1>2. \A x : /\ InHand(x)' = InHand(x) /\ Done(x)' = Done(x) /\ BrokenOff(x)' = BrokenOff(x)
             /\ DocCall(x)' <=> DocCall(x)
  BY DEF DocCall, PackageCall, SingleCall, RemoveCall
<1>3. /\ DOMAIN disk' = DOMAIN disk \cup {p} /\ disk'[p] = call[t].by
      /\ \A q \in DOMAIN disk : q # p => disk'[q] = disk[q]
  BY DEF Put
<1>4. BrokenOff(c) = {} /\ BrokenOff(call[t]) = {}
  BY DEF BrokenOff
<1>5. DocRows' /\ PairInv' /\ HeldRows'
  BY <1>1, <1>2 DEF DocInv, DocRows, PairInv, HeldRows
<1>6. WrittenInv'
  <2> SUFFICES ASSUME NEW u \in Thread, NEW q \in Done(call'[u]), q \notin shared
               PROVE  q \in DOMAIN disk' /\ disk'[q] = call'[u].by
    BY <1>2 DEF WrittenInv
  <2>1. CASE u = t
    <3>1. q \in Done(call[t]) \cup {p} /\ call'[u].by = call[t].by
      BY <1>1, <2>1
    <3>2. CASE q = p
      BY <1>3, <3>1, <3>2
    <3>3. CASE q # p
      BY <1>3, <3>1, <3>3 DEF DocInv, WrittenInv
    <3>4. QED
      BY <3>2, <3>3
  <2>2. CASE u # t
    <3>1. q \in Done(call[u]) /\ call'[u] = call[u]
      BY <1>1, <2>2
    <3>2. q \in InHand(call[u])
      BY <3>1, DoneInHand DEF DocInv
    <3>3. q # p
      BY <2>2, <3>2 DEF DocInv, PairInv
    <3>4. QED
      BY <1>3, <3>1, <3>3 DEF DocInv, WrittenInv
  <2>3. QED
    BY <2>1, <2>2
<1>7. FilesMatchRows'
  <2>1. UNION {BrokenOff(call[u]) : u \in Thread} = UNION {BrokenOff(call'[u]) : u \in Thread}
    BY <1>1, <1>4
  <2>2. ASSUME NEW d \in docs, d.path \notin shared
        PROVE  d.path # p
    BY <2>2 DEF DocInv, HeldRows
  <2>3. QED
    BY <1>3, <2>1, <2>2 DEF DocInv, FilesMatchRows
<1>8. \A u \in Thread : DocCall(call[u])'
  BY <1>1, <1>2 DEF DocInv
<1>9. QED
  BY <1>5, <1>6, <1>7, <1>8 DEF DocInv

\* A package goes on without a text: it is converted, or its manifest is written.
LEMMA PackageMoves ==
  ASSUME DocInv, NEW t \in Thread, NEW c, Moved(t, c), DocCall(c)',
         InHand(c) = InHand(call[t]), Done(c) = Done(call[t]), c.by = call[t].by,
         call[t].op = "package", c.op = "package",
         manifests \subseteq manifests', manifests' \subseteq 1..MaxVersion,
         UNCHANGED <<docs, disk, shared>>
  PROVE  DocInv'
<1>1. call'[t] = c /\ \A u \in Thread \ {t} : call'[u] = call[u]
  BY DEF Moved
<1>2. \A x : InHand(x)' = InHand(x) /\ Done(x)' = Done(x) /\ BrokenOff(x)' = BrokenOff(x)
  OBVIOUS
<1>3. BrokenOff(c) = {} /\ BrokenOff(call[t]) = {}
  BY DEF BrokenOff
<1>4. DocRows' /\ PairInv' /\ HeldRows' /\ WrittenInv'
  BY <1>1, <1>2 DEF DocInv, DocRows, PairInv, HeldRows, WrittenInv
<1>5. FilesMatchRows'
  <2>1. UNION {BrokenOff(call[u]) : u \in Thread} = UNION {BrokenOff(call'[u]) : u \in Thread}
    BY <1>1, <1>3
  <2>2. QED
    BY <2>1 DEF DocInv, FilesMatchRows
<1>6. \A u \in Thread : DocCall(call[u])'
  <2>1. DocCall(call[t])'
    BY <1>1 DEF DocCall, PackageCall, SingleCall, RemoveCall
  <2>2. ASSUME NEW u \in Thread \ {t}
        PROVE  DocCall(call[u])'
    BY <1>1 DEF DocInv, DocCall, PackageCall, SingleCall, RemoveCall
  <2>3. QED
    BY <2>1, <2>2
<1>7. QED
  BY <1>4, <1>5, <1>6 DEF DocInv

\* The removal of a document takes its file first.
LEMMA Unlinks ==
  ASSUME BaseInv, DocInv, NEW t \in Thread, Unlink(t)
  PROVE  DocInv'
<1> DEFINE c == call[t]
<1>1. /\ c.op = "remove" /\ c.at = "unlink" /\ RemoveCall(c)
      /\ disk' = [p \in DOMAIN disk \ c.paths |-> disk[p]]
      /\ UNCHANGED <<docs, manifests, shared>>
  BY DEF Unlink, In, DocInv, DocCall
<1>2. PICK d : Moved(t, d) /\ d = [c EXCEPT !.at = "save"]
  BY GotoMoves DEF Unlink, BaseInv
<1>3. /\ Moved(t, d) /\ DOMAIN d = DOMAIN c /\ d.op = "remove" /\ d.at = "save"
      /\ d.paths = c.paths /\ d.row = c.row
  BY <1>1, <1>2 DEF RemoveCall
<1>4. call'[t] = d /\ \A u \in Thread \ {t} : call'[u] = call[u]
  BY <1>3 DEF Moved
<1>5. /\ InHand(d) = c.paths /\ InHand(c) = c.paths /\ Done(d) = {} /\ Done(c) = {}
      /\ BrokenOff(d) = c.paths /\ BrokenOff(c) = {}
  BY <1>1, <1>3 DEF InHand, Done, BrokenOff
<1>6. \A x : /\ InHand(x)' = InHand(x) /\ Done(x)' = Done(x) /\ BrokenOff(x)' = BrokenOff(x)
             /\ DocCall(x)' <=> DocCall(x)
  BY <1>1 DEF DocCall, PackageCall, SingleCall, RemoveCall
<1>7. DocRows' /\ PairInv' /\ HeldRows'
  BY <1>1, <1>3, <1>4, <1>5, <1>6 DEF DocInv, DocRows, PairInv, HeldRows
<1>8. DOMAIN disk' = DOMAIN disk \ c.paths /\ \A p \in DOMAIN disk' : disk'[p] = disk[p]
  BY <1>1
<1>9. WrittenInv'
  <2> SUFFICES ASSUME NEW u \in Thread, NEW p \in Done(call'[u]), p \notin shared
               PROVE  p \in DOMAIN disk' /\ disk'[p] = call'[u].by
    BY <1>1, <1>6 DEF WrittenInv
  <2>1. u # t /\ call'[u] = call[u] /\ p \in Done(call[u])
    BY <1>4, <1>5
  <2>2. p \in InHand(call[u])
    BY <2>1, DoneInHand DEF DocInv
  <2>3. p \notin c.paths
    BY <1>5, <2>1, <2>2 DEF DocInv, PairInv
  <2>4. QED
    BY <1>8, <2>1, <2>3 DEF DocInv, WrittenInv
<1>10. FilesMatchRows'
  <2>1. /\ c.paths \subseteq UNION {BrokenOff(call'[u]) : u \in Thread}
        /\ UNION {BrokenOff(call[u]) : u \in Thread} \subseteq UNION {BrokenOff(call'[u]) : u \in Thread}
    BY <1>4, <1>5
  <2>2. QED
    BY <1>1, <1>8, <2>1 DEF DocInv, FilesMatchRows
<1>11. DocCall(d)
  BY <1>1, <1>3 DEF DocCall, RemoveCall
<1>12. \A u \in Thread : DocCall(call[u])'
  BY <1>4, <1>6, <1>11 DEF DocInv
<1>13. QED
  BY <1>7, <1>9, <1>10, <1>12 DEF DocInv

\* Rows go, and with them the call that removed one.
LEMMA Removes ==
  ASSUME BaseInv, DocInv, NEW t \in Thread, RemoveRow(t)
  PROVE  DocInv'
<1> DEFINE c == call[t]
<1>1. /\ c.op = "remove" /\ c.at = "save" /\ RemoveCall(c)
      /\ docs' = docs \ {c.row} /\ UNCHANGED <<disk, manifests, shared>>
  BY DEF RemoveRow, In, DocInv, DocCall
<1>2. call'[t] = Idle /\ \A u \in Thread \ {t} : call'[u] = call[u]
  BY EndMoves DEF RemoveRow, Moved, BaseInv
<1>3. InHand(Idle) = {} /\ Done(Idle) = {} /\ BrokenOff(Idle) = {} /\ DocCall(Idle)
  BY IdleCall, EmptyHands, OtherCall DEF DocumentOps
<1>4. InHand(c) = {c.row.path} /\ BrokenOff(c) = {c.row.path}
  BY <1>1 DEF InHand, BrokenOff, RemoveCall
<1>5. \A x : /\ InHand(x)' = InHand(x) /\ Done(x)' = Done(x) /\ BrokenOff(x)' = BrokenOff(x)
             /\ DocCall(x)' <=> DocCall(x)
  BY <1>1 DEF DocCall, PackageCall, SingleCall, RemoveCall
<1>6. DocRows' /\ PairInv' /\ HeldRows' /\ WrittenInv'
  BY <1>1, <1>2, <1>3, <1>5 DEF DocInv, DocRows, PairInv, HeldRows, WrittenInv
<1>7. FilesMatchRows'
  <2>1. UNION {BrokenOff(call[u]) : u \in Thread}
          \subseteq {c.row.path} \cup UNION {BrokenOff(call'[u]) : u \in Thread}
    BY <1>2, <1>4
  <2>2. ASSUME NEW d \in docs', d.path \notin shared
        PROVE  d.path # c.row.path
    BY <1>1, <1>4, <2>2 DEF DocInv, HeldRows
  <2>3. QED
    BY <1>1, <2>1, <2>2 DEF DocInv, FilesMatchRows
<1>8. \A u \in Thread : DocCall(call[u])'
  BY <1>2, <1>3, <1>5 DEF DocInv
<1>9. QED
  BY <1>6, <1>7, <1>8 DEF DocInv

\* The rows of a call are saved.
LEMMA Saves ==
  ASSUME BaseInv, DocInv, NEW t \in Thread, SaveRows(t)
  PROVE  DocInv'
<1> DEFINE c == call[t]
<1>1. /\ c.op \in {"package", "studio", "edit"} /\ c.at = "save" /\ DocCall(c)
      /\ docs' = IF Conflict(NewRows(c)) THEN docs ELSE docs \cup NewRows(c)
      /\ UNCHANGED <<disk, manifests, shared>>
  BY DEF SaveRows, DocInv
<1>2. Moved(t, Idle)
  BY EndMoves DEF SaveRows, BaseInv
<1>3. InHand(Idle) = {} /\ Done(Idle) = {} /\ BrokenOff(Idle) = {} /\ DocCall(Idle)
  BY IdleCall, EmptyHands, OtherCall DEF DocumentOps
<1>4. InHand(c) = c.paths /\ Done(c) = c.paths /\ BrokenOff(c) = {}
  BY <1>1 DEF InHand, Done, BrokenOff
<1>5. CASE Conflict(NewRows(c))
  BY <1>1, <1>2, <1>3, <1>4, <1>5, HandsEmpty
<1>6. CASE ~Conflict(NewRows(c))
  <2>1. docs' = docs \cup NewRows(c)
    BY <1>1, <1>6
  <2>2. call'[t] = Idle /\ \A u \in Thread \ {t} : call'[u] = call[u]
    BY <1>2 DEF Moved
  <2>3. \A x : /\ InHand(x)' = InHand(x) /\ Done(x)' = Done(x) /\ BrokenOff(x)' = BrokenOff(x)
               /\ DocCall(x)' <=> DocCall(x)
    BY <1>1 DEF DocCall, PackageCall, SingleCall, RemoveCall
  <2>4. \A p \in c.paths : /\ p \in Path /\ p.version = c.version
                           /\ p.style = "package" => c.version \in manifests
    <3>1. CASE c.op = "package"
      BY <1>1, <3>1 DEF DocCall, PackageCall, PackagePaths, PathOf, Path
    <3>2. CASE c.op # "package"
      BY <1>1, <3>2 DEF DocCall, SingleCall
    <3>3. QED
      BY <3>1, <3>2
  <2>5. \A p, q \in c.paths : p.what = q.what => p = q
    <3>1. CASE c.op = "package"
      BY <1>1, <3>1 DEF DocCall, PackageCall, PackagePaths, PathOf
    <3>2. CASE c.op # "package"
      BY <1>1, <3>2 DEF DocCall, SingleCall
    <3>3. QED
      BY <3>1, <3>2
  <2>6. \A d \in NewRows(c) : /\ d.path \in c.paths /\ d.what = d.path.what
                              /\ d.version = c.version /\ d.by = c.by
    BY DEF NewRows
  <2>7. \A d, e \in NewRows(c) : d.path = e.path => d = e
    BY DEF NewRows
  <2>8. DocRows'
    <3>1. \A d \in docs' : d.path \in Path /\ d.what = d.path.what /\ d.version = d.path.version
      BY <2>1, <2>4, <2>6 DEF DocInv, DocRows
    <3>2. ASSUME NEW d \in docs', NEW e \in docs', d.what = e.what, d.version = e.version
          PROVE  d = e
      <4>1. CASE d \in docs /\ e \in docs
        BY <3>2, <4>1 DEF DocInv, DocRows
      <4>2. CASE d \in NewRows(c) /\ e \in NewRows(c)
        BY <2>5, <2>6, <2>7, <3>2, <4>2
      <4>3. ~(d \in docs /\ e \in NewRows(c)) /\ ~(e \in docs /\ d \in NewRows(c))
        BY <1>6, <3>2 DEF Conflict
      <4>4. QED
        BY <2>1, <4>1, <4>2, <4>3
    <3>3. QED
      BY <1>1, <3>1, <3>2 DEF DocInv, DocRows
  <2>9. PairInv' /\ WrittenInv'
    BY <1>1, <1>3, <2>2, <2>3 DEF DocInv, PairInv, WrittenInv
  <2>10. HeldRows'
    <3> SUFFICES ASSUME NEW u \in Thread, NEW d \in docs', d.path \in InHand(call'[u])
                 PROVE  d.path \in shared \/ (call'[u].op = "remove" /\ call'[u].row = d)
      BY <1>1, <2>3 DEF HeldRows
    <3>1. u # t /\ call'[u] = call[u]
      BY <1>3, <2>2
    <3>2. CASE d \in docs
      BY <3>1, <3>2 DEF DocInv, HeldRows
    <3>3. CASE d \in NewRows(c)
      BY <1>4, <2>6, <3>1, <3>3 DEF DocInv, PairInv
    <3>4. QED
      BY <2>1, <3>2, <3>3
  <2>11. FilesMatchRows'
    <3>1. UNION {BrokenOff(call[u]) : u \in Thread} = UNION {BrokenOff(call'[u]) : u \in Thread}
      BY <1>3, <1>4, <2>2
    <3> SUFFICES ASSUME NEW d \in docs', d.path \notin shared \cup UNION {BrokenOff(call[u]) : u \in Thread}
                 PROVE  /\ d.path \in DOMAIN disk /\ disk[d.path] = d.by
                        /\ d.path.style = "package" => d.version \in manifests
      BY <1>1, <3>1 DEF FilesMatchRows
    <3>2. CASE d \in docs
      BY <3>2 DEF DocInv, FilesMatchRows
    <3>3. CASE d \in NewRows(c)
      BY <1>4, <2>4, <2>6, <3>3 DEF DocInv, WrittenInv
    <3>4. QED
      BY <2>1, <3>2, <3>3
  <2>12. \A u \in Thread : DocCall(call[u])'
    BY <1>3, <2>2, <2>3 DEF DocInv
  <2>13. QED
    BY <2>8, <2>9, <2>10, <2>11, <2>12 DEF DocInv
<1>7. QED
  BY <1>5, <1>6

\* Versions in rows are within their bound.
LEMMA RowVersions ==
  ASSUME DocInv
  PROVE  \A d \in docs : d.version \in 1..MaxVersion
BY DEF DocInv, DocRows, Path

\* A new version of one document: its path is in no row.
LEMMA TakesSingle ==
  ASSUME BaseInv, DocInv, NEW t \in Thread, NEW op \in {"studio", "edit"}, NEW what \in Package \cup {Helper},
         NEW by, Single(t, op, what, by), InHand(call[t]) = {}, BrokenOff(call[t]) = {},
         UNCHANGED <<docs, disk, manifests>>
  PROVE  DocInv'
<1> DEFINE v == NextVersion(OfType(what))
           path == PathOf("single", what, v)
           write == [op |-> op, at |-> "write", by |-> by, what |-> what, version |-> v, paths |-> {path}]
<1>1. /\ v <= MaxVersion /\ TakenBy(t, {path}, {d.path : d \in docs})
      /\ IF op = "edit" THEN Begin(t, write) ELSE Become(t, write)
  BY DEF Single
<1>2. v \in 1..MaxVersion + 1 /\ \A d \in OfType(what) : d.version < v
  BY RowVersions, NextVersionAbove DEF OfType
<1>3. v \in 1..MaxVersion
  BY <1>1, <1>2, VersionsBounded
<1>4. path \in Path /\ path.style = "single" /\ path.version = v /\ path.what = what
  BY <1>3 DEF Path, PathOf
<1>5. \A d \in docs : d.path # path
  BY <1>2, <1>3, <1>4 DEF DocInv, DocRows, OfType
<1> HIDE DEF v, path
<1>6. PICK c : Moved(t, c) /\ c = write
  BY <1>1, BecomeMoves, BeginMoves DEF BaseInv
<1>7. /\ Moved(t, c) /\ c.op = op /\ c.at = "write" /\ c.paths = {path} /\ c.version = v
      /\ {"op", "at", "by", "version", "paths"} \subseteq DOMAIN c
  BY <1>6
<1>8. DocCall(c)
  BY <1>4, <1>7 DEF DocCall, SingleCall
<1>9. InHand(c) = {path} /\ Done(c) = {}
  BY <1>7 DEF InHand, Done
<1>10. QED
  BY <1>1, <1>5, <1>7, <1>8, <1>9, TakesPaths

LEMMA DocumentStepInv ==
  ASSUME BaseInv, DocInv, NEW t \in Thread, DocumentStep(t) \/ \E s \in Settings : StartStudio(t, s)
  PROVE  DocInv'
<1> USE DEF BaseInv
<1> DEFINE c == call[t]
<1>1. DocCall(c)
  BY DEF DocInv
<1>2. InHand(Idle) = {} /\ Done(Idle) = {} /\ BrokenOff(Idle) = {} /\ DocCall(Idle)
  BY IdleCall, EmptyHands, OtherCall DEF DocumentOps
<1>3. CASE StartPackage(t)
  <2>1. PICK d : /\ Moved(t, d) /\ c = Idle
                 /\ d = [op |-> "package", at |-> "name", by |-> served + 1, least |-> NextVersion(docs),
                         read |-> {e.path : e \in docs}]
    BY <1>3, BeginMoves DEF StartPackage
  <2>2. NextVersion(docs) \in Nat \ {0} /\ \A e \in docs : e.version < NextVersion(docs)
    BY RowVersions, NextVersionAbove, VersionsBounded
  <2>3. \A p \in d.read : p.version < d.least
    BY <2>1, <2>2 DEF DocInv, DocRows
  <2>4. DocCall(d)
    BY <2>1, <2>2, <2>3 DEF DocCall, PackageCall
  <2>5. InHand(d) = {} /\ Done(d) = {}
    BY <2>1, EmptyHands
  <2>6. QED
    BY <1>2, <1>3, <2>1, <2>4, <2>5, HandsEmpty DEF StartPackage, docVars
<1>4. CASE \E s \in Settings : StartStudio(t, s)
  <2>1. PICK s : Begin(t, [op |-> "studio", at |-> "ask", settings |-> s, left |-> 0, posts |-> 0,
                           by |-> served + 1])
    BY <1>4 DEF StartStudio
  <2>2. PICK d : Moved(t, d) /\ c = Idle
                 /\ d = [op |-> "studio", at |-> "ask", settings |-> s, left |-> 0, posts |-> 0,
                         by |-> served + 1]
    BY <2>1, BeginMoves
  <2>3. DocCall(d) /\ InHand(d) = {} /\ Done(d) = {}
    BY <2>2, EmptyHands DEF DocCall, SingleCall
  <2>4. QED
    BY <1>2, <1>4, <2>2, <2>3, HandsEmpty DEF StartStudio, docVars
<1>5. CASE NamePackage(t)
  <2> DEFINE counted == Cardinality(manifests) + 1
             v == IF counted > c.least THEN counted ELSE c.least
  <2>1. /\ c.op = "package" /\ c.at = "name" /\ v <= MaxVersion
        /\ Become(t, [op |-> "package", at |-> "resume", by |-> c.by, version |-> v,
                      paths |-> PackagePaths(v)])
        /\ TakenBy(t, PackagePaths(v), c.read)
        /\ UNCHANGED <<docs, disk, manifests>>
    BY <1>5 DEF NamePackage, In, PackagePaths
  <2>2. c.least \in Nat \ {0} /\ \A p \in c.read : p.version < c.least
    BY <1>1, <2>1 DEF DocCall, PackageCall
  <2>3. Cardinality(manifests) \in Nat
    <3>1. IsFiniteSet(1..MaxVersion)
      BY VersionsBounded, FS_Interval
    <3>2. manifests \subseteq 1..MaxVersion
      BY DEF DocInv, DocRows
    <3>3. IsFiniteSet(manifests)
      BY <3>1, <3>2, FS_Subset
    <3>4. QED
      BY <3>3, FS_CardinalityType
  <2>4. v \in 1..MaxVersion /\ c.least <= v
    BY <2>1, <2>2, <2>3, VersionsBounded
  <2> HIDE DEF v
  <2>5. PICK d : /\ Moved(t, d)
                 /\ d = [op |-> "package", at |-> "resume", by |-> c.by, version |-> v,
                         paths |-> PackagePaths(v)]
    BY <2>1, BecomeMoves
  <2>6. /\ Moved(t, d) /\ d.op = "package" /\ d.at = "resume" /\ d.version = v /\ d.paths = PackagePaths(v)
        /\ {"op", "at", "by", "version", "paths"} \subseteq DOMAIN d
    BY <2>5
  <2>7. DocCall(d)
    BY <2>4, <2>6 DEF DocCall, PackageCall
  <2>8. InHand(d) = PackagePaths(v) /\ Done(d) = {}
    BY <2>6 DEF InHand, Done
  <2>9. InHand(c) = {} /\ BrokenOff(c) = {}
    BY <2>1, EmptyHands
  <2>10. \A p \in PackagePaths(v) : p.version = v
    BY DEF PackagePaths, PathOf
  <2>11. \A p \in PackagePaths(v) : p \notin c.read
    <3>1. SUFFICES ASSUME NEW p \in PackagePaths(v), p \in c.read PROVE FALSE
      OBVIOUS
    <3>2. p.version = v /\ p.version < c.least
      BY <2>2, <2>10, <3>1
    <3>3. QED
      BY <2>2, <2>4, <3>2, VersionsBounded
  <2>12. QED
    BY <2>1, <2>6, <2>7, <2>8, <2>9, <2>11, TakesPaths
<1>6. CASE WritePackage(t) /\ c.at \in Package
  <2> DEFINE p == PathOf("package", c.at, c.version)
             at == IF c.at = "resume" THEN "cover_letter" ELSE "docx"
  <2>1. /\ c.op = "package" /\ Put(p, c.by) /\ Goto(t, at) /\ UNCHANGED <<docs, manifests, shared>>
    BY <1>6 DEF WritePackage, Package
  <2>2. PackageCall(c) /\ c.at # "name"
    BY <1>1, <1>6, <2>1 DEF DocCall, Package
  <2>3. PICK d : Moved(t, d) /\ d = [c EXCEPT !.at = at]
    BY <2>1, GotoMoves
  <2>4. /\ Moved(t, d) /\ DOMAIN d = DOMAIN c /\ d.op = "package" /\ d.at = at /\ d.by = c.by
        /\ d.version = c.version /\ d.paths = c.paths
    BY <2>1, <2>2, <2>3 DEF PackageCall
  <2>5. DocCall(d)
    BY <2>2, <2>4 DEF DocCall, PackageCall
  <2>6. InHand(c) = PackagePaths(c.version) /\ InHand(d) = InHand(c)
    BY <1>6, <2>1, <2>2, <2>4 DEF InHand, PackageCall, Package
  <2>7. p \in InHand(c)
    BY <1>6, <2>6 DEF PackagePaths
  <2>8. Done(d) \subseteq Done(c) \cup {p}
    BY <1>6, <2>1, <2>2, <2>4 DEF Done, PackageCall, PackagePaths, Package
  <2> HIDE DEF p
  <2>9. QED
    BY <2>1, <2>4, <2>5, <2>6, <2>7, <2>8, Writes
<1>7. CASE Convert(t) \/ (WritePackage(t) /\ c.at \notin Package)
  <2> DEFINE at == IF c.at = "docx" THEN "manifest" ELSE "save"
  <2>1. /\ c.op = "package" /\ c.at \in {"docx", "manifest"} /\ Goto(t, at)
        /\ UNCHANGED <<docs, disk, shared>>
        /\ manifests' = IF c.at = "docx" THEN manifests ELSE manifests \cup {c.version}
    BY <1>7 DEF Convert, WritePackage, In, docVars
  <2>2. PackageCall(c)
    BY <1>1, <2>1 DEF DocCall
  <2>3. PICK d : Moved(t, d) /\ d = [c EXCEPT !.at = at]
    BY <2>1, GotoMoves
  <2>4. /\ Moved(t, d) /\ DOMAIN d = DOMAIN c /\ d.op = "package" /\ d.at = at /\ d.by = c.by
        /\ d.version = c.version /\ d.paths = c.paths
    BY <2>1, <2>2, <2>3 DEF PackageCall
  <2>5. DocCall(d)'
    BY <2>1, <2>2, <2>4 DEF DocCall, PackageCall
  <2>6. InHand(d) = InHand(c) /\ Done(d) = Done(c)
    BY <2>1, <2>4 DEF InHand, Done
  <2>7. manifests \subseteq manifests' /\ manifests' \subseteq 1..MaxVersion
    BY <2>1, <2>2 DEF PackageCall, DocInv, DocRows
  <2>8. QED
    BY <2>1, <2>4, <2>5, <2>6, <2>7, PackageMoves
<1>8. CASE NameStudio(t)
  <2>1. /\ c.op = "studio" /\ c.at = "answered" /\ Single(t, "studio", Helper, c.by)
        /\ UNCHANGED <<docs, disk, manifests>>
    BY <1>8 DEF NameStudio, In
  <2>2. InHand(c) = {} /\ BrokenOff(c) = {}
    BY <2>1, EmptyHands
  <2>3. QED
    BY <2>1, <2>2, TakesSingle
<1>9. CASE StartEdit(t)
  <2>1. PICK d \in docs : Single(t, "edit", d.what, served + 1)
    BY <1>9 DEF StartEdit
  <2>2. UNCHANGED <<docs, disk, manifests>>
    BY <1>9 DEF StartEdit
  <2>3. c = Idle
    BY <2>1 DEF Single, Begin
  <2>4. d.what \in Package \cup {Helper}
    BY DEF DocInv, DocRows, Path
  <2>5. QED
    BY <1>2, <2>1, <2>2, <2>3, <2>4, TakesSingle
<1>10. CASE WriteSingle(t)
  <2>1. /\ c.op \in {"studio", "edit"} /\ c.at = "write" /\ Goto(t, "save")
        /\ UNCHANGED <<docs, manifests, shared>>
    BY <1>10 DEF WriteSingle
  <2>2. PICK p \in c.paths : Put(p, c.by)
    BY <1>10 DEF WriteSingle
  <2>3. SingleCall(c)
    BY <1>1, <2>1 DEF DocCall
  <2>4. PICK d : Moved(t, d) /\ d = [c EXCEPT !.at = "save"]
    BY <2>1, GotoMoves
  <2>5. /\ Moved(t, d) /\ DOMAIN d = DOMAIN c /\ d.op = c.op /\ d.at = "save" /\ d.by = c.by
        /\ d.version = c.version /\ d.paths = c.paths
    BY <2>1, <2>3, <2>4 DEF SingleCall
  <2>6. DocCall(d)
    BY <2>1, <2>3, <2>5 DEF DocCall, SingleCall
  <2>7. InHand(d) = c.paths /\ InHand(c) = c.paths /\ Done(d) = c.paths
    BY <2>1, <2>5 DEF InHand, Done
  <2>8. c.paths = {p}
    BY <2>1, <2>2, <2>3 DEF SingleCall
  <2>9. QED
    BY <2>1, <2>2, <2>5, <2>6, <2>7, <2>8, Writes
<1>11. CASE StartRemove(t)
  <2>1. PICK row \in docs :
          /\ Begin(t, [op |-> "remove", at |-> "unlink", row |-> row, paths |-> {row.path}])
          /\ TakenBy(t, {row.path}, {row.path})
    BY <1>11 DEF StartRemove
  <2>2. UNCHANGED <<docs, disk, manifests>>
    BY <1>11 DEF StartRemove
  <2>3. PICK d : /\ Moved(t, d) /\ c = Idle
                 /\ d = [op |-> "remove", at |-> "unlink", row |-> row, paths |-> {row.path}]
    BY <2>1, BeginMoves
  <2>4. DocCall(d) /\ InHand(d) = {row.path} /\ Done(d) = {}
    BY <2>3 DEF DocCall, RemoveCall, InHand, Done
  <2>5. \A e \in docs : e.path = row.path => e = row
    BY DEF DocInv, DocRows
  <2>6. d.op = "remove" /\ d.row = row /\ Moved(t, d) /\ c = Idle
    BY <2>3
  <2>7. QED
    BY <1>2, <2>1, <2>2, <2>4, <2>5, <2>6, TakesPaths
<1>12. CASE DocumentFails(t)
  BY <1>2, <1>12, EndMoves, HandsEmpty DEF DocumentFails
<1>13. QED
  BY <1>3, <1>4, <1>5, <1>6, <1>7, <1>8, <1>9, <1>10, <1>11, <1>12, Saves, Unlinks, Removes
  DEF DocumentStep

\* Calls of others, and requests to the model, leave hands as they are.
LEMMA HandsStay ==
  ASSUME BaseInv, DocInv, UNCHANGED docVars, Keeps(DocumentOps) \/ Asks
  PROVE  DocInv'
<1>1. ASSUME NEW t \in Thread
      PROVE  \/ call'[t] = call[t]
             \/ /\ InHand(call[t]) = {} /\ InHand(call'[t]) = {} /\ Done(call[t]) = {} /\ Done(call'[t]) = {}
                /\ BrokenOff(call[t]) = {} /\ BrokenOff(call'[t]) = {} /\ DocCall(call'[t])
  <2>1. CASE Keeps(DocumentOps)
    <3>1. call'[t] = call[t] \/ (call[t].op \notin DocumentOps /\ call'[t].op \notin DocumentOps)
      BY <2>1 DEF Keeps
    <3>2. QED
      BY <3>1, EmptyHands, OtherCall
  <2>2. CASE Asks
    <3>1. DocCall(call[t]) /\ {"op", "at"} \subseteq DOMAIN call[t]
          /\ (call[t].at \in Asking => call[t].op \in Askers)
      BY DEF DocInv, BaseInv, CallsOK
    <3>2. SUFFICES ASSUME call'[t] # call[t]
                   PROVE  /\ InHand(call[t]) = {} /\ InHand(call'[t]) = {}
                          /\ Done(call[t]) = {} /\ Done(call'[t]) = {}
                          /\ BrokenOff(call[t]) = {} /\ BrokenOff(call'[t]) = {} /\ DocCall(call'[t])
      OBVIOUS
    <3>3. call[t].op \notin DocumentOps \/ call[t].at \in {"name", "ask", "post", "answered"}
      BY <2>2, <3>2, IdleCall DEF Asks, Asking, DocumentOps
    <3>4. \/ call'[t].op \notin DocumentOps
          \/ /\ call'[t].at \in {"ask", "post", "answered"} /\ call'[t].op = call[t].op
             /\ DOMAIN call'[t] = DOMAIN call[t] /\ call[t].at \in Asking
      BY <2>2, <3>2, IdleCall DEF Asks, Asking, DocumentOps, ModelOps
    <3>5. CASE call'[t].op \notin DocumentOps
      BY <3>3, <3>5, EmptyHands, OtherCall
    <3>6. CASE /\ call'[t].at \in {"ask", "post", "answered"} /\ call'[t].op = call[t].op
               /\ DOMAIN call'[t] = DOMAIN call[t] /\ call[t].at \in Asking
      <4>1. DocCall(call'[t])
        <5>1. CASE call'[t].op = "studio"
          BY <3>1, <3>6, <5>1 DEF DocCall, SingleCall
        <5>2. CASE call'[t].op # "studio"
          BY <3>1, <3>6, <5>2 DEF DocCall, Askers, ModelOps
        <5>3. QED
          BY <5>1, <5>2
      <4>2. QED
        BY <3>3, <3>6, <4>1, EmptyHands
    <3>7. QED
      BY <3>4, <3>5, <3>6
  <2>3. QED
    BY <2>1, <2>2
<1>2. UNCHANGED <<docs, disk, manifests, shared>>
  BY DEF docVars
<1>3. \A x : /\ InHand(x)' = InHand(x) /\ Done(x)' = Done(x) /\ BrokenOff(x)' = BrokenOff(x)
             /\ DocCall(x)' <=> DocCall(x)
  BY <1>2 DEF DocCall, PackageCall, SingleCall, RemoveCall
<1>4. DocRows' /\ PairInv'
  BY <1>1, <1>2, <1>3 DEF DocInv, DocRows, PairInv
<1>5. HeldRows' /\ WrittenInv'
  BY <1>1, <1>2, <1>3 DEF DocInv, HeldRows, WrittenInv
<1>6. FilesMatchRows'
  <2>1. UNION {BrokenOff(call[u]) : u \in Thread} \subseteq UNION {BrokenOff(call'[u]) : u \in Thread}
    BY <1>1
  <2>2. QED
    BY <1>2, <2>1 DEF DocInv, FilesMatchRows
<1>7. \A t \in Thread : DocCall(call[t])'
  <2>1. SUFFICES ASSUME NEW t \in Thread PROVE DocCall(call[t])'
    OBVIOUS
  <2>2. DocCall(call'[t])
    BY <1>1 DEF DocInv
  <2>3. QED
    BY <1>2, <2>2 DEF DocCall, PackageCall, SingleCall, RemoveCall
<1>8. QED
  BY <1>4, <1>5, <1>6, <1>7 DEF DocInv

\* A kill leaves no hands; a deletion it broke off is accounted for.
LEMMA HandsCrash ==
  ASSUME DocInv, Crash
  PROVE  DocInv'
<1>1. /\ UNCHANGED <<docs, disk, manifests>>
      /\ shared' = shared \cup UNION {BrokenOff(call[t]) : t \in Thread}
      /\ \A t \in Thread : call'[t] = Idle
  BY DEF Crash
<1>2. InHand(Idle) = {} /\ Done(Idle) = {} /\ BrokenOff(Idle) = {} /\ DocCall(Idle)
  BY IdleCall, EmptyHands, OtherCall DEF DocumentOps
<1>3. \A x : InHand(x)' = InHand(x) /\ Done(x)' = Done(x) /\ BrokenOff(x)' = BrokenOff(x)
  OBVIOUS
<1>4. DocRows' /\ PairInv' /\ HeldRows' /\ WrittenInv'
  BY <1>1, <1>2, <1>3 DEF DocInv, DocRows, PairInv, HeldRows, WrittenInv
<1>5. FilesMatchRows'
  BY <1>1 DEF DocInv, FilesMatchRows
<1>6. \A t \in Thread : DocCall(call[t])'
  BY <1>1, IdleCall DEF DocCall
<1>7. QED
  BY <1>4, <1>5, <1>6 DEF DocInv

LEMMA DocNextInv == BaseInv /\ DocInv /\ [Next]_vars => DocInv'
BY Frames, DocumentStepInv, HandsStay, HandsCrash

LEMMA DocInitInv == Init => DocInv
<1> SUFFICES ASSUME Init PROVE DocInv
  OBVIOUS
<1>1. docs = {} /\ manifests = {}
  BY DEF Init, DocsInit
<1>2. \A t \in Thread : call[t] = Idle
  BY DEF Init, ThreadsInit
<1>3. InHand(Idle) = {} /\ Done(Idle) = {} /\ DocCall(Idle)
  BY IdleCall, EmptyHands, OtherCall DEF DocumentOps
<1>4. QED
  BY <1>1, <1>2, <1>3 DEF DocInv, DocRows, PairInv, HeldRows, WrittenInv, FilesMatchRows

\* Whatever fails or overlaps, the file a row names holds what the call of that row
\* has written, and a package has its manifest: unless two calls that overlapped
\* chose the same path, or a deletion is or broke off between file and row.
THEOREM FilesTheorem == Spec => []FilesMatchRows
<1>1. Init => BaseInv
  BY BaseInit
<1>2. Init => DocInv
  BY DocInitInv
<1>3. BaseInv /\ [Next]_vars => BaseInv'
  BY Frames
<1>4. DocInv => FilesMatchRows
  BY DEF DocInv
<1>5. QED
  BY <1>1, <1>2, <1>3, <1>4, DocNextInv, PTL DEF Spec

--------------------------------------------------------------------------------
(* Types.  What is left of TypeOK are the counters, the files of the       *)
(* context, the paths of files and shared paths, and the clock and cache   *)
(* of the web client: each by an invariant of its own, about what calls    *)
(* carry to the step that stores it.                                       *)

Counted == work' = work /\ (served' = served \/ (served < work.calls /\ served' = served + 1))

LEMMA CallsCounted ==
  ASSUME NEW t \in Thread, NEW c, NEW at, Begin(t, c) \/ Become(t, c) \/ Goto(t, at) \/ End(t)
  PROVE  Counted
BY DEF Begin, Become, Goto, End, Counted

\* A call counts when it begins.
LEMMA NextCounted == [Next]_vars => Counted
<1> SUFFICES ASSUME [Next]_vars PROVE Counted
  OBVIOUS
<1>1. CASE UNCHANGED vars
  BY <1>1 DEF vars, threads, Counted
<1>2. CASE Resumes
  BY <1>2, CallsCounted DEF Resumes, ResumeStep, ImportResume, EditResume, ReadResume, CommitResume
<1>3. CASE Documents
  <2>1. ASSUME NEW t \in Thread, NEW op, NEW what, NEW by, Single(t, op, what, by)
        PROVE  Counted
    BY <2>1, CallsCounted DEF Single
  <2>2. PICK t \in Thread : DocumentStep(t) \/ \E s \in Settings : StartStudio(t, s)
    BY <1>3 DEF Documents
  <2>3. CASE \/ StartPackage(t) \/ NamePackage(t) \/ WritePackage(t) \/ Convert(t)
             \/ \E s \in Settings : StartStudio(t, s)
    BY <2>3, CallsCounted DEF StartPackage, NamePackage, WritePackage, Convert, StartStudio
  <2>4. CASE NameStudio(t) \/ StartEdit(t)
    BY <2>1, <2>4 DEF NameStudio, StartEdit
  <2>5. CASE \/ WriteSingle(t) \/ SaveRows(t) \/ StartRemove(t) \/ Unlink(t) \/ RemoveRow(t)
             \/ DocumentFails(t)
    BY <2>5, CallsCounted DEF WriteSingle, SaveRows, StartRemove, Unlink, RemoveRow, DocumentFails
  <2>6. QED
    BY <2>2, <2>3, <2>4, <2>5 DEF DocumentStep
<1>4. CASE Applications
  BY <1>4, CallsCounted DEF Applications, PipelineStep, ReadStatus, SaveStatus
<1>5. CASE Research
  <2>1. ASSUME NEW t \in Thread, Proceed(t) \/ Conflicted(t)
        PROVE  Counted
    BY <2>1, CallsCounted DEF Proceed, Conflicted
  <2>2. CASE \E b \in Batch : Drop(b)
    BY <2>2 DEF Drop, threads, Counted
  <2>3. CASE \E t \in Thread : InboxStep(t)
    BY <2>1, <2>3, CallsCounted
    DEF InboxStep, TakeBatch, Discover, SaveSuggestions, WriteReceipt, MoveBatch, BridgeFails,
        ReadProposal, DecideProposal
  <2>4. QED
    BY <1>5, <2>2, <2>3 DEF Research
<1>6. CASE Memory
  BY <1>6, CallsCounted
  DEF Memory, MemoryStep, ReadAnswers, SaveAnswers, Dispose, Publish, WriteContext, RefreshIndex,
      WriteMemory, MemoryFails
<1>7. CASE Ollama
  BY <1>7, CallsCounted
  DEF Ollama, OllamaStep, StartChat, StartReview, TakePermit, PostAgain, PostEnds
<1>8. CASE Web
  <2>1. CASE Tick \/ \E h \in Host : Renumber(h)
    BY <2>1 DEF Tick, Renumber, threads, Counted
  <2>2. CASE \E t \in Thread : HttpStep(t)
    BY <2>2, CallsCounted
    DEF HttpStep, StartGet, ClearCache, Validate, EnterSlot, LeaveSlot, SendAgain, Redirected, Answered
  <2>3. QED
    BY <1>8, <2>1, <2>2 DEF Web
<1>9. CASE Crash
  BY <1>9 DEF Crash, Counted
<1>10. QED
  BY <1>1, <1>2, <1>3, <1>4, <1>5, <1>6, <1>7, <1>8, <1>9 DEF Next

LEMMA NextCrashes == [Next]_vars => crashes' = crashes \/ (crashes < MaxCrashes /\ crashes' = crashes + 1)
BY DEF Next, vars, Resumes, Documents, Applications, Research, Memory, Ollama, Web, Crash

CountsOK == work \in Workload /\ served \in 0..work.calls /\ crashes \in 0..MaxCrashes

LEMMA CountsNext == CountsOK /\ [Next]_vars => CountsOK'
<1> SUFFICES ASSUME CountsOK, [Next]_vars PROVE CountsOK'
  OBVIOUS
<1>1. work' = work /\ work \in Workload /\ work.calls \in Nat
  BY NextCounted, WorkloadOK DEF CountsOK, Counted
<1>2. served' \in 0..work.calls
  BY <1>1, NextCounted DEF CountsOK, Counted
<1>3. crashes' \in 0..MaxCrashes
  BY NextCrashes, CrashesBounded DEF CountsOK
<1>4. QED
  BY <1>1, <1>2, <1>3 DEF CountsOK

LEMMA CountsInit == Init => CountsOK
BY WorkloadOK, CrashesBounded DEF Init, ThreadsInit, CountsOK

--------------------------------------------------------------------------------
Said == Disposition \cup {"none"}
ContextFiles == [feedback : Said, learned : [signal : Said, answers : AnswerRow]]

\* The context a cycle of the bridge writes, or embeds.
ContextCall(c) == c.op \in {"publish", "index"} => "content" \in DOMAIN c /\ c.content \in ContextFiles

ContextTypes ==
  /\ lost \subseteq Question /\ disposition \in Disposition
  /\ torn \in BOOLEAN /\ published \in BOOLEAN
  /\ files \in ContextFiles /\ index \in ContextFiles /\ meta \in ContextFiles
  /\ indexed \subseteq ContextFiles
  /\ \A t \in Thread : ContextCall(call[t])

LEMMA ContextMoves ==
  ASSUME ContextTypes, NEW t \in Thread, NEW c, Moved(t, c), ContextCall(c)
  PROVE  \A u \in Thread : ContextCall(call'[u])
BY DEF ContextTypes, Moved

LEMMA LearnedFiles ==
  ASSUME answers \in AnswerRow, disposition \in Disposition
  PROVE  Learned \in [signal : Said, answers : AnswerRow] /\ disposition \in Said
BY DEF Learned, Said

LEMMA ContextStep ==
  ASSUME BaseInv, MemoryInv, ContextTypes, NEW t \in Thread, MemoryStep(t)
  PROVE  ContextTypes'
<1> DEFINE c == call[t]
<1>1. CallsOK
  BY DEF BaseInv
<1>2. ContextCall(Idle)
  BY IdleCall DEF ContextCall
<1>3. ContextCall(c) /\ MemoryCall(c) /\ answers \in AnswerRow /\ disposition \in Disposition
  BY DEF ContextTypes, MemoryInv
\* A call goes on with the context it has.
<1>4. ASSUME NEW at, Goto(t, at)
      PROVE  \A u \in Thread : ContextCall(call'[u])
  <2>1. /\ Moved(t, [c EXCEPT !.at = at]) /\ call'[t] = [c EXCEPT !.at = at]
        /\ call'[t].op = c.op /\ DOMAIN call'[t] = DOMAIN c
        /\ \A f \in DOMAIN c \ {"at"} : call'[t][f] = c[f]
    BY <1>1, <1>4, GotoMoves DEF Moved
  <2>2. ContextCall(call'[t])
    BY <1>3, <2>1 DEF ContextCall
  <2>3. QED
    BY <2>1, <2>2, ContextMoves
<1>5. End(t) => \A u \in Thread : ContextCall(call'[u])
  BY <1>1, <1>2, EndMoves, ContextMoves
<1>6. Begin(t, Idle) => \A u \in Thread : ContextCall(call'[u])
  BY <1>1, <1>2, BeginMoves, ContextMoves
<1>7. CASE ReadAnswers(t)
  <2>1. PICK q \in Question, a \in Answer :
          Begin(t, [op |-> "answer", at |-> "save", question |-> q, answer |-> a, read |-> answers])
    BY <1>7 DEF ReadAnswers
  <2>2. \A u \in Thread : ContextCall(call'[u])
    BY <1>1, <2>1, BeginMoves, ContextMoves DEF ContextCall
  <2>3. QED
    BY <1>7, <2>2 DEF ReadAnswers, memoryVars, ContextTypes
<1>8. CASE SaveAnswers(t)
  <2>1. /\ UNCHANGED <<disposition, files, published, index, meta, indexed, torn>> /\ End(t)
        /\ lost' \subseteq lost \cup Question
    BY <1>8 DEF SaveAnswers
  <2>2. QED
    BY <1>5, <2>1 DEF ContextTypes
<1>9. CASE Dispose(t)
  BY <1>6, <1>9 DEF Dispose, ContextTypes
<1>10. CASE Publish(t)
  <2>1. PICK d : /\ d = [op |-> "publish", at |-> "feedback",
                         content |-> [feedback |-> disposition, learned |-> Learned]]
                 /\ Begin(t, d)
    BY <1>10 DEF Publish
  <2>2. d.content \in ContextFiles
    BY <1>3, <2>1, LearnedFiles DEF ContextFiles
  <2>3. ContextCall(d)
    BY <2>1, <2>2 DEF ContextCall
  <2>4. \A u \in Thread : ContextCall(call'[u])
    BY <1>1, <2>1, <2>3, BeginMoves, ContextMoves
  <2>5. QED
    BY <1>10, <2>4 DEF Publish, ContextTypes
<1>11. CASE WriteContext(t)
  <2>1. c.op = "publish" /\ UNCHANGED <<lost, disposition, index, meta, indexed, torn>>
    BY <1>11 DEF WriteContext
  <2>2. c.content \in ContextFiles /\ files \in ContextFiles
    BY <1>3, <2>1 DEF ContextCall, ContextTypes
  <2>3. [files EXCEPT !.feedback = c.content.feedback] \in ContextFiles
    BY <2>2 DEF ContextFiles
  <2>4. [files EXCEPT !.learned = c.content.learned] \in ContextFiles
    BY <2>2 DEF ContextFiles
  <2>5. files' \in ContextFiles /\ (published' = published \/ published' = TRUE)
    BY <1>11, <2>3, <2>4 DEF WriteContext
  <2>6. \A u \in Thread : ContextCall(call'[u])
    BY <1>4, <1>5, <1>11 DEF WriteContext
  <2>7. QED
    BY <2>1, <2>5, <2>6 DEF ContextTypes
<1>12. CASE RefreshIndex(t)
  <2>1. \A u \in Thread : ContextCall(call'[u])
    <3>1. CASE Begin(t, Idle)
      BY <1>6, <3>1
    <3>2. CASE ~Begin(t, Idle)
      <4>1. PICK at : Begin(t, [op |-> "index", at |-> at, content |-> files,
                                settings |-> BridgeSettings, left |-> 0, posts |-> 0])
        BY <1>12, <3>2 DEF RefreshIndex
      <4>2. ContextCall([op |-> "index", at |-> at, content |-> files,
                         settings |-> BridgeSettings, left |-> 0, posts |-> 0])
        BY DEF ContextCall, ContextTypes
      <4>3. QED
        BY <1>1, <4>1, <4>2, BeginMoves, ContextMoves
    <3>3. QED
      BY <3>1, <3>2
  <2>2. QED
    BY <1>12, <2>1 DEF RefreshIndex, ContextTypes
<1>13. CASE WriteMemory(t)
  <2>1. c.op = "index" /\ UNCHANGED <<lost, disposition, files, published>>
    BY <1>13 DEF WriteMemory
  <2>2. c.content \in ContextFiles
    BY <1>3, <2>1 DEF ContextCall
  <2>3. /\ index' \in ContextFiles /\ meta' \in ContextFiles /\ indexed' \subseteq ContextFiles
        /\ (torn' = torn \/ torn' = FALSE)
    BY <1>13, <2>2 DEF WriteMemory, ContextTypes
  <2>4. \A u \in Thread : ContextCall(call'[u])
    BY <1>4, <1>5, <1>13 DEF WriteMemory
  <2>5. QED
    BY <2>1, <2>3, <2>4 DEF ContextTypes
<1>14. CASE MemoryFails(t)
  <2>1. UNCHANGED <<lost, disposition, files, published, index, meta, indexed>> /\ End(t)
    BY <1>14 DEF MemoryFails
  <2>2. torn' = torn \/ torn' = TRUE
    BY <1>14, Zenon DEF MemoryFails, ContextTypes
  <2>3. QED
    BY <1>5, <2>1, <2>2 DEF ContextTypes
<1>15. QED
  BY <1>7, <1>8, <1>9, <1>10, <1>11, <1>12, <1>13, <1>14 DEF MemoryStep

LEMMA ContextNext == BaseInv /\ MemoryInv /\ ContextTypes /\ [Next]_vars => ContextTypes'
<1> SUFFICES ASSUME BaseInv, MemoryInv, ContextTypes, [Next]_vars
             PROVE  ContextTypes'
  OBVIOUS
<1>1. CASE \E t \in Thread : MemoryStep(t)
  BY <1>1, ContextStep
<1>2. CASE UNCHANGED memoryVars /\ (Keeps(MemoryOps) \/ Asks)
  <2>1. ASSUME NEW t \in Thread, call'[t].op \in {"publish", "index"}
        PROVE  /\ call[t].op = call'[t].op /\ DOMAIN call'[t] = DOMAIN call[t]
               /\ "content" \in DOMAIN call[t] => call'[t].content = call[t].content
    <3>1. CASE Keeps(MemoryOps)
      BY <2>1, <3>1 DEF Keeps, MemoryOps
    <3>2. CASE Asks
      BY <2>1, <3>2, IdleCall DEF Asks, ModelOps
    <3>3. QED
      BY <1>2, <3>1, <3>2
  <2>2. \A t \in Thread : ContextCall(call'[t])
    BY <2>1 DEF ContextTypes, ContextCall
  <2>3. QED
    BY <1>2, <2>2 DEF ContextTypes, memoryVars
<1>3. CASE Crash
  <2>1. \A t \in Thread : ContextCall(call'[t])
    BY <1>3, CrashIdle, IdleCall DEF ContextCall
  <2>2. torn' = torn \/ torn' = TRUE
    BY <1>3, Zenon DEF Crash, ContextTypes
  <2>3. /\ UNCHANGED <<lost, disposition, files, index, meta, indexed>>
        /\ published' = FALSE
    BY <1>3 DEF Crash
  <2>4. QED
    BY <2>1, <2>2, <2>3 DEF ContextTypes
<1>4. QED
  BY <1>1, <1>2, <1>3, Frames

LEMMA ContextInit == Init => ContextTypes
<1> SUFFICES ASSUME Init PROVE ContextTypes
  OBVIOUS
<1>1. Unanswered \in AnswerRow
  BY DEF Unanswered, AnswerRow
<1>2. NoFiles \in ContextFiles
  BY <1>1 DEF NoFiles, ContextFiles, Said
<1>3. \A t \in Thread : ContextCall(call[t])
  BY IdleCall DEF Init, ThreadsInit, ContextCall
<1>4. QED
  BY <1>2, <1>3 DEF Init, MemoryInit, ContextTypes, Disposition

--------------------------------------------------------------------------------
\* A request for a page carries the host it first asked.
FirstCall(c) == c.op = "get" => "first" \in DOMAIN c /\ c.first \in Host

WebTypes ==
  /\ clock \in 0..MaxClock /\ cached \subseteq Host
  /\ \A h \in DOMAIN last : last[h] \in 0..clock
  /\ \A t \in Thread : FirstCall(call[t])

AddressTypes == public \subseteq Host /\ moves \in 0..MaxMoves /\ moved \subseteq Thread

LEMMA FirstMoves ==
  ASSUME WebTypes, NEW t \in Thread, NEW c, Moved(t, c), FirstCall(c)
  PROVE  \A u \in Thread : FirstCall(call'[u])
BY DEF WebTypes, Moved

LEMMA WebStep ==
  ASSUME BaseInv, HttpInv, WebTypes, NEW t \in Thread, HttpStep(t)
  PROVE  WebTypes'
<1> DEFINE c == call[t]
<1>1. CallsOK
  BY DEF BaseInv
<1>2. FirstCall(Idle)
  BY IdleCall DEF FirstCall
<1>3. FirstCall(c) /\ GetCall(c) /\ clock \in 0..MaxClock /\ MaxClock \in Nat
  BY HostsOK DEF WebTypes, HttpInv
<1>4. ASSUME NEW at, Goto(t, at)
      PROVE  \A u \in Thread : FirstCall(call'[u])
  <2>1. /\ Moved(t, [c EXCEPT !.at = at]) /\ call'[t] = [c EXCEPT !.at = at]
        /\ call'[t].op = c.op /\ DOMAIN call'[t] = DOMAIN c
        /\ \A f \in DOMAIN c \ {"at"} : call'[t][f] = c[f]
    BY <1>1, <1>4, GotoMoves DEF Moved
  <2>2. FirstCall(call'[t])
    BY <1>3, <2>1 DEF FirstCall
  <2>3. QED
    BY <2>1, <2>2, FirstMoves
<1>5. End(t) => \A u \in Thread : FirstCall(call'[u])
  BY <1>1, <1>2, EndMoves, FirstMoves
<1>6. Begin(t, Idle) => \A u \in Thread : FirstCall(call'[u])
  BY <1>1, <1>2, BeginMoves, FirstMoves
\* A request that goes on keeps it.
<1>7. ASSUME NEW d, Become(t, d), d.op = c.op, DOMAIN d = DOMAIN c, "first" \in DOMAIN c => d.first = c.first
      PROVE  \A u \in Thread : FirstCall(call'[u])
  <2>1. FirstCall(d)
    BY <1>3, <1>7 DEF FirstCall
  <2>2. QED
    BY <1>1, <1>7, <2>1, BecomeMoves, FirstMoves
<1>8. CASE StartGet(t)
  <2>1. \A u \in Thread : FirstCall(call'[u])
    <3>1. CASE Begin(t, Idle)
      BY <1>6, <3>1
    <3>2. CASE ~Begin(t, Idle)
      <4>1. PICK h \in Host, allowed \in Allowed, spacing \in Distances :
              Begin(t, [op |-> "get", at |-> "validate", first |-> h, host |-> h, allowed |-> allowed,
                        spacing |-> spacing, redirects |-> 0, tries |-> 0, until |-> 0])
        BY <1>8, <3>2 DEF StartGet
      <4>2. QED
        BY <1>1, <4>1, BeginMoves, FirstMoves DEF FirstCall
    <3>3. QED
      BY <3>1, <3>2
  <2>2. QED
    BY <1>8, <2>1 DEF StartGet, httpVars, WebTypes
<1>9. CASE ClearCache(t)
  BY <1>6, <1>9 DEF ClearCache, WebTypes
<1>10. CASE Validate(t)
  BY <1>4, <1>5, <1>10 DEF Validate, httpVars, WebTypes
<1>11. CASE EnterSlot(t)
  <2>1. PICK until : Become(t, [c EXCEPT !.at = "sleep", !.until = until])
    BY <1>11 DEF EnterSlot
  <2>2. \A u \in Thread : FirstCall(call'[u])
    <3>1. PICK d : Become(t, d) /\ d = [c EXCEPT !.at = "sleep", !.until = until]
      BY <2>1
    <3>2. d.op = c.op /\ DOMAIN d = DOMAIN c /\ ("first" \in DOMAIN c => d.first = c.first)
      BY <3>1, <1>1 DEF CallsOK
    <3>3. QED
      BY <1>7, <3>1, <3>2
  <2>3. QED
    BY <1>11, <2>2 DEF EnterSlot, WebTypes
<1>12. CASE LeaveSlot(t)
  <2>1. Become(t, [c EXCEPT !.at = "send", !.until = 0])
        /\ last' = [g \in DOMAIN last \cup {c.host} |-> IF g = c.host THEN clock ELSE last[g]]
        /\ UNCHANGED <<clock, cached>>
    BY <1>12 DEF LeaveSlot
  <2>2. \A u \in Thread : FirstCall(call'[u])
    <3>1. PICK d : Become(t, d) /\ d = [c EXCEPT !.at = "send", !.until = 0]
      BY <2>1
    <3>2. d.op = c.op /\ DOMAIN d = DOMAIN c /\ ("first" \in DOMAIN c => d.first = c.first)
      BY <3>1, <1>1 DEF CallsOK
    <3>3. QED
      BY <1>7, <3>1, <3>2
  <2>3. \A g \in DOMAIN last' : last'[g] \in 0..clock'
    BY <1>3, <2>1 DEF WebTypes
  <2>4. QED
    BY <2>1, <2>2, <2>3 DEF WebTypes
<1>13. CASE SendAgain(t)
  <2>1. PICK tries : Become(t, [c EXCEPT !.tries = tries])
    BY <1>13 DEF SendAgain
  <2>2. \A u \in Thread : FirstCall(call'[u])
    <3>1. PICK d : Become(t, d) /\ d = [c EXCEPT !.tries = tries]
      BY <2>1
    <3>2. d.op = c.op /\ DOMAIN d = DOMAIN c /\ ("first" \in DOMAIN c => d.first = c.first)
      BY <3>1, <1>1 DEF CallsOK
    <3>3. QED
      BY <1>7, <3>1, <3>2
  <2>3. QED
    BY <1>13, <2>2 DEF SendAgain, httpVars, WebTypes
<1>14. CASE Redirected(t)
  <2>1. \A u \in Thread : FirstCall(call'[u])
    <3>1. CASE End(t)
      BY <1>5, <3>1
    <3>2. CASE ~End(t)
      <4>1. PICK h, n : Become(t, [c EXCEPT !.host = h, !.redirects = n, !.tries = 0, !.at = "validate"])
        BY <1>14, <3>2 DEF Redirected
      <4>2. PICK d : Become(t, d)
                     /\ d = [c EXCEPT !.host = h, !.redirects = n, !.tries = 0, !.at = "validate"]
        BY <4>1
      <4>3. d.op = c.op /\ DOMAIN d = DOMAIN c /\ ("first" \in DOMAIN c => d.first = c.first)
        BY <4>2, <1>1 DEF CallsOK
      <4>4. QED
        BY <1>7, <4>2, <4>3
    <3>3. QED
      BY <3>1, <3>2
  <2>2. QED
    BY <1>14, <2>1 DEF Redirected, httpVars, WebTypes
<1>15. CASE Answered(t)
  <2>1. c.op = "get" /\ End(t) /\ cached' \subseteq cached \cup {c.first} /\ UNCHANGED <<clock, last>>
    BY <1>15 DEF Answered, In, Kept
  <2>2. c.first \in Host
    BY <1>3, <2>1 DEF FirstCall
  <2>3. QED
    BY <1>5, <2>1, <2>2 DEF WebTypes
<1>16. QED
  BY <1>8, <1>9, <1>10, <1>11, <1>12, <1>13, <1>14, <1>15 DEF HttpStep

LEMMA WebNext == BaseInv /\ HttpInv /\ WebTypes /\ [Next]_vars => WebTypes'
<1> SUFFICES ASSUME BaseInv, HttpInv, WebTypes, [Next]_vars
             PROVE  WebTypes'
  OBVIOUS
<1>1. CASE \E t \in Thread : HttpStep(t)
  BY <1>1, WebStep
<1>2. CASE Tick
  <2>1. clock < MaxClock /\ clock' = clock + 1 /\ UNCHANGED <<call, last, cached>>
    BY <1>2 DEF Tick, threads
  <2>2. QED
    BY <2>1, HostsOK DEF WebTypes
<1>3. CASE UNCHANGED httpVars /\ Keeps(GetOps)
  BY <1>3 DEF httpVars, Keeps, GetOps, WebTypes, FirstCall
<1>4. CASE Crash
  <2>1. UNCHANGED <<clock, cached>> /\ last' = [h \in {} |-> 0]
    BY <1>4 DEF Crash
  <2>2. \A t \in Thread : FirstCall(call'[t])
    BY <1>4, CrashIdle, IdleCall DEF FirstCall
  <2>3. QED
    BY <2>1, <2>2 DEF WebTypes
<1>5. CASE \E h \in Host : Renumber(h)
  BY <1>5 DEF Renumber, threads, WebTypes
<1>6. QED
  BY <1>1, <1>2, <1>3, <1>4, <1>5, Frames

LEMMA AddressNext == BaseInv /\ AddressTypes /\ [Next]_vars => AddressTypes'
<1> SUFFICES ASSUME BaseInv, AddressTypes, [Next]_vars
             PROVE  AddressTypes'
  OBVIOUS
<1>1. CASE \E t \in Thread : HttpStep(t)
  <2>1. PICK t \in Thread : HttpStep(t)
    BY <1>1
  <2>2. UNCHANGED <<public, moves>> /\ (moved' = moved \/ moved' = moved \ {t})
    BY <2>1 DEF HttpStep, StartGet, ClearCache, Validate, EnterSlot, LeaveSlot, SendAgain, Redirected,
                Answered, httpVars, addresses
  <2>3. QED
    BY <2>2 DEF AddressTypes
<1>2. CASE Tick \/ UNCHANGED httpVars \/ Crash
  BY <1>2 DEF Tick, httpVars, addresses, Crash, AddressTypes
<1>3. CASE \E h \in Host : Renumber(h)
  BY <1>3, HostsOK DEF Renumber, AddressTypes
<1>4. QED
  BY <1>1, <1>2, <1>3, Frames

LEMMA WebInit == Init => WebTypes /\ AddressTypes
<1> SUFFICES ASSUME Init PROVE WebTypes /\ AddressTypes
  OBVIOUS
<1>1. /\ clock = 0 /\ last = [h \in {} |-> 0] /\ cached = {}
      /\ public = Public /\ moves = 0 /\ moved = {}
  BY DEF Init, HttpInit
<1>2. \A t \in Thread : FirstCall(call[t])
  BY IdleCall DEF Init, ThreadsInit, FirstCall
<1>3. QED
  BY <1>1, <1>2, HostsOK DEF WebTypes, AddressTypes

--------------------------------------------------------------------------------
RemovesPath(c) == c.op = "remove" => c.paths \subseteq Path

PathTypes ==
  /\ DOMAIN disk \subseteq Path /\ shared \subseteq Path
  /\ \A t \in Thread : RemovesPath(call[t])

\* Whatever a call has in hand, before or after a step, is a path of a document.
LEMMA HandPaths ==
  ASSUME NEW c, DocCall(c) \/ DocCall(c)', RemovesPath(c)
  PROVE  InHand(c) \subseteq Path /\ BrokenOff(c) \subseteq InHand(c)
<1>1. \A v \in 1..MaxVersion : PackagePaths(v) \subseteq Path
  BY DEF PackagePaths, PathOf, Path, Package
<1>2. CASE c.op = "package"
  BY <1>1, <1>2 DEF DocCall, PackageCall, InHand, BrokenOff
<1>3. CASE c.op \in {"studio", "edit"}
  BY <1>3 DEF DocCall, SingleCall, InHand, BrokenOff
<1>4. CASE c.op = "remove"
  BY <1>4 DEF DocCall, RemoveCall, InHand, BrokenOff, RemovesPath
<1>5. CASE c.op \notin DocumentOps
  BY <1>5, EmptyHands
<1>6. QED
  BY <1>2, <1>3, <1>4, <1>5 DEF DocumentOps

\* Paths go from hands to files and to shared ones.
LEMMA PathsMove ==
  ASSUME BaseInv, DocInv, DocInv', PathTypes, NEW t \in Thread, NEW c, Moved(t, c), RemovesPath(c),
         DOMAIN disk' \subseteq DOMAIN disk \cup InHand(call[t]),
         shared' \subseteq shared \cup InHand(call[t]) \cup InHand(c)
  PROVE  PathTypes'
<1>1. call'[t] = c /\ \A u \in Thread \ {t} : call'[u] = call[u]
  BY DEF Moved
<1>2. InHand(call[t]) \subseteq Path
  BY HandPaths DEF DocInv, PathTypes
<1>3. DocCall(c)'
  <2>1. DocCall(call[t])'
    BY DEF DocInv
  <2>2. QED
    BY <1>1, <2>1 DEF DocCall, PackageCall, SingleCall, RemoveCall
<1>4. InHand(c) \subseteq Path
  BY <1>3, HandPaths
<1>5. \A u \in Thread : RemovesPath(call'[u])
  BY <1>1 DEF PathTypes
<1>6. QED
  BY <1>2, <1>4, <1>5 DEF PathTypes

LEMMA PathStep ==
  ASSUME BaseInv, DocInv, DocInv', PathTypes, NEW t \in Thread,
         DocumentStep(t) \/ \E s \in Settings : StartStudio(t, s)
  PROVE  PathTypes'
<1> DEFINE c == call[t]
<1>1. CallsOK /\ DocCall(c) /\ RemovesPath(c) /\ RemovesPath(Idle)
  BY IdleCall DEF BaseInv, DocInv, PathTypes, RemovesPath
<1>2. InHand(c) \subseteq Path /\ BrokenOff(c) \subseteq InHand(c)
  BY <1>1, HandPaths
<1>3. CASE StartPackage(t) \/ \E s \in Settings : StartStudio(t, s)
  <2>1. PICK d : Begin(t, d) /\ d.op \in {"package", "studio"} /\ UNCHANGED docVars
    BY <1>3 DEF StartPackage, StartStudio
  <2>2. QED
    BY <1>1, <2>1, BeginMoves, PathsMove DEF RemovesPath, docVars
\* A call that names its files takes their paths in hand.
<1>4. ASSUME NEW d, Moved(t, d), NEW paths, NEW read, TakenBy(t, paths, read), disk' = disk,
             InHand(d) = paths, RemovesPath(d)
      PROVE  PathTypes'
  <2>1. shared' \subseteq shared \cup InHand(d)
    BY <1>4 DEF TakenBy
  <2>2. QED
    BY <1>4, <2>1, PathsMove
<1>5. CASE NamePackage(t)
  <2>1. PICK paths, v : /\ Become(t, [op |-> "package", at |-> "resume", by |-> c.by, version |-> v,
                                      paths |-> paths])
                        /\ TakenBy(t, paths, c.read) /\ disk' = disk
    BY <1>5 DEF NamePackage
  <2>2. PICK d : /\ d = [op |-> "package", at |-> "resume", by |-> c.by, version |-> v, paths |-> paths]
                 /\ Moved(t, d)
    BY <1>1, <2>1, BecomeMoves
  <2>3. InHand(d) = paths /\ RemovesPath(d)
    BY <2>2 DEF InHand, RemovesPath
  <2>4. QED
    BY <1>4, <2>1, <2>2, <2>3
<1>6. ASSUME NEW op \in {"studio", "edit"}, NEW what, NEW by, Single(t, op, what, by), disk' = disk
      PROVE  PathTypes'
  <2>1. PICK path, v :
          LET write == [op |-> op, at |-> "write", by |-> by, what |-> what, version |-> v, paths |-> {path}]
          IN /\ TakenBy(t, {path}, {d.path : d \in docs})
             /\ Begin(t, write) \/ Become(t, write)
    BY <1>6 DEF Single
  <2>2. PICK d : /\ d = [op |-> op, at |-> "write", by |-> by, what |-> what, version |-> v,
                         paths |-> {path}]
                 /\ Moved(t, d)
    BY <1>1, <2>1, BecomeMoves, BeginMoves
  <2>3. InHand(d) = {path} /\ RemovesPath(d)
    BY <2>2 DEF InHand, RemovesPath
  <2>4. QED
    BY <1>4, <1>6, <2>1, <2>2, <2>3
<1>7. CASE NameStudio(t) \/ StartEdit(t)
  BY <1>6, <1>7 DEF NameStudio, StartEdit
<1>8. CASE StartRemove(t)
  <2>1. PICK e \in docs : /\ Begin(t, [op |-> "remove", at |-> "unlink", row |-> e, paths |-> {e.path}])
                          /\ TakenBy(t, {e.path}, {e.path}) /\ disk' = disk
    BY <1>8 DEF StartRemove
  <2>2. PICK d : /\ d = [op |-> "remove", at |-> "unlink", row |-> e, paths |-> {e.path}]
                 /\ Moved(t, d)
    BY <1>1, <2>1, BeginMoves
  <2>3. InHand(d) = {e.path} /\ RemovesPath(d)
    BY <2>2 DEF InHand, RemovesPath, DocInv, DocRows
  <2>4. QED
    BY <1>4, <2>1, <2>2, <2>3
\* A call that goes on keeps its paths.
<1>9. ASSUME NEW at, Goto(t, at), {"op", "at", "paths"} \subseteq DOMAIN c,
             DOMAIN disk' \subseteq DOMAIN disk \cup InHand(c), shared' = shared
      PROVE  PathTypes'
  <2>1. PICK d : Moved(t, d) /\ d = [c EXCEPT !.at = at]
    BY <1>1, <1>9, GotoMoves
  <2>2. d.op = c.op /\ d.paths = c.paths
    BY <1>9, <2>1
  <2>3. RemovesPath(d)
    BY <1>1, <2>2 DEF RemovesPath
  <2>4. QED
    BY <1>9, <2>1, <2>3, PathsMove
<1>10. CASE WritePackage(t)
  <2>1. c.op = "package" /\ c.at \in Package \cup {"manifest"} /\ shared' = shared
    BY <1>10 DEF WritePackage
  <2>2. /\ {"op", "at", "paths"} \subseteq DOMAIN c
        /\ c.paths = PackagePaths(c.version) /\ InHand(c) = c.paths
    BY <1>1, <2>1 DEF DocCall, PackageCall, InHand, Package
  <2>3. DOMAIN disk' \subseteq DOMAIN disk \cup InHand(c)
    BY <1>10, <2>2 DEF WritePackage, Put, PackagePaths
  <2>4. QED
    BY <1>9, <1>10, <2>1, <2>2, <2>3 DEF WritePackage
<1>11. CASE Convert(t)
  <2>1. c.op = "package" /\ c.at = "docx" /\ Goto(t, "manifest") /\ UNCHANGED <<disk, shared>>
    BY <1>11 DEF Convert, In, docVars
  <2>2. {"op", "at", "paths"} \subseteq DOMAIN c
    BY <1>1, <2>1 DEF DocCall, PackageCall
  <2>3. QED
    BY <1>9, <2>1, <2>2
<1>12. CASE WriteSingle(t)
  <2>1. /\ c.op \in {"studio", "edit"} /\ c.at = "write" /\ Goto(t, "save") /\ shared' = shared
        /\ \E path \in c.paths : Put(path, c.by)
    BY <1>12 DEF WriteSingle
  <2>2. {"op", "at", "paths"} \subseteq DOMAIN c /\ InHand(c) = c.paths
    BY <1>1, <2>1 DEF DocCall, SingleCall, InHand
  <2>3. DOMAIN disk' \subseteq DOMAIN disk \cup InHand(c)
    BY <2>1, <2>2 DEF Put
  <2>4. QED
    BY <1>9, <2>1, <2>2, <2>3
<1>13. CASE Unlink(t)
  <2>1. /\ c.op = "remove" /\ Goto(t, "save") /\ shared' = shared
        /\ DOMAIN disk' \subseteq DOMAIN disk
    BY <1>13 DEF Unlink, In
  <2>2. {"op", "at", "paths"} \subseteq DOMAIN c
    BY <1>1, <2>1 DEF DocCall, RemoveCall
  <2>3. QED
    BY <1>9, <2>1, <2>2
<1>14. CASE SaveRows(t) \/ RemoveRow(t) \/ DocumentFails(t)
  <2>1. End(t) /\ disk' = disk /\ shared' \subseteq shared \cup BrokenOff(c)
    BY <1>14 DEF SaveRows, RemoveRow, DocumentFails
  <2>2. QED
    BY <1>1, <1>2, <2>1, EndMoves, PathsMove
<1>15. QED
  BY <1>3, <1>5, <1>7, <1>8, <1>10, <1>11, <1>12, <1>13, <1>14 DEF DocumentStep

LEMMA PathNext == BaseInv /\ DocInv /\ PathTypes /\ [Next]_vars => PathTypes'
<1> SUFFICES ASSUME BaseInv, DocInv, PathTypes, [Next]_vars
             PROVE  PathTypes'
  OBVIOUS
<1>1. DocInv'
  BY DocNextInv
<1>2. CASE \E t \in Thread : DocumentStep(t) \/ \E s \in Settings : StartStudio(t, s)
  BY <1>1, <1>2, PathStep
<1>3. CASE UNCHANGED docVars /\ (Keeps(DocumentOps) \/ Asks)
  <2>1. ASSUME NEW t \in Thread, call'[t].op = "remove"
        PROVE  call'[t] = call[t]
    BY <1>3, <2>1, IdleCall DEF Keeps, DocumentOps, Asks, BaseInv, CallsOK, Askers, ModelOps
  <2>2. \A t \in Thread : RemovesPath(call'[t])
    BY <2>1 DEF PathTypes, RemovesPath
  <2>3. QED
    BY <1>3, <2>2 DEF PathTypes, docVars
<1>4. CASE Crash
  <2>1. disk' = disk /\ shared' = shared \cup UNION {BrokenOff(call[t]) : t \in Thread}
    BY <1>4 DEF Crash
  <2>2. \A t \in Thread : BrokenOff(call[t]) \subseteq Path
    BY HandPaths DEF DocInv, PathTypes
  <2>3. \A t \in Thread : RemovesPath(call'[t])
    BY <1>4, CrashIdle, IdleCall DEF RemovesPath
  <2>4. QED
    BY <2>1, <2>2, <2>3 DEF PathTypes
<1>5. QED
  BY <1>2, <1>3, <1>4, Frames

LEMMA PathInit == Init => PathTypes
BY IdleCall DEF Init, ThreadsInit, DocsInit, PathTypes, RemovesPath

--------------------------------------------------------------------------------
\* Every variable of the panel keeps its type, at any number of threads, calls and
\* crashes: rows keep the identity of their paths, files and shared paths are
\* paths of documents, only a sleeping request holds a lock of a host, and whatever
\* a call has read is still of its type when it is stored.
THEOREM TypeTheorem == Spec => []TypeOK
<1> DEFINE AllInv == /\ ResumeInv /\ DocInv /\ PipelineInv /\ InboxInv /\ MemoryInv /\ HttpInv
                     /\ CountsOK /\ ContextTypes /\ WebTypes /\ AddressTypes /\ PathTypes
<1>1. Init => AllInv
  BY ResumeInitInv, DocInitInv, PipelineInitInv, InboxInitInv, MemoryInitInv, HttpInitInv,
     CountsInit, ContextInit, WebInit, PathInit
<1>2. BaseInv /\ [Next]_vars => BaseInv'
  BY Frames
<1>3. BaseInv /\ OneBridge /\ AllInv /\ [Next]_vars => AllInv'
  BY ResumeNextInv, DocNextInv, PipelineNextInv, InboxNextInv, MemoryNextInv, HttpNextInv,
     CountsNext, ContextNext, WebNext, AddressNext, PathNext
<1>4. BaseInv /\ AllInv => TypeOK
  <2> SUFFICES ASSUME BaseInv, AllInv PROVE TypeOK
    OBVIOUS
  <2>1. ResumesOK
    BY DEF ResumeInv, RowsInv, ResumesOK
  <2>2. DocumentsOK
    BY DEF DocInv, DocRows, PathTypes, DocumentsOK
  <2>3. PipelineOK /\ InboxOK
    BY DEF PipelineInv, InboxInv
  <2>4. MemoryOK
    <3>1. {answers, given} \subseteq AnswerRow
      BY DEF MemoryInv
    <3>2. {files, index, meta} \cup indexed \subseteq ContextFiles
      BY DEF ContextTypes
    <3>3. {torn, published} \subseteq BOOLEAN /\ lost \subseteq Question /\ disposition \in Disposition
      BY DEF ContextTypes
    <3>4. QED
      BY <3>1, <3>2, <3>3 DEF MemoryOK, AnswerRow, ContextFiles, Said
  <2>5. HttpOK
    BY DEF HttpInv, SlotsInv, ClockInv, Sleeps, WebTypes, AddressTypes, HttpOK
  <2>6. QED
    BY <2>1, <2>2, <2>3, <2>4, <2>5 DEF BaseInv, Named, CountsOK, TypeOK
<1>5. QED
  BY <1>1, <1>2, <1>3, <1>4, BaseInit, OneBridgeInit, BridgeNextInv, PTL DEF Spec

================================================================================

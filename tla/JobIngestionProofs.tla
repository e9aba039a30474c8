--------------------------- MODULE JobIngestionProofs ---------------------------
(***************************************************************************)
(* Proofs about JobIngestion, for any postings, batch size and bounds: the *)
(* type invariant and every property of its run, from one inductive        *)
(* invariant, what deduplicate_jobs returns for every list of postings,    *)
(* and that the database implements JobLedger.                             *)
(***************************************************************************)
EXTENDS JobIngestion, LeastElements, SequenceTheorems, TLAPS

--------------------------------------------------------------------------------
(* deduplicate_jobs, posting by posting.                                   *)

Start == [kept |-> <<>>, semantic |-> <<>>]

\* f tells the accumulator after each of the first n postings of c.
IsRun(f, c, n) ==
  /\ f = [i \in 0..n |-> f[i]]
  /\ f[0] = Start
  /\ \A i \in 1..n : f[i] = DedupStep(f[i - 1], c[i])

\* The loop runs to the end of any list.
LEMMA RunExists ==
  ASSUME NEW c, NEW n \in Nat
  PROVE  \E f : IsRun(f, c, n)
<1> DEFINE Bad == {m \in Nat : ~ \E f : IsRun(f, c, m)}
<1>1. SUFFICES ASSUME Bad # {} PROVE FALSE
  OBVIOUS
<1>2. PICK m \in Bad : \A k \in Bad : m <= k
  <2>1. Bad \in SUBSET Nat
    OBVIOUS
  <2>2. QED
    BY <1>1, <2>1, LeastElement
<1>3. CASE m = 0
  <2>1. IsRun([i \in 0..0 |-> Start], c, 0)
    BY DEF IsRun
  <2>2. QED
    BY <1>2, <1>3, <2>1
<1>4. CASE m # 0
  <2>1. m - 1 \in Nat /\ m - 1 \notin Bad
    BY <1>2, <1>4
  <2>2. PICK f : IsRun(f, c, m - 1)
    BY <2>1
  <2> DEFINE g == [i \in 0..m |-> IF i = m THEN DedupStep(f[m - 1], c[m]) ELSE f[i]]
  <2>3. \A i \in 0..m - 1 : g[i] = f[i]
    BY <1>2
  <2>4. g[m] = DedupStep(g[m - 1], c[m])
    BY <1>2, <1>4, <2>3
  <2>5. \A i \in 1..m : g[i] = DedupStep(g[i - 1], c[i])
    <3>1. \A i \in 1..m - 1 : g[i] = DedupStep(g[i - 1], c[i])
      <4>1. TAKE i \in 1..m - 1
      <4>2. i \in 0..m - 1 /\ i - 1 \in 0..m - 1
        BY <1>2
      <4>3. g[i] = f[i] /\ g[i - 1] = f[i - 1]
        BY <2>3, <4>2
      <4>4. f[i] = DedupStep(f[i - 1], c[i])
        BY <2>2 DEF IsRun
      <4>5. QED
        BY <4>3, <4>4
    <3>2. QED
      BY <1>2, <2>4, <3>1
  <2>6. g[0] = Start
    BY <1>2, <1>4, <2>2, <2>3 DEF IsRun
  <2>7. g = [i \in 0..m |-> g[i]]
    OBVIOUS
  <2>8. IsRun(g, c, m)
    BY <2>5, <2>6, <2>7 DEF IsRun
  <2>9. QED
    BY <1>2, <2>8
<1>5. QED
  BY <1>3, <1>4

\* What deduplicate_jobs returns is what its loop has kept in the end.
LEMMA DedupRuns ==
  ASSUME NEW c, Len(c) \in Nat
  PROVE  \E f : IsRun(f, c, Len(c)) /\ Dedup(c) = f[Len(c)].kept
<1> DEFINE Equation(f) ==
       f = [i \in 0..Len(c) |-> IF i = 0 THEN Start ELSE DedupStep(f[i - 1], c[i])]
<1>1. PICK f : IsRun(f, c, Len(c))
  BY RunExists
<1>2. Equation(f)
  <2>1. \A i \in 0..Len(c) : f[i] = IF i = 0 THEN Start ELSE DedupStep(f[i - 1], c[i])
    BY <1>1 DEF IsRun
  <2>2. f = [i \in 0..Len(c) |-> f[i]]
    BY <1>1 DEF IsRun
  <2>3. QED
    BY <2>1, <2>2
<1> DEFINE g == CHOOSE h : Equation(h)
<1>3. Equation(g)
  BY <1>2
<1>4. IsRun(g, c, Len(c))
  <2> HIDE DEF g
  <2>1. \A i \in 0..Len(c) : g[i] = IF i = 0 THEN Start ELSE DedupStep(g[i - 1], c[i])
    BY <1>3
  <2>2. g = [i \in 0..Len(c) |-> g[i]]
    BY <1>3, <2>1
  <2>3. QED
    BY <2>1, <2>2 DEF IsRun
<1>5. Dedup(c) = g[Len(c)].kept
  BY DEF Dedup, Start
<1>6. QED
  BY <1>4, <1>5

\* RemoveAt of the community modules.
LEMMA RemoveOneAt ==
  ASSUME NEW S, NEW s \in Seq(S), NEW i \in 1..Len(s)
  PROVE  /\ RemoveAt(s, i) \in Seq(S)
         /\ Len(RemoveAt(s, i)) = Len(s) - 1
         /\ \A k \in 1..Len(s) - 1 : RemoveAt(s, i)[k] = s[IF k < i THEN k ELSE k + 1]
<1> DEFINE a == SubSeq(s, 1, i - 1)
           b == SubSeq(s, i + 1, Len(s))
<1>1. Len(s) \in Nat /\ \A k \in 1..Len(s) : s[k] \in S
  BY LenProperties, ElementOfSeq
<1>2. /\ a \in Seq(S) /\ Len(a) = i - 1
      /\ \A k \in 1..i - 1 : a[k] = s[k]
  <2>1. 1 \in Int /\ i - 1 \in Int /\ \A k \in 1..i - 1 : s[k] \in S
    BY <1>1
  <2>2. /\ a \in Seq(S) /\ Len(a) = IF 1 <= i - 1 THEN (i - 1) - 1 + 1 ELSE 0
        /\ \A k \in 1..(i - 1) - 1 + 1 : a[k] = s[1 + k - 1]
    BY <2>1, SubSeqProperties
  <2>3. QED
    BY <1>1, <2>2
<1>3. /\ b \in Seq(S) /\ Len(b) = Len(s) - i
      /\ \A k \in 1..Len(s) - i : b[k] = s[i + k]
  <2>1. i + 1 \in Int /\ Len(s) \in Int /\ \A k \in i + 1..Len(s) : s[k] \in S
    BY <1>1
  <2>2. /\ b \in Seq(S) /\ Len(b) = IF i + 1 <= Len(s) THEN Len(s) - (i + 1) + 1 ELSE 0
        /\ \A k \in 1..Len(s) - (i + 1) + 1 : b[k] = s[(i + 1) + k - 1]
    BY <2>1, SubSeqProperties
  <2>3. QED
    BY <1>1, <2>2
<1>4. RemoveAt(s, i) = a \o b
  BY DEF RemoveAt
<1> HIDE DEF a, b
<1>5. /\ a \o b \in Seq(S) /\ Len(a \o b) = Len(a) + Len(b)
      /\ \A k \in 1..Len(a) + Len(b) : (a \o b)[k] = IF k <= Len(a) THEN a[k] ELSE b[k - Len(a)]
  BY <1>2, <1>3, ConcatProperties
<1>6. ASSUME NEW k \in 1..Len(s) - 1
      PROVE  (a \o b)[k] = s[IF k < i THEN k ELSE k + 1]
  <2>1. k \in 1..Len(a) + Len(b)
    BY <1>1, <1>2, <1>3
  <2>2. CASE k < i
    <3>1. k \in 1..i - 1
      BY <1>1, <2>2
    <3>2. (a \o b)[k] = a[k] /\ a[k] = s[k]
      BY <1>1, <1>2, <1>5, <2>1, <3>1
    <3>3. QED
      BY <2>2, <3>2
  <2>3. CASE ~(k < i)
    <3>1. k - Len(a) \in 1..Len(s) - i /\ ~(k <= Len(a))
      BY <1>1, <1>2, <2>3
    <3>2. (a \o b)[k] = b[k - Len(a)]
      BY <1>5, <2>1, <3>1
    <3>3. b[k - Len(a)] = s[i + (k - Len(a))]
      BY <1>3, <3>1
    <3>4. i + (k - Len(a)) = k + 1
      BY <1>1, <1>2
    <3>5. QED
      BY <2>3, <3>2, <3>3, <3>4
  <2>4. QED
    BY <2>2, <2>3
<1>7. Len(a \o b) = Len(s) - 1
  BY <1>1, <1>2, <1>3, <1>5
<1>8. QED
  BY <1>4, <1>5, <1>6, <1>7

UniqueUrls(kept) == \A i, j \in 1..Len(kept) : kept[i].url = kept[j].url => i = j

\* What one posting does to the list of those kept: nothing, or it takes the
\* place of one of its URL, or of one of the URL kept for its company, title and
\* location, or it is added.
Stays(acc, p, i) == i \in 1..Len(acc.kept) /\ acc.kept[i].url = p.url
Twin(acc, p, i) ==
  /\ i \in 1..Len(acc.kept) /\ SemanticKey(p) \in DOMAIN acc.semantic
  /\ acc.kept[i].url = acc.semantic[SemanticKey(p)]
New(acc, p) == \A i \in 1..Len(acc.kept) : acc.kept[i].url # p.url
With(acc, p, kept) == [kept |-> kept, semantic |-> WithKey(acc.semantic, p)]

LEMMA DedupCases ==
  ASSUME NEW acc, NEW p, acc.kept \in Seq(Posting)
  PROVE  \/ \E i : /\ Stays(acc, p, i)
                   /\ DedupStep(acc, p) \in {acc, [acc EXCEPT !.kept[i] = p]}
         \/ \E i : /\ New(acc, p) /\ Twin(acc, p, i)
                   /\ DedupStep(acc, p) \in {acc, With(acc, p, Append(RemoveAt(acc.kept, i), p))}
         \/ New(acc, p) /\ DedupStep(acc, p) = With(acc, p, Append(acc.kept, p))
<1> DEFINE same == At(acc.kept, p.url)
           key == SemanticKey(p)
           twin == IF key \in DOMAIN acc.semantic THEN At(acc.kept, acc.semantic[key]) ELSE {}
<1>0. DOMAIN acc.kept = 1..Len(acc.kept)
  BY LenProperties
<1>1. CASE same # {}
  <2> DEFINE i == CHOOSE i \in same : TRUE
  <2>1. i \in same
    BY <1>1
  <2>2. DedupStep(acc, p) = IF p.text > acc.kept[i].text THEN [acc EXCEPT !.kept[i] = p] ELSE acc
    BY <1>1 DEF DedupStep
  <2> HIDE DEF i
  <2>3. Stays(acc, p, i)
    BY <1>0, <2>1 DEF At, Stays
  <2>4. QED
    BY <2>2, <2>3
<1>2. CASE same = {} /\ twin # {}
  <2> DEFINE i == CHOOSE i \in twin : TRUE
  <2>1. i \in twin
    BY <1>2
  <2>2. DedupStep(acc, p) = IF p.text > acc.kept[i].text
                            THEN With(acc, p, Append(RemoveAt(acc.kept, i), p)) ELSE acc
    BY <1>2 DEF DedupStep, With
  <2> HIDE DEF i
  <2>3. New(acc, p)
    BY <1>0, <1>2 DEF At, New
  <2>4. Twin(acc, p, i)
    BY <1>0, <2>1 DEF At, Twin
  <2>5. QED
    BY <2>2, <2>3, <2>4
<1>3. CASE same = {} /\ twin = {}
  <2>1. New(acc, p)
    BY <1>0, <1>3 DEF At, New
  <2>2. DedupStep(acc, p) = With(acc, p, Append(acc.kept, p))
    BY <1>3 DEF DedupStep, With
  <2>3. QED
    BY <2>1, <2>2
<1>4. QED
  BY <1>1, <1>2, <1>3

KeysKnown(semantic, c, i) ==
  \A key \in DOMAIN semantic :
    \E n \in 1..i : SemanticKey(c[n]) = key /\ c[n].url = semantic[key]

\* After i postings of c: those kept are among them, no URL twice, and a known
\* company, title and location points to the URL of one of them.
AccOK(acc, c, i) ==
  /\ acc = [kept |-> acc.kept, semantic |-> acc.semantic]
  /\ acc.kept \in Seq(Posting)
  /\ UniqueUrls(acc.kept)
  /\ \A k \in 1..Len(acc.kept) : \E n \in 1..i : acc.kept[k] = c[n]
  /\ KeysKnown(acc.semantic, c, i)

KeptIn(acc, C) == \A k \in 1..Len(acc.kept) : acc.kept[k] \in C

\* What each of the cases does to the accumulator.
StepOK(acc, next, c, i) ==
  /\ AccOK(next, c, i + 1)
  /\ \A C \in SUBSET ToSet(c) :
       ClosedIn(C, ToSet(c)) /\ KeptIn(next, C) => KeptIn(acc, C) /\ c[i + 1] \in C

LEMMA KnownKeys ==
  ASSUME NEW c \in Seq(Posting), NEW i \in Nat, i + 1 \in 1..Len(c), NEW acc, AccOK(acc, c, i)
  PROVE  KeysKnown(WithKey(acc.semantic, c[i + 1]), c, i + 1)
<1>1. ASSUME NEW key \in DOMAIN WithKey(acc.semantic, c[i + 1])
      PROVE  \E n \in 1..i + 1 : /\ SemanticKey(c[n]) = key
                                 /\ c[n].url = WithKey(acc.semantic, c[i + 1])[key]
  <2>1. CASE key = SemanticKey(c[i + 1])
    <3>1. WithKey(acc.semantic, c[i + 1])[key] = c[i + 1].url
      BY <1>1, <2>1 DEF WithKey
    <3>2. QED
      BY <2>1, <3>1
  <2>2. CASE key # SemanticKey(c[i + 1])
    <3>1. key \in DOMAIN acc.semantic /\ WithKey(acc.semantic, c[i + 1])[key] = acc.semantic[key]
      BY <1>1, <2>2 DEF WithKey
    <3>2. PICK n \in 1..i : SemanticKey(c[n]) = key /\ c[n].url = acc.semantic[key]
      BY <3>1 DEF AccOK, KeysKnown
    <3>3. n \in 1..i + 1
      OBVIOUS
    <3>4. QED
      BY <3>1, <3>2, <3>3
  <2>3. QED
    BY <2>1, <2>2
<1>2. QED
  BY <1>1 DEF KeysKnown

\* The postings of a list.
LEMMA AllPostings ==
  ASSUME NEW c \in Seq(Posting)
  PROVE  /\ Len(c) \in Nat /\ ToSet(c) = {c[k] : k \in 1..Len(c)}
         /\ \A k \in 1..Len(c) : c[k] \in Posting
BY LenProperties, ElementOfSeq DEF ToSet

\* A posting that stays is left, or gives way to one of its URL.
LEMMA ReplacedOK ==
  ASSUME NEW c \in Seq(Posting), NEW i \in Nat, i + 1 \in 1..Len(c), NEW acc, AccOK(acc, c, i),
         NEW k, Stays(acc, c[i + 1], k)
  PROVE  StepOK(acc, [acc EXCEPT !.kept[k] = c[i + 1]], c, i)
<1> DEFINE p == c[i + 1]
           kept == [acc.kept EXCEPT ![k] = p]
           next == [acc EXCEPT !.kept[k] = p]
<1>1. next = [kept |-> kept, semantic |-> acc.semantic]
  BY DEF AccOK
<1>2. /\ Len(acc.kept) \in Nat /\ k \in 1..Len(acc.kept) /\ p \in Posting
      /\ \A n \in 1..Len(acc.kept) : acc.kept[n] \in Posting
      /\ acc.kept[k].url = p.url
  BY AllPostings, LenProperties, ElementOfSeq DEF AccOK, Stays
<1>3. /\ kept \in Seq(Posting) /\ Len(kept) = Len(acc.kept)
      /\ \A n \in 1..Len(acc.kept) : kept[n] = IF n = k THEN p ELSE acc.kept[n]
  BY <1>2, ExceptSeq DEF AccOK
<1> HIDE DEF kept, next
<1>4. next.kept = kept /\ next.semantic = acc.semantic
  BY <1>1
<1>5. AccOK(next, c, i + 1)
  <2>1. UniqueUrls(kept)
    <3>1. SUFFICES ASSUME NEW n \in 1..Len(kept), NEW m \in 1..Len(kept), kept[n].url = kept[m].url
                   PROVE  n = m
      BY DEF UniqueUrls
    <3>2. kept[n].url = acc.kept[n].url /\ kept[m].url = acc.kept[m].url
      BY <1>2, <1>3
    <3>3. QED
      BY <1>3, <3>1, <3>2 DEF AccOK, UniqueUrls
  <2>2. \A n \in 1..Len(kept) : \E m \in 1..i + 1 : kept[n] = c[m]
    <3>1. TAKE n \in 1..Len(kept)
    <3>2. CASE n = k
      BY <1>3, <3>2
    <3>3. CASE n # k
      <4>1. PICK m \in 1..i : acc.kept[n] = c[m]
        BY <1>3 DEF AccOK
      <4>2. m \in 1..i + 1 /\ kept[n] = c[m]
        BY <1>3, <3>3, <4>1
      <4>3. QED
        BY <4>2
    <3>4. QED
      BY <3>2, <3>3
  <2>3. \A key \in DOMAIN acc.semantic :
          \E m \in 1..i + 1 : SemanticKey(c[m]) = key /\ c[m].url = acc.semantic[key]
    <3>1. TAKE key \in DOMAIN acc.semantic
    <3>2. PICK m \in 1..i : SemanticKey(c[m]) = key /\ c[m].url = acc.semantic[key]
      BY DEF AccOK, KeysKnown
    <3>3. m \in 1..i + 1
      OBVIOUS
    <3>4. QED
      BY <3>2, <3>3
  <2>4. QED
    BY <1>1, <1>3, <1>4, <2>1, <2>2, <2>3 DEF AccOK, KeysKnown
<1>6. ASSUME NEW C \in SUBSET ToSet(c), ClosedIn(C, ToSet(c)), KeptIn(next, C)
      PROVE  KeptIn(acc, C) /\ p \in C
  <2>1. \A n \in 1..Len(acc.kept) : kept[n] \in C
    BY <1>3, <1>4, <1>6 DEF KeptIn
  <2>2. p \in C
    BY <1>2, <1>3, <2>1
  <2>3. acc.kept[k] \in C
    <3>1. PICK m \in 1..i : acc.kept[k] = c[m]
      BY <1>2 DEF AccOK
    <3>2. m \in 1..Len(c)
      BY AllPostings
    <3>3. acc.kept[k] \in ToSet(c)
      BY <3>1, <3>2, AllPostings
    <3>4. Linked(acc.kept[k], p)
      BY <1>2 DEF Linked
    <3>5. QED
      BY <1>6, <2>2, <3>3, <3>4 DEF ClosedIn
  <2>4. \A n \in 1..Len(acc.kept) : acc.kept[n] \in C
    BY <1>3, <2>1, <2>3
  <2>5. QED
    BY <2>2, <2>4 DEF KeptIn
<1>7. QED
  BY <1>5, <1>6 DEF StepOK, next

\* A posting of a URL that is kept, or of the company, title and location of one
\* that is, is left out.
LEMMA LeftOutOK ==
  ASSUME NEW c \in Seq(Posting), NEW i \in Nat, i + 1 \in 1..Len(c), NEW acc, AccOK(acc, c, i),
         NEW k, Stays(acc, c[i + 1], k) \/ Twin(acc, c[i + 1], k)
  PROVE  StepOK(acc, acc, c, i)
<1> DEFINE p == c[i + 1]
<1>1. AccOK(acc, c, i + 1)
  <2>1. \A m \in 1..i : m \in 1..i + 1
    OBVIOUS
  <2>2. \A n \in 1..Len(acc.kept) : \E m \in 1..i + 1 : acc.kept[n] = c[m]
    BY <2>1 DEF AccOK
  <2>3. \A key \in DOMAIN acc.semantic :
          \E m \in 1..i + 1 : SemanticKey(c[m]) = key /\ c[m].url = acc.semantic[key]
    BY <2>1 DEF AccOK, KeysKnown
  <2>4. QED
    BY <2>2, <2>3 DEF AccOK, KeysKnown
<1>2. ASSUME NEW C \in SUBSET ToSet(c), ClosedIn(C, ToSet(c)), KeptIn(acc, C)
      PROVE  p \in C
  <2>1. p \in ToSet(c)
    BY AllPostings
  <2>2. k \in 1..Len(acc.kept) /\ acc.kept[k] \in C
    BY <1>2 DEF KeptIn, Stays, Twin
  <2>3. CASE Stays(acc, p, k)
    <3>1. Linked(p, acc.kept[k])
      BY <2>3 DEF Stays, Linked
    <3>2. QED
      BY <1>2, <2>1, <2>2, <3>1 DEF ClosedIn
  <2>4. CASE Twin(acc, p, k)
    <3>1. PICK m \in 1..i : SemanticKey(c[m]) = SemanticKey(p) /\ c[m].url = acc.semantic[SemanticKey(p)]
      BY <2>4 DEF AccOK, KeysKnown, Twin
    <3>2. m \in 1..Len(c)
      BY AllPostings
    <3>3. c[m] \in ToSet(c)
      BY <3>2, AllPostings
    <3>4. Linked(c[m], acc.kept[k]) /\ Linked(p, c[m])
      BY <2>4, <3>1 DEF Twin, Linked
    <3>5. c[m] \in C
      BY <1>2, <2>2, <3>3, <3>4 DEF ClosedIn
    <3>6. QED
      BY <1>2, <2>1, <3>4, <3>5 DEF ClosedIn
  <2>5. QED
    BY <2>3, <2>4
<1>3. QED
  BY <1>1, <1>2 DEF StepOK

\* A posting is added to those kept, or to those that are not its twin.
LEMMA AddedOK ==
  ASSUME NEW c \in Seq(Posting), NEW i \in Nat, i + 1 \in 1..Len(c), NEW acc, AccOK(acc, c, i),
         NEW kept \in Seq(Posting), UniqueUrls(kept), New(acc, c[i + 1]),
         \A n \in 1..Len(kept) : \E m \in 1..Len(acc.kept) : kept[n] = acc.kept[m],
         \A m \in 1..Len(acc.kept) :
           Twin(acc, c[i + 1], m) \/ \E n \in 1..Len(kept) : kept[n] = acc.kept[m]
  PROVE  StepOK(acc, With(acc, c[i + 1], Append(kept, c[i + 1])), c, i)
<1> DEFINE p == c[i + 1]
           longer == Append(kept, p)
           next == With(acc, p, longer)
<1>1. next = [kept |-> longer, semantic |-> WithKey(acc.semantic, p)]
  BY DEF With
<1>2. p \in Posting /\ p \in ToSet(c) /\ Len(kept) \in Nat
  BY AllPostings, LenProperties
<1>3. /\ longer \in Seq(Posting) /\ Len(longer) = Len(kept) + 1
      /\ \A n \in 1..Len(kept) : longer[n] = kept[n]
      /\ longer[Len(kept) + 1] = p
  BY <1>2, AppendProperties
<1> HIDE DEF longer, next
<1>4. next.kept = longer /\ next.semantic = WithKey(acc.semantic, p)
  BY <1>1
<1>5. \A n \in 1..Len(kept) : kept[n].url # p.url
  BY DEF New
<1>6. AccOK(next, c, i + 1)
  <2>1. UniqueUrls(longer)
    <3>1. SUFFICES ASSUME NEW n \in 1..Len(longer), NEW m \in 1..Len(longer),
                          longer[n].url = longer[m].url
                   PROVE  n = m
      BY DEF UniqueUrls
    <3>2. CASE n \in 1..Len(kept) /\ m \in 1..Len(kept)
      BY <1>3, <3>1, <3>2 DEF UniqueUrls
    <3>3. CASE n \in 1..Len(kept) /\ m = Len(kept) + 1
      BY <1>3, <1>5, <3>1, <3>3
    <3>4. CASE n = Len(kept) + 1 /\ m \in 1..Len(kept)
      BY <1>3, <1>5, <3>1, <3>4
    <3>5. QED
      BY <1>2, <1>3, <3>2, <3>3, <3>4
  <2>2. \A n \in 1..Len(longer) : \E m \in 1..i + 1 : longer[n] = c[m]
    <3>1. TAKE n \in 1..Len(longer)
    <3>2. CASE n = Len(kept) + 1
      BY <1>3, <3>2
    <3>3. CASE n \in 1..Len(kept)
      <4>1. PICK k \in 1..Len(acc.kept) : kept[n] = acc.kept[k]
        BY <3>3
      <4>2. PICK m \in 1..i : acc.kept[k] = c[m]
        BY DEF AccOK
      <4>3. m \in 1..i + 1 /\ longer[n] = c[m]
        BY <1>3, <3>3, <4>1, <4>2
      <4>4. QED
        BY <4>3
    <3>4. QED
      BY <1>2, <1>3, <3>2, <3>3
  <2>3. KeysKnown(next.semantic, c, i + 1)
    BY <1>4, KnownKeys
  <2>4. next = [kept |-> next.kept, semantic |-> next.semantic]
    BY <1>1, <1>4
  <2>5. QED
    BY <1>3, <1>4, <2>1, <2>2, <2>3, <2>4 DEF AccOK
<1>7. ASSUME NEW C \in SUBSET ToSet(c), ClosedIn(C, ToSet(c)), KeptIn(next, C)
      PROVE  KeptIn(acc, C) /\ p \in C
  <2>1. \A n \in 1..Len(longer) : longer[n] \in C
    BY <1>4, <1>7 DEF KeptIn
  <2>2. p \in C
    BY <1>2, <1>3, <2>1
  <2>3. \A n \in 1..Len(kept) : kept[n] \in C
    BY <1>2, <1>3, <2>1
  <2>4. ASSUME NEW m \in 1..Len(acc.kept)
        PROVE  acc.kept[m] \in C
    <3>1. CASE Twin(acc, p, m)
      <4>1. PICK n \in 1..i : SemanticKey(c[n]) = SemanticKey(p) /\ c[n].url = acc.semantic[SemanticKey(p)]
        BY <3>1 DEF AccOK, KeysKnown, Twin
      <4>2. PICK k \in 1..i : acc.kept[m] = c[k]
        BY DEF AccOK
      <4>3. n \in 1..Len(c) /\ k \in 1..Len(c)
        BY AllPostings
      <4>4. c[n] \in ToSet(c) /\ acc.kept[m] \in ToSet(c)
        BY <4>2, <4>3, AllPostings
      <4>5. Linked(c[n], p) /\ Linked(acc.kept[m], c[n])
        BY <3>1, <4>1 DEF Twin, Linked
      <4>6. c[n] \in C
        BY <1>7, <2>2, <4>4, <4>5 DEF ClosedIn
      <4>7. QED
        BY <1>7, <4>4, <4>5, <4>6 DEF ClosedIn
    <3>2. CASE ~Twin(acc, p, m)
      BY <2>3, <3>2
    <3>3. QED
      BY <3>1, <3>2
  <2>5. QED
    BY <2>2, <2>4 DEF KeptIn
<1>8. QED
  BY <1>6, <1>7 DEF StepOK, next, longer

\* One posting of any list.
LEMMA DedupStepOK ==
  ASSUME NEW c \in Seq(Posting), NEW i \in Nat, i + 1 \in 1..Len(c), NEW acc, AccOK(acc, c, i)
  PROVE  StepOK(acc, DedupStep(acc, c[i + 1]), c, i)
<1> DEFINE p == c[i + 1]
           next == DedupStep(acc, p)
<1>0. /\ acc.kept \in Seq(Posting) /\ UniqueUrls(acc.kept) /\ Len(acc.kept) \in Nat
      /\ DOMAIN acc.kept = 1..Len(acc.kept)
  BY LenProperties DEF AccOK
<1>1. CASE \E k : Stays(acc, p, k) /\ next \in {acc, [acc EXCEPT !.kept[k] = p]}
  <2>1. PICK k : Stays(acc, p, k) /\ next \in {acc, [acc EXCEPT !.kept[k] = p]}
    BY <1>1
  <2>2. StepOK(acc, acc, c, i)
    BY <2>1, LeftOutOK
  <2>3. StepOK(acc, [acc EXCEPT !.kept[k] = p], c, i)
    BY <2>1, ReplacedOK
  <2>4. QED
    BY <2>1, <2>2, <2>3
<1>2. CASE \E k : /\ New(acc, p) /\ Twin(acc, p, k)
                  /\ next \in {acc, With(acc, p, Append(RemoveAt(acc.kept, k), p))}
  <2>1. PICK k : /\ New(acc, p) /\ Twin(acc, p, k)
                 /\ next \in {acc, With(acc, p, Append(RemoveAt(acc.kept, k), p))}
    BY <1>2
  <2> DEFINE kept == RemoveAt(acc.kept, k)
  <2>2. k \in 1..Len(acc.kept)
    BY <2>1 DEF Twin
  <2>3. /\ kept \in Seq(Posting) /\ Len(kept) = Len(acc.kept) - 1
        /\ \A n \in 1..Len(acc.kept) - 1 : kept[n] = acc.kept[IF n < k THEN n ELSE n + 1]
    BY <1>0, <2>2, RemoveOneAt
  <2> HIDE DEF kept
  <2>4. \A n \in 1..Len(kept) : \E m \in 1..Len(acc.kept) : kept[n] = acc.kept[m]
    <3>1. TAKE n \in 1..Len(kept)
    <3>2. (IF n < k THEN n ELSE n + 1) \in 1..Len(acc.kept)
      BY <1>0, <2>3
    <3>3. QED
      BY <2>3, <3>2
  <2>5. UniqueUrls(kept)
    <3>1. SUFFICES ASSUME NEW n \in 1..Len(kept), NEW m \in 1..Len(kept), kept[n].url = kept[m].url
                   PROVE  n = m
      BY DEF UniqueUrls
    <3> DEFINE Old(x) == IF x < k THEN x ELSE x + 1
    <3>2. Old(n) \in 1..Len(acc.kept) /\ Old(m) \in 1..Len(acc.kept)
      BY <1>0, <2>3
    <3>3. acc.kept[Old(n)].url = acc.kept[Old(m)].url
      BY <2>3, <3>1
    <3>4. Old(n) = Old(m)
      BY <1>0, <3>2, <3>3 DEF UniqueUrls
    <3>5. QED
      BY <1>0, <2>2, <2>3, <3>4
  <2>6. \A m \in 1..Len(acc.kept) :
          Twin(acc, p, m) \/ \E n \in 1..Len(kept) : kept[n] = acc.kept[m]
    <3>1. TAKE m \in 1..Len(acc.kept)
    <3>2. CASE m = k
      BY <2>1, <3>2
    <3>3. CASE m < k
      <4>1. m \in 1..Len(kept) /\ m \in 1..Len(acc.kept) - 1
        BY <1>0, <2>2, <2>3, <3>3
      <4>2. kept[m] = acc.kept[m]
        BY <2>3, <3>3, <4>1
      <4>3. QED
        BY <4>1, <4>2
    <3>4. CASE m > k
      <4>1. m - 1 \in 1..Len(kept) /\ m - 1 \in 1..Len(acc.kept) - 1 /\ ~(m - 1 < k) /\ (m - 1) + 1 = m
        BY <1>0, <2>2, <2>3, <3>4
      <4>2. kept[m - 1] = acc.kept[m]
        BY <2>3, <4>1
      <4>3. QED
        BY <4>1, <4>2
    <3>5. QED
      BY <1>0, <2>2, <3>2, <3>3, <3>4
  <2>7. StepOK(acc, With(acc, p, Append(kept, p)), c, i)
    BY <2>1, <2>3, <2>4, <2>5, <2>6, AddedOK
  <2>8. StepOK(acc, acc, c, i)
    BY <2>1, LeftOutOK
  <2>9. QED
    BY <2>1, <2>7, <2>8 DEF kept
<1>3. CASE New(acc, p) /\ next = With(acc, p, Append(acc.kept, p))
  BY <1>0, <1>3, AddedOK
<1>4. QED
  BY <1>0, <1>1, <1>2, <1>3, DedupCases

\* After every posting of the list.
LEMMA DedupRunOK ==
  ASSUME NEW c \in Seq(Posting), NEW f, IsRun(f, c, Len(c))
  PROVE  \A i \in 0..Len(c) : AccOK(f[i], c, i)
<1> DEFINE Bad == {i \in 0..Len(c) : ~AccOK(f[i], c, i)}
<1>0. Len(c) \in Nat
  BY LenProperties
<1>1. SUFFICES ASSUME Bad # {} PROVE FALSE
  OBVIOUS
<1>2. PICK m \in Bad : \A k \in Bad : m <= k
  <2>1. Bad \in SUBSET Nat
    BY <1>0
  <2>2. QED
    BY <1>1, <2>1, LeastElement
<1>3. m \in 0..Len(c) /\ ~AccOK(f[m], c, m)
  BY <1>2
<1>4. CASE m = 0
  <2>1. f[0] = Start
    BY DEF IsRun
  <2>2. Start = [kept |-> Start.kept, semantic |-> Start.semantic] /\ Start.kept = <<>> /\ Start.semantic = <<>>
    BY DEF Start
  <2>3. <<>> \in Seq(Posting) /\ Len(<<>>) = 0 /\ DOMAIN <<>> = 1..0
    BY EmptySeq, LenProperties
  <2>4. AccOK(Start, c, 0)
    BY <2>2, <2>3 DEF AccOK, UniqueUrls, KeysKnown
  <2>5. QED
    BY <1>3, <1>4, <2>1, <2>4
<1>5. CASE m # 0
  <2>1. m - 1 \in Nat /\ m - 1 \in 0..Len(c) /\ (m - 1) + 1 = m /\ m \in 1..Len(c) /\ ~(m <= m - 1)
    BY <1>0, <1>3, <1>5
  <2>2. AccOK(f[m - 1], c, m - 1)
    BY <1>2, <2>1
  <2>3. f[m] = DedupStep(f[m - 1], c[m])
    BY <2>1 DEF IsRun
  <2>4. StepOK(f[m - 1], DedupStep(f[m - 1], c[(m - 1) + 1]), c, m - 1)
    BY <2>1, <2>2, DedupStepOK
  <2>5. AccOK(f[m], c, (m - 1) + 1)
    BY <2>1, <2>3, <2>4 DEF StepOK
  <2>6. QED
    BY <1>3, <2>1, <2>5
<1>6. QED
  BY <1>4, <1>5

\* What holds those that stay, and all that are linked, holds every posting: from
\* the last posting back to the first.
LEMMA DedupRunBack ==
  ASSUME NEW c \in Seq(Posting), NEW f, IsRun(f, c, Len(c)), NEW C \in SUBSET ToSet(c),
         ClosedIn(C, ToSet(c)), KeptIn(f[Len(c)], C)
  PROVE  \A i \in 1..Len(c) : c[i] \in C
<1> DEFINE Bad == {d \in 0..Len(c) : ~KeptIn(f[Len(c) - d], C)}
<1>0. Len(c) \in Nat
  BY LenProperties
<1>1. ASSUME NEW i \in 0..Len(c) - 1, KeptIn(f[i + 1], C)
      PROVE  KeptIn(f[i], C) /\ c[i + 1] \in C
  <2>1. i \in Nat /\ i + 1 \in 1..Len(c) /\ i \in 0..Len(c) /\ (i + 1) - 1 = i
    BY <1>0
  <2>2. AccOK(f[i], c, i)
    BY <2>1, DedupRunOK
  <2>3. StepOK(f[i], DedupStep(f[i], c[i + 1]), c, i)
    BY <2>1, <2>2, DedupStepOK
  <2>4. f[i + 1] = DedupStep(f[i], c[i + 1])
    BY <2>1 DEF IsRun
  <2>5. QED
    BY <1>1, <2>3, <2>4 DEF StepOK
<1>2. Bad = {}
  <2>1. SUFFICES ASSUME Bad # {} PROVE FALSE
    OBVIOUS
  <2>2. PICK m \in Bad : \A k \in Bad : m <= k
    <3>1. Bad \in SUBSET Nat
      BY <1>0
    <3>2. QED
      BY <2>1, <3>1, LeastElement
  <2>3. m \in 0..Len(c) /\ ~KeptIn(f[Len(c) - m], C)
    BY <2>2
  <2>4. m # 0
    BY <1>0, <2>3
  <2>5. /\ m - 1 \in 0..Len(c) /\ ~(m <= m - 1) /\ Len(c) - m \in 0..Len(c) - 1
        /\ Len(c) - (m - 1) = (Len(c) - m) + 1
    BY <1>0, <2>3, <2>4
  <2>6. KeptIn(f[(Len(c) - m) + 1], C)
    BY <2>2, <2>5
  <2>7. QED
    BY <1>1, <2>3, <2>5, <2>6
<1>3. ASSUME NEW i \in 1..Len(c)
      PROVE  c[i] \in C
  <2>1. /\ Len(c) - i \in 0..Len(c) /\ Len(c) - (Len(c) - i) = i
        /\ i - 1 \in 0..Len(c) - 1 /\ (i - 1) + 1 = i
    BY <1>0
  <2>2. KeptIn(f[i], C)
    BY <1>2, <2>1
  <2>3. QED
    BY <1>1, <2>1, <2>2
<1>4. QED
  BY <1>3

\* DedupCovers, said of any list and what is left of it.
Covers(c, kept) ==
  /\ ToSet(kept) \subseteq ToSet(c)
  /\ \A C \in SUBSET ToSet(c) : ToSet(kept) \subseteq C /\ ClosedIn(C, ToSet(c)) => C = ToSet(c)
  /\ \A i, j \in DOMAIN kept : kept[i].url = kept[j].url => i = j

\* deduplicate_jobs returns a list that covers the one it is given, for every list.
THEOREM DedupReturns ==
  ASSUME NEW c \in Seq(Posting)
  PROVE  Dedup(c) \in Seq(Posting) /\ Covers(c, Dedup(c))
<1>0. Len(c) \in Nat
  BY LenProperties
<1>1. PICK f : IsRun(f, c, Len(c)) /\ Dedup(c) = f[Len(c)].kept
  BY <1>0, DedupRuns
<1> DEFINE kept == f[Len(c)].kept
<1>2. AccOK(f[Len(c)], c, Len(c))
  BY <1>0, <1>1, DedupRunOK
<1>3. /\ kept \in Seq(Posting) /\ UniqueUrls(kept)
      /\ \A k \in 1..Len(kept) : \E n \in 1..Len(c) : kept[k] = c[n]
  BY <1>2 DEF AccOK
<1>4. DOMAIN kept = 1..Len(kept) /\ ToSet(kept) = {kept[k] : k \in 1..Len(kept)}
  BY <1>3, AllPostings, LenProperties
<1>5. ToSet(kept) \subseteq ToSet(c)
  BY <1>3, <1>4, AllPostings
<1>6. ASSUME NEW C \in SUBSET ToSet(c), ToSet(kept) \subseteq C, ClosedIn(C, ToSet(c))
      PROVE  C = ToSet(c)
  <2>1. KeptIn(f[Len(c)], C)
    BY <1>4, <1>6 DEF KeptIn
  <2>2. \A i \in 1..Len(c) : c[i] \in C
    BY <1>1, <1>6, <2>1, DedupRunBack
  <2>3. QED
    BY <2>2, AllPostings
<1>7. \A i, j \in DOMAIN kept : kept[i].url = kept[j].url => i = j
  BY <1>3, <1>4 DEF UniqueUrls
<1>8. Covers(c, kept)
  BY <1>5, <1>6, <1>7 DEF Covers
<1>9. QED
  BY <1>1, <1>3, <1>8

--------------------------------------------------------------------------------
(* The inductive invariant                                                 *)

\* No two jobs of one canonical URL, no two sources of one name and external id:
\* of a store, so that a rollback finds it too.
UniqueIn(s) ==
  /\ \A i, j \in DOMAIN s.jobs : s.jobs[i].url = s.jobs[j].url => i = j
  /\ \A r, t \in s.sources : r.ext # None /\ r.source = t.source /\ r.ext = t.ext => r = t

\* The snapshots of a job tell its texts.
JobComplete(job) ==
  /\ IF job.snapshots = <<>> THEN job.text = 0 ELSE Last(job.snapshots) = job.text
  /\ \A i \in 1..Len(job.snapshots) - 1 : job.snapshots[i] # job.snapshots[i + 1]
CompleteIn(s) == \A j \in DOMAIN s.jobs : JobComplete(s.jobs[j])

\* The external id of every posting of P is recorded.
RecordedIn(s, P) ==
  \A p \in P : p.ext # None => \E r \in s.sources : r.source = p.source /\ r.ext = p.ext

\* What the queries see is the store but for the changes of one job, and never
\* another URL of it.
Alike(a, b) ==
  /\ a.companies = b.companies /\ a.sources = b.sources
  /\ DOMAIN a.jobs = DOMAIN b.jobs
  /\ \A j \in DOMAIN b.jobs : a.jobs[j].url = b.jobs[j].url
  /\ \A i, j \in DOMAIN b.jobs : a.jobs[i] # b.jobs[i] /\ a.jobs[j] # b.jobs[j] => i = j

StoresInv == UniqueIn(db) /\ UniqueIn(mem) /\ CompleteIn(db) /\ CompleteIn(mem)
RecordsInv == RecordedIn(db, known) /\ RecordedIn(mem, known \cup batch)
SessionInv == Alike(seen, mem) /\ ~missed
ListInv == collected # <<>> => Covers(collected, queue)

IInv == TypeOK /\ StoresInv /\ RecordsInv /\ SessionInv /\ ListInv

--------------------------------------------------------------------------------
(* The operators of JobIngestionService                                    *)

\* The constants, field by field of a posting.
LEMMA Constants ==
  /\ \A p \in Posting : /\ p.text \in Nat /\ p.text \in Of("text") /\ p.url \in Of("url")
                        /\ p.source \in Of("source") /\ p.ext \in Of("ext")
                        /\ p.company \in Of("company") /\ p.title \in Of("title")
                        /\ p.location \in Of("location")
  /\ BatchSize \in Nat \ {0} /\ MaxCollected \in Nat /\ MaxScans \in Nat /\ MaxFaults \in Nat
BY ConstantsOK DEF Of

\* Of four rules the first that finds anything.
LEMMA FirstOfFour ==
  ASSUME NEW a, NEW b, NEW c, NEW d
  PROVE  FirstNonEmpty(<<a, b, c, d>>) = IF a # {} THEN a ELSE IF b # {} THEN b ELSE IF c # {} THEN c ELSE d
<1> DEFINE s == <<a, b, c, d>>
           hits == {i \in DOMAIN s : s[i] # {}}
           first == CHOOSE i \in hits : \A k \in hits : i <= k
<1>1. DOMAIN s = 1..4 /\ s[1] = a /\ s[2] = b /\ s[3] = c /\ s[4] = d
  OBVIOUS
<1>2. FirstNonEmpty(s) = IF hits = {} THEN {} ELSE s[first]
  BY DEF FirstNonEmpty
<1>3. \A i \in hits : (\A k \in hits : i <= k) => first = i
  <2>1. SUFFICES ASSUME NEW i \in hits, \A k \in hits : i <= k
                 PROVE  first = i
    OBVIOUS
  <2>2. first \in hits /\ \A k \in hits : first <= k
    BY <2>1
  <2>3. first <= i /\ i <= first /\ first \in Nat /\ i \in Nat
    BY <1>1, <2>1, <2>2
  <2> HIDE DEF first
  <2>4. QED
    BY <2>3
<1> HIDE DEF s, first
<1>4. CASE a # {}
  <2>1. 1 \in hits /\ \A k \in hits : 1 <= k
    BY <1>1, <1>4
  <2>2. QED
    BY <1>1, <1>2, <1>3, <1>4, <2>1 DEF s
<1>5. CASE a = {} /\ b # {}
  <2>1. 2 \in hits /\ \A k \in hits : 2 <= k
    BY <1>1, <1>5
  <2>2. QED
    BY <1>1, <1>2, <1>3, <1>5, <2>1 DEF s
<1>6. CASE a = {} /\ b = {} /\ c # {}
  <2>1. 3 \in hits /\ \A k \in hits : 3 <= k
    BY <1>1, <1>6
  <2>2. QED
    BY <1>1, <1>2, <1>3, <1>6, <2>1 DEF s
<1>7. CASE a = {} /\ b = {} /\ c = {} /\ d # {}
  <2>1. 4 \in hits /\ \A k \in hits : 4 <= k
    BY <1>1, <1>7
  <2>2. QED
    BY <1>1, <1>2, <1>3, <1>7, <2>1 DEF s
<1>8. CASE a = {} /\ b = {} /\ c = {} /\ d = {}
  <2>1. hits = {}
    BY <1>1, <1>8
  <2>2. QED
    BY <1>2, <1>8, <2>1 DEF s
<1>9. QED
  BY <1>4, <1>5, <1>6, <1>7, <1>8

\* What _find_existing returns is a job, and one that has the external id if any has.
LEMMA MatchesOK ==
  ASSUME NEW p, NEW q, \A r \in q.sources : r.job \in DOMAIN q.jobs
  PROVE  /\ Matches(p, q) \subseteq DOMAIN q.jobs
         /\ ByExternalId(p, q) # {} => Matches(p, q) = ByExternalId(p, q)
         /\ Matches(p, q) = {} <=> /\ ByExternalId(p, q) = {} /\ ByUrl(p, q) = {}
                                   /\ ByText(p, q) = {} /\ ByPlace(p, q) = {}
<1>1. Matches(p, q) = IF ByExternalId(p, q) # {} THEN ByExternalId(p, q)
                      ELSE IF ByUrl(p, q) # {} THEN ByUrl(p, q)
                      ELSE IF ByText(p, q) # {} THEN ByText(p, q) ELSE ByPlace(p, q)
  BY FirstOfFour DEF Matches
<1>2. ByExternalId(p, q) \subseteq DOMAIN q.jobs
  BY DEF ByExternalId
<1>3. /\ ByUrl(p, q) \subseteq DOMAIN q.jobs /\ ByText(p, q) \subseteq DOMAIN q.jobs
      /\ ByPlace(p, q) \subseteq DOMAIN q.jobs
  BY DEF ByUrl, ByText, ByPlace
<1>4. QED
  BY <1>1, <1>2, <1>3

\* _upsert_source on sources that are unique, when the ones of the posting's
\* external id, if it has one, are of the job it was found for.
LEMMA SourceUpserted ==
  ASSUME NEW sources \in SUBSET JobSource, NEW j \in Nat, NEW p \in Posting,
         \A r, t \in sources : r.ext # None /\ r.source = t.source /\ r.ext = t.ext => r = t,
         p.ext # None => \A r \in sources : r.source = p.source /\ r.ext = p.ext => r.job = j
  PROVE  LET new == UpsertSource(sources, j, p) IN
         /\ new \subseteq JobSource
         /\ \A r, t \in new : r.ext # None /\ r.source = t.source /\ r.ext = t.ext => r = t
         /\ \A r \in new : r.job = j \/ \E t \in sources : t.job = r.job
         /\ \A t \in sources : \E r \in new : r.source = t.source /\ r.ext = t.ext
         /\ p.ext # None => \E r \in new : r.source = p.source /\ r.ext = p.ext
<1> DEFINE mine == {s \in sources : /\ s.job = j /\ s.source = p.source
                                    /\ IF p.ext # None THEN s.ext = p.ext ELSE s.url = p.url}
           added == [job |-> j, source |-> p.source, ext |-> p.ext, url |-> p.url]
           moved == {[s EXCEPT !.url = p.url] : s \in mine}
           new == UpsertSource(sources, j, p)
<1>1. new = IF mine = {} THEN sources \cup {added} ELSE (sources \ mine) \cup moved
  BY DEF UpsertSource
<1>2. added \in JobSource
  BY Constants DEF JobSource
<1>3. \A s \in mine : /\ s \in sources /\ s.job = j /\ s.source = p.source
                      /\ p.ext # None => s.ext = p.ext
                      /\ p.ext = None => s.url = p.url
  OBVIOUS
<1>4. \A s \in sources : s \in JobSource /\ s = [job |-> s.job, source |-> s.source, ext |-> s.ext, url |-> s.url]
  BY DEF JobSource
<1>5. \A s \in sources : [s EXCEPT !.url = p.url] = [job |-> s.job, source |-> s.source, ext |-> s.ext, url |-> p.url]
  BY <1>4
<1>6. \A s \in sources : s \notin mine =>
        \/ s.job # j \/ s.source # p.source
        \/ p.ext # None /\ s.ext # p.ext
        \/ p.ext = None /\ s.url # p.url
  OBVIOUS
<1>7. mine # {} => /\ \A r \in moved : \E s \in mine : r = [job |-> s.job, source |-> s.source, ext |-> s.ext, url |-> p.url]
                   /\ \A s \in mine : [job |-> s.job, source |-> s.source, ext |-> s.ext, url |-> p.url] \in moved
  BY <1>3, <1>5
<1> HIDE DEF mine, added, moved, new
<1>8. CASE mine = {}
  <2>1. new = sources \cup {added}
    BY <1>1, <1>8
  <2>2. added.job = j /\ added.source = p.source /\ added.ext = p.ext
    BY DEF added
  <2>3. p.ext # None => \A r \in sources : ~(r.source = p.source /\ r.ext = p.ext)
    BY <1>6, <1>8
  <2>4. new \subseteq JobSource
    BY <1>2, <2>1
  <2>5. \A r, t \in new : r.ext # None /\ r.source = t.source /\ r.ext = t.ext => r = t
    BY <2>1, <2>2, <2>3
  <2>6. QED
    BY <2>1, <2>2, <2>4, <2>5 DEF new
<1>9. CASE mine # {} /\ p.ext = None
  <2>1. moved = mine
    <3>1. \A s \in mine : [job |-> s.job, source |-> s.source, ext |-> s.ext, url |-> p.url] = s
      BY <1>3, <1>4, <1>9
    <3>2. QED
      BY <1>7, <1>9, <3>1
  <2>2. new = sources
    BY <1>1, <1>3, <1>9, <2>1
  <2>3. QED
    BY <1>9, <2>2 DEF new
<1>10. CASE mine # {} /\ p.ext # None
  <2>1. new = (sources \ mine) \cup moved
    BY <1>1, <1>10
  <2>2. \A r \in moved : r \in JobSource /\ r.job = j /\ r.source = p.source /\ r.ext = p.ext /\ r.url = p.url
    <3>1. TAKE r \in moved
    <3>2. PICK s \in mine : r = [job |-> s.job, source |-> s.source, ext |-> s.ext, url |-> p.url]
      BY <1>7, <1>10
    <3>3. QED
      BY <1>3, <1>10, <3>2, Constants DEF JobSource
  <2>3. \A r \in sources \ mine : ~(r.source = p.source /\ r.ext = p.ext)
    BY <1>6, <1>10
  <2>4. \A r, t \in moved : r = t
    <3>1. TAKE r, t \in moved
    <3>2. PICK a \in mine : r = [job |-> a.job, source |-> a.source, ext |-> a.ext, url |-> p.url]
      BY <1>7, <1>10
    <3>3. PICK b \in mine : t = [job |-> b.job, source |-> b.source, ext |-> b.ext, url |-> p.url]
      BY <1>7, <1>10
    <3>4. QED
      BY <1>3, <1>10, <3>2, <3>3
  <2>5. \E r \in moved : TRUE
    BY <1>7, <1>10
  <2>6. new \subseteq JobSource
    BY <2>1, <2>2
  <2>7. \A r, t \in new : r.ext # None /\ r.source = t.source /\ r.ext = t.ext => r = t
    BY <2>1, <2>2, <2>3, <2>4
  <2>8. \A t \in sources : \E r \in new : r.source = t.source /\ r.ext = t.ext
    <3>1. TAKE t \in sources
    <3>2. CASE t \in mine
      BY <1>3, <1>10, <2>1, <2>2, <2>5, <3>2
    <3>3. CASE t \notin mine
      BY <2>1, <3>3
    <3>4. QED
      BY <3>2, <3>3
  <2>9. \A r \in new : r.job = j \/ \E t \in sources : t.job = r.job
    BY <2>1, <2>2
  <2>10. \E r \in new : r.source = p.source /\ r.ext = p.ext
    BY <2>1, <2>2, <2>5
  <2>11. QED
    BY <2>6, <2>7, <2>8, <2>9, <2>10 DEF new
<1>11. QED
  BY <1>8, <1>9, <1>10

\* A job as it is created, and one as it is updated, are jobs whose snapshots tell
\* their texts; an update leaves the URL and the company.
Created(p) == [NewJob(p) EXCEPT !.snapshots = IF NeedsSnapshot(0, p) THEN <<p.text>> ELSE <<>>]

LEMMA CreatedOK ==
  ASSUME NEW p \in Posting
  PROVE  /\ NewJob(p) \in Job /\ Created(p) \in Job /\ JobComplete(Created(p))
         /\ NewJob(p).url = p.url /\ Created(p).url = p.url
         /\ NewJob(p).company = p.company /\ Created(p).company = p.company
<1>1. NewJob(p) \in Job
  BY Constants DEF NewJob, Job
<1> DEFINE snaps == IF NeedsSnapshot(0, p) THEN <<p.text>> ELSE <<>>
<1>2. Created(p) = [url |-> p.url, company |-> p.company, title |-> p.title,
                    location |-> p.location, text |-> p.text, snapshots |-> snaps]
  BY DEF Created, NewJob
<1>3. snaps \in Seq(Of("text")) /\ Len(snaps) \in {0, 1}
  BY Constants
<1>4. Created(p) \in Job
  BY <1>2, <1>3, Constants DEF Job
<1>5. IF snaps = <<>> THEN p.text = 0 ELSE Last(snaps) = p.text
  BY DEF NeedsSnapshot, Last
<1>6. JobComplete(Created(p))
  BY <1>2, <1>3, <1>5 DEF JobComplete
<1>7. QED
  BY <1>1, <1>2, <1>4, <1>6 DEF NewJob

LEMMA UpdatedOK ==
  ASSUME NEW p \in Posting, NEW job \in Job
  PROVE  /\ Updated(job, p) \in Job
         /\ JobComplete(job) => JobComplete(Updated(job, p))
         /\ Updated(job, p).url = job.url /\ Updated(job, p).company = job.company
<1> DEFINE h == job.snapshots
           snaps == IF NeedsSnapshot(job.text, p) THEN Append(h, p.text) ELSE h
           text == IF p.text # 0 THEN p.text ELSE job.text
           location == IF p.location # None THEN p.location ELSE job.location
<1>1. Updated(job, p) = [url |-> job.url, company |-> job.company, title |-> p.title,
                         location |-> location, text |-> text, snapshots |-> snaps]
  <2>1. job = [url |-> job.url, company |-> job.company, title |-> job.title,
               location |-> job.location, text |-> job.text, snapshots |-> job.snapshots]
    BY DEF Job
  <2>2. Updated(job, p) = [job EXCEPT !.title = p.title, !.location = location, !.text = text,
                                      !.snapshots = snaps]
    BY DEF Updated
  <2> HIDE DEF h, snaps, text, location
  <2>3. QED
    BY <2>1, <2>2
<1>2. /\ h \in Seq(Of("text")) /\ Len(h) \in Nat /\ job.url \in Of("url") /\ job.company \in Of("company")
      /\ job.location \in Of("location") /\ job.text \in Of("text") \cup {0}
  BY LenProperties DEF Job
<1>3. /\ Append(h, p.text) \in Seq(Of("text")) /\ Append(h, p.text) # <<>>
      /\ Len(Append(h, p.text)) = Len(h) + 1
      /\ \A i \in 1..Len(h) : Append(h, p.text)[i] = h[i]
      /\ Append(h, p.text)[Len(h) + 1] = p.text
  BY <1>2, Constants, AppendProperties
<1>4. snaps \in Seq(Of("text")) /\ text \in Of("text") \cup {0} /\ location \in Of("location")
  BY <1>2, <1>3, Constants
<1>5. Updated(job, p) \in Job
  BY <1>1, <1>2, <1>4, Constants DEF Job
<1>6. ASSUME JobComplete(job)
      PROVE  JobComplete(Updated(job, p))
  <2>0. /\ IF h = <<>> THEN job.text = 0 ELSE Last(h) = job.text
        /\ \A i \in 1..Len(h) - 1 : h[i] # h[i + 1]
    BY <1>6 DEF JobComplete
  <2> HIDE DEF h
  <2>1. CASE NeedsSnapshot(job.text, p)
    <3>1. snaps = Append(h, p.text) /\ text = p.text /\ p.text # job.text
      BY <2>1 DEF NeedsSnapshot
    <3>2. Last(snaps) = text /\ snaps # <<>>
      BY <1>2, <1>3, <3>1 DEF Last
    <3>3. ASSUME NEW i \in 1..Len(snaps) - 1
          PROVE  snaps[i] # snaps[i + 1]
      <4>1. CASE i = Len(h)
        <5>1. h # <<>> /\ Last(h) = h[i]
          BY <1>2, <3>3, <4>1 DEF Last
        <5>2. snaps[i] = h[i] /\ snaps[i + 1] = p.text
          BY <1>2, <1>3, <3>1, <3>3, <4>1
        <5>3. QED
          BY <2>0, <3>1, <5>1, <5>2
      <4>2. CASE i # Len(h)
        <5>1. i \in 1..Len(h) - 1 /\ i \in 1..Len(h) /\ i + 1 \in 1..Len(h)
          BY <1>2, <1>3, <3>1, <3>3, <4>2
        <5>2. snaps[i] = h[i] /\ snaps[i + 1] = h[i + 1]
          BY <1>3, <3>1, <5>1
        <5>3. QED
          BY <2>0, <5>1, <5>2
      <4>3. QED
        BY <4>1, <4>2
    <3>4. QED
      BY <1>1, <3>2, <3>3 DEF JobComplete
  <2>2. CASE ~NeedsSnapshot(job.text, p)
    <3>1. snaps = h /\ text = job.text
      BY <2>2 DEF NeedsSnapshot
    <3>2. QED
      BY <1>1, <2>0, <3>1 DEF JobComplete
  <2>3. QED
    BY <2>1, <2>2
<1>7. QED
  BY <1>1, <1>5, <1>6

--------------------------------------------------------------------------------
(* One posting                                                             *)

\* What the queries see for posting p, once its company is there.
Visible(p) == IF p.company \in mem.companies THEN seen ELSE mem

\* The new job of p in a store, and its source.
WithJob(p, job) ==
  [companies |-> mem.companies \cup {p.company}, jobs |-> Append(mem.jobs, job),
   sources |-> UpsertSource(mem.sources, Len(mem.jobs) + 1, p)]

\* Posting p found at job j: the store with these jobs.
WithSource(p, j, jobs) ==
  [companies |-> mem.companies \cup {p.company}, jobs |-> jobs,
   sources |-> UpsertSource(mem.sources, j, p)]

CreatedFor(p) ==
  /\ Matches(p, Visible(p)) = {}
  /\ seen' = WithJob(p, NewJob(p)) /\ mem' = WithJob(p, Created(p))

UpdatedFor(p, j) ==
  /\ j \in Matches(p, Visible(p))
  /\ seen' = WithSource(p, j, mem.jobs)
  /\ mem' = WithSource(p, j, [mem.jobs EXCEPT ![j] = Updated(mem.jobs[j], p)])

\* The assignments of Ingest to a store, field by field.
LEMMA SnapshotsSet ==
  ASSUME NEW companies, NEW jobs, NEW sources, NEW n, NEW snaps
  PROVE  [[companies |-> companies, jobs |-> jobs, sources |-> sources]
             EXCEPT !.jobs[n].snapshots = snaps]
           = [companies |-> companies, sources |-> sources,
              jobs |-> [jobs EXCEPT ![n] = [jobs[n] EXCEPT !.snapshots = snaps]]]
OBVIOUS

\* One posting is a new job or is found at one there is.
LEMMA IngestOf ==
  ASSUME TypeOK, Ingest
  PROVE  \E p \in Posting :
           /\ CreatedFor(p) \/ \E j : UpdatedFor(p, j)
           /\ batch' = batch \cup {p}
           /\ missed' = (missed \/ (Matches(p, Visible(p)) = {} /\ Matches(p, mem) \ Unflushed # {}))
<1> DEFINE p == Head(queue)
<1>1. p \in Posting
  BY HeadTailProperties DEF TypeOK, Ingest
<1>2. /\ batch' = batch \cup {p}
      /\ missed' = (missed \/ (Matches(p, Visible(p)) = {} /\ Matches(p, mem) \ Unflushed # {}))
  BY DEF Ingest, Visible
<1>3. mem = [companies |-> mem.companies, jobs |-> mem.jobs, sources |-> mem.sources]
  BY DEF TypeOK, StoreOK
<1>4. mem.jobs \in Seq(Job) /\ Len(mem.jobs) \in Nat
  BY LenProperties DEF TypeOK, StoreOK
<1>5. CASE /\ Matches(p, Visible(p)) = {}
           /\ seen' = WithJob(p, NewJob(p))
           /\ mem' = [seen' EXCEPT !.jobs[Len(seen'.jobs)].snapshots =
                        IF NeedsSnapshot(0, p) THEN <<p.text>> ELSE <<>>]
  <2> DEFINE jobs == Append(mem.jobs, NewJob(p))
             snaps == IF NeedsSnapshot(0, p) THEN <<p.text>> ELSE <<>>
             n == Len(mem.jobs) + 1
  <2>1. NewJob(p) \in Job /\ Created(p) \in Job
    BY <1>1, CreatedOK
  <2>2. /\ jobs \in Seq(Job) /\ Len(jobs) = n /\ jobs[n] = NewJob(p)
        /\ \A i \in 1..Len(mem.jobs) : jobs[i] = mem.jobs[i]
    BY <1>4, <2>1, AppendProperties
  <2> DEFINE companies == mem.companies \cup {p.company}
             sources == UpsertSource(mem.sources, n, p)
  <2>3. mem' = [companies |-> companies, sources |-> sources,
                jobs |-> [jobs EXCEPT ![n] = [NewJob(p) EXCEPT !.snapshots = snaps]]]
    <3>1. seen' = [companies |-> companies, jobs |-> jobs, sources |-> sources]
      BY <1>5 DEF WithJob
    <3>2. mem' = [seen' EXCEPT !.jobs[n].snapshots = snaps]
      <4>1. seen'.jobs = jobs
        BY <3>1
      <4>2. QED
        BY <1>5, <2>2, <4>1
    <3> HIDE DEF jobs, snaps, companies, sources
    <3>3. mem' = [[companies |-> companies, jobs |-> jobs, sources |-> sources]
                    EXCEPT !.jobs[n].snapshots = snaps]
      BY <3>1, <3>2
    <3>4. mem' = [companies |-> companies, sources |-> sources,
                  jobs |-> [jobs EXCEPT ![n] = [jobs[n] EXCEPT !.snapshots = snaps]]]
      BY <3>3, SnapshotsSet
    <3>5. QED
      BY <2>2, <3>4
  <2>4. [jobs EXCEPT ![n] = Created(p)] = Append(mem.jobs, Created(p))
    <3> DEFINE a == [jobs EXCEPT ![n] = Created(p)]
               b == Append(mem.jobs, Created(p))
    <3>1. /\ a \in Seq(Job) /\ Len(a) = n
          /\ \A i \in 1..n : a[i] = IF i = n THEN Created(p) ELSE jobs[i]
      <4>1. n \in 1..Len(jobs)
        BY <1>4, <2>2
      <4> HIDE DEF jobs
      <4>2. QED
        BY <2>1, <2>2, <4>1, ExceptSeq
    <3>2. /\ b \in Seq(Job) /\ Len(b) = n /\ b[n] = Created(p)
          /\ \A i \in 1..Len(mem.jobs) : b[i] = mem.jobs[i]
      BY <1>4, <2>1, AppendProperties
    <3> HIDE DEF a, b
    <3>3. \A i \in 1..Len(a) : a[i] = b[i]
      BY <1>4, <2>2, <3>1, <3>2
    <3>4. a = b
      BY <3>1, <3>2, <3>3, SeqEqual
    <3>5. QED
      BY <3>4 DEF a, b
  <2>5. mem' = [companies |-> companies, sources |-> sources, jobs |-> Append(mem.jobs, Created(p))]
    BY <2>3, <2>4 DEF Created
  <2>6. mem' = WithJob(p, Created(p))
    BY <2>5 DEF WithJob
  <2>7. CreatedFor(p)
    BY <1>5, <2>6 DEF CreatedFor
  <2>8. QED
    BY <1>1, <1>2, <2>7
<1>6. CASE \E j \in Matches(p, Visible(p)) :
             /\ seen' = SourceFlushed(j, p)
             /\ mem' = [mem EXCEPT !.companies = seen'.companies, !.sources = seen'.sources,
                                   !.jobs[j] = Updated(@, p)]
  <2>1. PICK j \in Matches(p, Visible(p)) :
             /\ seen' = SourceFlushed(j, p)
             /\ mem' = [mem EXCEPT !.companies = seen'.companies, !.sources = seen'.sources,
                                   !.jobs[j] = Updated(@, p)]
    BY <1>6
  <2>2. SourceFlushed(j, p) = WithSource(p, j, mem.jobs)
    <3>1. SourceFlushed(j, p) = [mem EXCEPT !.companies = mem.companies \cup {p.company},
                                            !.sources = UpsertSource(mem.sources, j, p)]
      BY DEF SourceFlushed
    <3> DEFINE sources == UpsertSource(mem.sources, j, p)
               companies == mem.companies \cup {p.company}
    <3>2. WithSource(p, j, mem.jobs) = [companies |-> companies, jobs |-> mem.jobs, sources |-> sources]
      BY DEF WithSource
    <3> HIDE DEF sources, companies
    <3>3. QED
      BY <1>3, <3>1, <3>2 DEF sources, companies
  <2>3. /\ seen'.companies = mem.companies \cup {p.company}
        /\ seen'.sources = UpsertSource(mem.sources, j, p)
    BY <2>1, <2>2 DEF WithSource
  <2>4. mem' = WithSource(p, j, [mem.jobs EXCEPT ![j] = Updated(mem.jobs[j], p)])
    BY <1>3, <2>1, <2>3 DEF WithSource
  <2>5. UpdatedFor(p, j)
    BY <2>1, <2>2, <2>4 DEF UpdatedFor
  <2>6. QED
    BY <1>1, <1>2, <2>5
<1>7. QED
  <2>1. LET q == IF p.company \in mem.companies THEN seen ELSE mem IN Visible(p) = q
    BY DEF Visible
  <2>2. QED
    BY <1>5, <1>6 DEF Ingest, Visible, WithJob

\* The sources of a store: no two of one name and external id; and the external
\* ids of other are kept, that of p added.
UniqueSources(sources) ==
  \A r, t \in sources : r.ext # None /\ r.source = t.source /\ r.ext = t.ext => r = t
Recorded(sources, other, p) ==
  /\ \A t \in other : \E r \in sources : r.source = t.source /\ r.ext = t.ext
  /\ p.ext # None => \E r \in sources : r.source = p.source /\ r.ext = p.ext

\* The queries of a session see the sources and URLs in memory.
LEMMA VisibleOK ==
  ASSUME TypeOK, SessionInv, NEW p
  PROVE  /\ Visible(p) \in {seen, mem} /\ Visible(p).sources = mem.sources
         /\ DOMAIN Visible(p).jobs = DOMAIN mem.jobs
         /\ \A j \in DOMAIN mem.jobs : Visible(p).jobs[j].url = mem.jobs[j].url
         /\ \A r \in Visible(p).sources : r.job \in DOMAIN Visible(p).jobs
         /\ ByExternalId(p, Visible(p)) = ByExternalId(p, mem)
         /\ ByUrl(p, Visible(p)) = ByUrl(p, mem)
<1>1. Visible(p) \in {seen, mem}
  BY DEF Visible
<1>2. seen.sources = mem.sources /\ DOMAIN seen.jobs = DOMAIN mem.jobs
  BY DEF SessionInv, Alike
<1>3. \A j \in DOMAIN mem.jobs : seen.jobs[j].url = mem.jobs[j].url
  BY DEF SessionInv, Alike
<1>4. \A r \in mem.sources : r.job \in DOMAIN mem.jobs
  BY DEF TypeOK, StoreOK
<1> DEFINE q == Visible(p)
<1> HIDE DEF q
<1>5. /\ q.sources = mem.sources /\ DOMAIN q.jobs = DOMAIN mem.jobs
      /\ \A j \in DOMAIN mem.jobs : q.jobs[j].url = mem.jobs[j].url
  BY <1>1, <1>2, <1>3 DEF q
<1>6. ByExternalId(p, q) = ByExternalId(p, mem) /\ ByUrl(p, q) = ByUrl(p, mem)
  BY <1>5 DEF ByExternalId, ByUrl
<1>7. QED
  BY <1>1, <1>4, <1>5, <1>6 DEF q

\* The store with a new job.
LEMMA WithJobOK ==
  ASSUME TypeOK, UniqueSources(mem.sources), NEW p \in Posting, NEW job \in Job,
         job.company = p.company, ByExternalId(p, mem) = {}
  PROVE  LET s == WithJob(p, job)  n == Len(mem.jobs) + 1 IN
         /\ StoreOK(s) /\ UniqueSources(s.sources) /\ Recorded(s.sources, mem.sources, p)
         /\ n \in Nat /\ DOMAIN mem.jobs = 1..n - 1 /\ DOMAIN s.jobs = 1..n
         /\ s.jobs[n] = job /\ \A i \in 1..n - 1 : s.jobs[i] = mem.jobs[i]
<1> DEFINE n == Len(mem.jobs) + 1
           sources == UpsertSource(mem.sources, n, p)
           jobs == Append(mem.jobs, job)
           companies == mem.companies \cup {p.company}
<1>1. /\ mem.companies \subseteq Of("company") /\ mem.jobs \in Seq(Job) /\ mem.sources \subseteq JobSource
      /\ \A i \in DOMAIN mem.jobs : mem.jobs[i].company \in mem.companies
      /\ \A r \in mem.sources : r.job \in DOMAIN mem.jobs
  BY DEF TypeOK, StoreOK
<1>2. Len(mem.jobs) \in Nat /\ DOMAIN mem.jobs = 1..Len(mem.jobs)
  BY <1>1, LenProperties
<1>3. /\ jobs \in Seq(Job) /\ Len(jobs) = n /\ jobs[n] = job
      /\ \A i \in 1..Len(mem.jobs) : jobs[i] = mem.jobs[i]
  BY <1>1, AppendProperties
<1>4. DOMAIN jobs = 1..n
  BY <1>3, LenProperties
<1>5. p.ext # None => \A r \in mem.sources : r.source = p.source /\ r.ext = p.ext => r.job = n
  BY DEF ByExternalId
<1>6. /\ sources \subseteq JobSource /\ UniqueSources(sources) /\ Recorded(sources, mem.sources, p)
      /\ \A r \in sources : r.job = n \/ \E t \in mem.sources : t.job = r.job
  BY <1>1, <1>2, <1>5, SourceUpserted DEF UniqueSources, Recorded
<1> HIDE DEF jobs, sources, companies
<1>7. companies \subseteq Of("company") /\ p.company \in companies /\ mem.companies \subseteq companies
  BY <1>1, Constants DEF companies
<1>8. \A i \in DOMAIN jobs : jobs[i].company \in companies
  BY <1>1, <1>2, <1>3, <1>4, <1>7
<1>9. \A r \in sources : r.job \in DOMAIN jobs
  BY <1>1, <1>2, <1>4, <1>6
<1>10. WithJob(p, job) = [companies |-> companies, jobs |-> jobs, sources |-> sources]
  BY DEF WithJob, companies, jobs, sources
<1>11. StoreOK(WithJob(p, job))
  BY <1>3, <1>6, <1>7, <1>8, <1>9, <1>10 DEF StoreOK
<1>12. n - 1 = Len(mem.jobs) /\ n \in Nat
  BY <1>2
<1>13. WithJob(p, job).jobs = jobs /\ WithJob(p, job).sources = sources
  BY <1>10
<1>14. QED
  BY <1>2, <1>3, <1>4, <1>6, <1>11, <1>12, <1>13

\* The store with a source for job j, its jobs changed or not.
LEMMA WithSourceOK ==
  ASSUME TypeOK, UniqueSources(mem.sources), NEW p \in Posting, NEW j \in DOMAIN mem.jobs,
         NEW jobs \in Seq(Job), DOMAIN jobs = DOMAIN mem.jobs,
         \A i \in DOMAIN mem.jobs : jobs[i].company = mem.jobs[i].company,
         p.ext # None => \A r \in mem.sources : r.source = p.source /\ r.ext = p.ext => r.job = j
  PROVE  LET s == WithSource(p, j, jobs) IN
         /\ StoreOK(s) /\ UniqueSources(s.sources) /\ Recorded(s.sources, mem.sources, p)
<1> DEFINE sources == UpsertSource(mem.sources, j, p)
           companies == mem.companies \cup {p.company}
<1>1. /\ mem.companies \subseteq Of("company") /\ mem.jobs \in Seq(Job) /\ mem.sources \subseteq JobSource
      /\ \A i \in DOMAIN mem.jobs : mem.jobs[i].company \in mem.companies
      /\ \A r \in mem.sources : r.job \in DOMAIN mem.jobs
  BY DEF TypeOK, StoreOK
<1>2. j \in Nat
  BY <1>1, LenProperties
<1>3. /\ sources \subseteq JobSource /\ UniqueSources(sources) /\ Recorded(sources, mem.sources, p)
      /\ \A r \in sources : r.job = j \/ \E t \in mem.sources : t.job = r.job
  BY <1>1, <1>2, SourceUpserted DEF UniqueSources, Recorded
<1> HIDE DEF sources, companies
<1>4. companies \subseteq Of("company") /\ mem.companies \subseteq companies
  BY <1>1, Constants DEF companies
<1>5. \A i \in DOMAIN jobs : jobs[i].company \in companies
  BY <1>1, <1>4
<1>6. \A r \in sources : r.job \in DOMAIN jobs
  BY <1>1, <1>3
<1>7. WithSource(p, j, jobs) = [companies |-> companies, jobs |-> jobs, sources |-> sources]
  BY DEF WithSource, companies, sources
<1>8. StoreOK(WithSource(p, j, jobs))
  BY <1>3, <1>4, <1>5, <1>6, <1>7 DEF StoreOK
<1>9. WithSource(p, j, jobs).sources = sources
  BY <1>7
<1>10. QED
  BY <1>3, <1>8, <1>9

\* What one posting leaves behind in the session.
Taken(p) ==
  /\ StoreOK(mem') /\ StoreOK(seen')
  /\ UniqueIn(mem') /\ CompleteIn(mem') /\ Alike(seen', mem')
  /\ Recorded(mem'.sources, mem.sources, p)

LEMMA CreatedTaken ==
  ASSUME TypeOK, StoresInv, SessionInv, NEW p \in Posting, CreatedFor(p)
  PROVE  Taken(p)
<1> DEFINE n == Len(mem.jobs) + 1
<1>1. ByExternalId(p, mem) = {} /\ ByUrl(p, mem) = {}
  BY VisibleOK, MatchesOK DEF CreatedFor
<1>2. UniqueSources(mem.sources)
  BY DEF StoresInv, UniqueIn, UniqueSources
<1>3. /\ NewJob(p) \in Job /\ Created(p) \in Job /\ JobComplete(Created(p))
      /\ NewJob(p).url = p.url /\ Created(p).url = p.url
      /\ NewJob(p).company = p.company /\ Created(p).company = p.company
  BY CreatedOK
<1>4. seen' = WithJob(p, NewJob(p)) /\ mem' = WithJob(p, Created(p))
  BY DEF CreatedFor
<1> HIDE DEF n
<1>5. /\ StoreOK(mem') /\ UniqueSources(mem'.sources) /\ Recorded(mem'.sources, mem.sources, p)
      /\ n \in Nat /\ DOMAIN mem.jobs = 1..n - 1 /\ DOMAIN mem'.jobs = 1..n
      /\ mem'.jobs[n] = Created(p) /\ \A i \in 1..n - 1 : mem'.jobs[i] = mem.jobs[i]
  BY <1>1, <1>2, <1>3, <1>4, WithJobOK DEF n
<1>6. /\ StoreOK(seen') /\ DOMAIN seen'.jobs = 1..n
      /\ seen'.jobs[n] = NewJob(p) /\ \A i \in 1..n - 1 : seen'.jobs[i] = mem.jobs[i]
  BY <1>1, <1>2, <1>3, <1>4, WithJobOK DEF n
<1>7. seen'.companies = mem'.companies /\ seen'.sources = mem'.sources
  BY <1>4 DEF WithJob
<1>8. \A i \in 1..n : i = n \/ i \in 1..n - 1
  BY <1>5
<1>9. UniqueIn(mem')
  <2>1. \A i \in 1..n - 1 : mem.jobs[i].url # p.url
    BY <1>1, <1>5 DEF ByUrl
  <2>2. \A i, k \in 1..n - 1 : mem.jobs[i].url = mem.jobs[k].url => i = k
    BY <1>5 DEF StoresInv, UniqueIn
  <2>3. ASSUME NEW i \in 1..n, NEW k \in 1..n, mem'.jobs[i].url = mem'.jobs[k].url
        PROVE  i = k
    <3>1. CASE i = n /\ k = n
      BY <3>1
    <3>2. CASE i = n /\ k \in 1..n - 1
      BY <1>3, <1>5, <2>1, <2>3, <3>2
    <3>3. CASE i \in 1..n - 1 /\ k = n
      BY <1>3, <1>5, <2>1, <2>3, <3>3
    <3>4. CASE i \in 1..n - 1 /\ k \in 1..n - 1
      BY <1>5, <2>2, <2>3, <3>4
    <3>5. QED
      BY <1>8, <3>1, <3>2, <3>3, <3>4
  <2>4. QED
    BY <1>5, <2>3 DEF UniqueIn, UniqueSources
<1>10. CompleteIn(mem')
  <2>1. \A i \in 1..n - 1 : JobComplete(mem.jobs[i])
    BY <1>5 DEF StoresInv, CompleteIn
  <2>2. \A i \in 1..n : JobComplete(mem'.jobs[i])
    BY <1>3, <1>5, <1>8, <2>1
  <2>3. QED
    BY <1>5, <2>2 DEF CompleteIn
<1>11. Alike(seen', mem')
  <2>1. \A i \in 1..n : seen'.jobs[i].url = mem'.jobs[i].url
    BY <1>3, <1>5, <1>6, <1>8
  <2>2. \A i \in 1..n : seen'.jobs[i] # mem'.jobs[i] => i = n
    BY <1>5, <1>6, <1>8
  <2>3. QED
    BY <1>5, <1>6, <1>7, <2>1, <2>2 DEF Alike
<1>12. QED
  BY <1>5, <1>6, <1>9, <1>10, <1>11 DEF Taken

LEMMA UpdatedTaken ==
  ASSUME TypeOK, StoresInv, SessionInv, NEW p \in Posting, NEW j, UpdatedFor(p, j)
  PROVE  Taken(p)
<1> DEFINE jobs == [mem.jobs EXCEPT ![j] = Updated(mem.jobs[j], p)]
<1>1. /\ seen' = WithSource(p, j, mem.jobs) /\ mem' = WithSource(p, j, jobs)
      /\ j \in Matches(p, Visible(p))
  BY DEF UpdatedFor
<1>2. j \in DOMAIN mem.jobs
  BY <1>1, VisibleOK, MatchesOK
<1>3. p.ext # None => \A r \in mem.sources : r.source = p.source /\ r.ext = p.ext => r.job = j
  <2>1. SUFFICES ASSUME p.ext # None, NEW r \in mem.sources, r.source = p.source, r.ext = p.ext
                 PROVE  r.job = j
    OBVIOUS
  <2>2. ByExternalId(p, mem) # {}
    BY <2>1 DEF ByExternalId
  <2>3. j \in ByExternalId(p, mem)
    BY <1>1, <2>2, VisibleOK, MatchesOK
  <2>4. PICK t \in mem.sources : p.ext # None /\ t.source = p.source /\ t.ext = p.ext /\ t.job = j
    BY <2>3 DEF ByExternalId
  <2>5. r = t
    BY <2>1, <2>4 DEF StoresInv, UniqueIn
  <2>6. QED
    BY <2>4, <2>5
<1>4. UniqueSources(mem.sources)
  BY DEF StoresInv, UniqueIn, UniqueSources
<1>5. /\ mem.jobs \in Seq(Job) /\ DOMAIN mem.jobs = 1..Len(mem.jobs)
      /\ \A i \in DOMAIN mem.jobs : mem.jobs[i] \in Job
  BY LenProperties, ElementOfSeq DEF TypeOK, StoreOK
<1>6. /\ Updated(mem.jobs[j], p) \in Job /\ JobComplete(Updated(mem.jobs[j], p))
      /\ Updated(mem.jobs[j], p).url = mem.jobs[j].url
      /\ Updated(mem.jobs[j], p).company = mem.jobs[j].company
  <2>1. JobComplete(mem.jobs[j])
    BY <1>2 DEF StoresInv, CompleteIn
  <2>2. QED
    BY <1>2, <1>5, <2>1, UpdatedOK
<1>7. /\ jobs \in Seq(Job) /\ DOMAIN jobs = DOMAIN mem.jobs
      /\ \A i \in DOMAIN mem.jobs : jobs[i] = IF i = j THEN Updated(mem.jobs[j], p) ELSE mem.jobs[i]
  BY <1>2, <1>5, <1>6, ExceptSeq
<1> HIDE DEF jobs
<1>8. /\ StoreOK(mem') /\ UniqueSources(mem'.sources) /\ Recorded(mem'.sources, mem.sources, p)
  <2>1. \A i \in DOMAIN mem.jobs : jobs[i].company = mem.jobs[i].company
    BY <1>6, <1>7
  <2>2. QED
    BY <1>1, <1>2, <1>3, <1>4, <1>7, <2>1, WithSourceOK
<1>9. StoreOK(seen')
  BY <1>1, <1>2, <1>3, <1>4, <1>5, WithSourceOK
<1>10. /\ mem'.jobs = jobs /\ seen'.jobs = mem.jobs /\ seen'.companies = mem'.companies
       /\ seen'.sources = mem'.sources
  BY <1>1 DEF WithSource
<1>11. \A i \in DOMAIN mem.jobs : jobs[i].url = mem.jobs[i].url
  BY <1>6, <1>7
<1>12. UniqueIn(mem')
  <2>1. \A i, k \in DOMAIN mem.jobs : mem.jobs[i].url = mem.jobs[k].url => i = k
    BY DEF StoresInv, UniqueIn
  <2>2. QED
    BY <1>7, <1>8, <1>10, <1>11, <2>1 DEF UniqueIn, UniqueSources
<1>13. CompleteIn(mem')
  <2>1. \A i \in DOMAIN mem.jobs : JobComplete(mem.jobs[i])
    BY DEF StoresInv, CompleteIn
  <2>2. QED
    BY <1>6, <1>7, <1>10, <2>1 DEF CompleteIn
<1>14. Alike(seen', mem')
  <2>1. \A i \in DOMAIN mem.jobs : mem.jobs[i] # jobs[i] => i = j
    BY <1>7
  <2>2. QED
    BY <1>7, <1>10, <1>11, <2>1 DEF Alike
<1>15. QED
  BY <1>8, <1>9, <1>12, <1>13, <1>14 DEF Taken

\* A job that matches in memory but not for the queries has changes they do not see.
LEMMA NoneMissed ==
  ASSUME TypeOK, SessionInv, NEW p, Matches(p, Visible(p)) = {}
  PROVE  Matches(p, mem) \ Unflushed = {}
<1> DEFINE q == Visible(p)
<1>1. CASE q = mem
  BY <1>1
<1>2. CASE q = seen
  <2>1. /\ ByExternalId(p, seen) = {} /\ ByUrl(p, seen) = {}
        /\ ByText(p, seen) = {} /\ ByPlace(p, seen) = {}
    BY <1>2, VisibleOK, MatchesOK
  <2>2. ByExternalId(p, mem) = {} /\ ByUrl(p, mem) = {}
    BY <1>2, <2>1, VisibleOK
  <2>3. Matches(p, mem) = IF ByText(p, mem) # {} THEN ByText(p, mem) ELSE ByPlace(p, mem)
    BY <2>2, FirstOfFour DEF Matches
  <2>4. SUFFICES ASSUME NEW j \in Matches(p, mem), j \notin Unflushed
                 PROVE  FALSE
    OBVIOUS
  <2>5. DOMAIN seen.jobs = DOMAIN mem.jobs
    BY DEF SessionInv, Alike
  <2>6. j \in ByText(p, mem) \/ j \in ByPlace(p, mem)
    BY <2>3, <2>4
  <2>7. j \in DOMAIN seen.jobs /\ seen.jobs[j] = mem.jobs[j]
    BY <2>4, <2>5, <2>6 DEF ByText, ByPlace, Unflushed
  <2>8. j \in ByText(p, seen) \/ j \in ByPlace(p, seen)
    BY <2>6, <2>7 DEF ByText, ByPlace
  <2>9. QED
    BY <2>1, <2>8
<1>3. QED
  BY <1>1, <1>2, VisibleOK

--------------------------------------------------------------------------------
(* The steps                                                               *)

\* What is recorded stays recorded, and the last posting is.
LEMMA RecordedOn ==
  ASSUME NEW P, NEW p, RecordedIn(mem, P), Recorded(mem'.sources, mem.sources, p)
  PROVE  RecordedIn(mem', P \cup {p})
<1>1. SUFFICES ASSUME NEW x \in P \cup {p}, x.ext # None
               PROVE  \E r \in mem'.sources : r.source = x.source /\ r.ext = x.ext
  BY DEF RecordedIn
<1>2. CASE x = p
  BY <1>1, <1>2 DEF Recorded
<1>3. CASE x \in P
  <2>1. PICK t \in mem.sources : t.source = x.source /\ t.ext = x.ext
    BY <1>1, <1>3 DEF RecordedIn
  <2>2. QED
    BY <2>1 DEF Recorded
<1>4. QED
  BY <1>2, <1>3

\* Ingest: one more posting of the batch is in the session.
LEMMA IngestStep ==
  ASSUME IInv, Ingest
  PROVE  IInv'
<1>1. PICK p \in Posting :
           /\ CreatedFor(p) \/ \E j : UpdatedFor(p, j)
           /\ batch' = batch \cup {p}
           /\ missed' = (missed \/ (Matches(p, Visible(p)) = {} /\ Matches(p, mem) \ Unflushed # {}))
  BY IngestOf DEF IInv
<1>2. Taken(p)
  BY <1>1, CreatedTaken, UpdatedTaken DEF IInv
<1>3. ~missed'
  BY <1>1, NoneMissed DEF IInv, SessionInv
<1>4. /\ db' = db /\ known' = known /\ scans' = scans /\ faults' = faults
      /\ collected' = <<>> /\ queue' = Tail(queue) /\ inBatch' = inBatch + 1
      /\ queue # <<>> /\ inBatch < BatchSize
  BY DEF Ingest
<1>5. TypeOK'
  <2>1. StoreOK(db') /\ StoreOK(mem') /\ StoreOK(seen')
    BY <1>2, <1>4 DEF IInv, TypeOK, Taken
  <2>2. queue' \in Seq(Posting)
    BY <1>4, HeadTailProperties DEF IInv, TypeOK
  <2>3. inBatch' \in 0..BatchSize /\ inBatch' # 0
    BY <1>4, Constants DEF IInv, TypeOK
  <2>4. collected' \in Seq(Posting)
    BY <1>4, EmptySeq
  <2>5. batch' \subseteq Posting
    BY <1>1 DEF IInv, TypeOK
  <2>6. /\ scans' \in 0..MaxScans /\ faults' \in 0..MaxFaults /\ known' \subseteq Posting
    BY <1>4 DEF IInv, TypeOK
  <2>7. missed' \in BOOLEAN
    BY <1>1, Zenon DEF IInv, TypeOK
  <2>8. QED
    BY <2>1, <2>2, <2>3, <2>4, <2>5, <2>6, <2>7 DEF TypeOK
<1>6. StoresInv'
  BY <1>2, <1>4 DEF IInv, StoresInv, Taken
<1>7. RecordsInv'
  <2>1. RecordedIn(mem', (known \cup batch) \cup {p})
    BY <1>2, RecordedOn DEF IInv, RecordsInv, Taken
  <2>2. known' \cup batch' = (known \cup batch) \cup {p}
    BY <1>1, <1>4
  <2>3. RecordedIn(db', known')
    BY <1>4 DEF IInv, RecordsInv
  <2>4. QED
    BY <2>1, <2>2, <2>3 DEF RecordsInv
<1>8. SessionInv'
  BY <1>2, <1>3 DEF SessionInv, Taken
<1>9. ListInv'
  BY <1>4 DEF ListInv
<1>10. QED
  BY <1>5, <1>6, <1>7, <1>8, <1>9 DEF IInv

\* A scan starts: its postings are deduplicated.
LEMMA CollectStep ==
  ASSUME IInv, Collect
  PROVE  IInv'
<1>1. /\ db' = db /\ mem' = mem /\ seen' = seen /\ inBatch' = inBatch /\ faults' = faults
      /\ batch' = batch /\ known' = known /\ missed' = missed
      /\ scans < MaxScans /\ scans' = scans + 1
      /\ collected' \in BoundedSeq(Posting, MaxCollected) /\ queue' = Dedup(collected')
  BY DEF Collect, store
<1>2. collected' \in Seq(Posting)
  <2>1. PICK m \in 0..MaxCollected : collected' \in [1..m -> Posting]
    BY <1>1 DEF BoundedSeq, SeqOf
  <2>2. m \in Nat
    BY Constants
  <2>3. QED
    BY <2>1, <2>2
<1>3. queue' \in Seq(Posting) /\ Covers(collected', queue')
  BY <1>1, <1>2, DedupReturns
<1>4. TypeOK'
  <2>1. scans' \in 0..MaxScans
    BY <1>1, Constants DEF IInv, TypeOK
  <2>2. \A s \in {db', mem', seen'} : StoreOK(s)
    BY <1>1 DEF IInv, TypeOK
  <2>3. /\ inBatch' \in 0..BatchSize /\ faults' \in 0..MaxFaults
        /\ batch' \subseteq Posting /\ known' \subseteq Posting /\ missed' \in BOOLEAN
        /\ inBatch' = 0 => mem' = db' /\ seen' = db'
    BY <1>1 DEF IInv, TypeOK
  <2>4. QED
    BY <1>2, <1>3, <2>1, <2>2, <2>3 DEF TypeOK
<1>5. StoresInv' /\ RecordsInv' /\ SessionInv'
  BY <1>1 DEF IInv, StoresInv, RecordsInv, SessionInv
<1>6. ListInv'
  BY <1>3 DEF ListInv
<1>7. QED
  BY <1>4, <1>5, <1>6 DEF IInv

\* A store is like itself.
LEMMA AlikeItself ==
  ASSUME NEW s
  PROVE  Alike(s, s)
BY DEF Alike

\* A slice is committed: the database is what the session had in memory.
LEMMA CommitStep ==
  ASSUME IInv, Commit
  PROVE  IInv'
<1>1. /\ db' = mem /\ seen' = mem /\ mem' = mem /\ inBatch' = 0
      /\ known' = known \cup batch /\ batch' = {}
      /\ collected' = collected /\ queue' = queue /\ scans' = scans /\ faults' = faults
      /\ missed' = missed
  BY DEF Commit
<1>2. TypeOK'
  BY <1>1, Constants DEF IInv, TypeOK
<1>3. StoresInv'
  BY <1>1 DEF IInv, StoresInv
<1>4. RecordsInv'
  <2>1. known' \cup batch' = known'
    BY <1>1
  <2>2. RecordedIn(mem, known')
    BY <1>1 DEF IInv, RecordsInv
  <2>3. QED
    BY <1>1, <2>1, <2>2 DEF RecordsInv
<1>5. SessionInv'
  BY <1>1, AlikeItself DEF IInv, SessionInv
<1>6. ListInv'
  BY <1>1 DEF IInv, ListInv
<1>7. QED
  BY <1>2, <1>3, <1>4, <1>5, <1>6 DEF IInv

\* A slice fails, or the process: what was committed is left.
LEMMA FailStep ==
  ASSUME IInv, Fail
  PROVE  IInv'
<1>1. /\ mem' = db /\ seen' = db /\ db' = db /\ inBatch' = 0
      /\ faults < MaxFaults /\ faults' = faults + 1
      /\ known' = known /\ batch' = {} /\ collected' = <<>> /\ queue' = <<>>
      /\ scans' = scans /\ missed' = missed
  BY DEF Fail
<1>2. TypeOK'
  <2>1. faults' \in 0..MaxFaults
    BY <1>1, Constants DEF IInv, TypeOK
  <2>2. queue' \in Seq(Posting) /\ collected' \in Seq(Posting)
    BY <1>1, EmptySeq
  <2>3. QED
    BY <1>1, <2>1, <2>2, Constants DEF IInv, TypeOK
<1>3. StoresInv'
  BY <1>1 DEF IInv, StoresInv
<1>4. RecordsInv'
  <2>1. known' \cup batch' = known
    BY <1>1
  <2>2. QED
    BY <1>1, <2>1 DEF IInv, RecordsInv
<1>5. SessionInv'
  BY <1>1, AlikeItself DEF IInv, SessionInv
<1>6. ListInv'
  BY <1>1 DEF ListInv
<1>7. QED
  BY <1>2, <1>3, <1>4, <1>5, <1>6 DEF IInv

\* Every step preserves the invariant.
LEMMA StepInv ==
  ASSUME IInv, [Next]_vars
  PROVE  IInv'
<1>1. CASE Collect
  BY <1>1, CollectStep
<1>2. CASE Ingest
  BY <1>2, IngestStep
<1>3. CASE Commit
  BY <1>3, CommitStep
<1>4. CASE Fail
  BY <1>4, FailStep
<1>5. CASE UNCHANGED vars
  BY <1>5 DEF vars, store, IInv, TypeOK, StoresInv, RecordsInv, SessionInv, ListInv
<1>6. QED
  BY <1>1, <1>2, <1>3, <1>4, <1>5 DEF Next

\* It holds when the process starts on an empty database.
LEMMA InitInv ==
  ASSUME Init
  PROVE  IInv
<1>1. /\ db = Empty /\ mem = Empty /\ seen = Empty /\ inBatch = 0 /\ scans = 0 /\ faults = 0
      /\ batch = {} /\ known = {} /\ missed = FALSE /\ collected = <<>> /\ queue = <<>>
  BY DEF Init
<1>2. /\ Empty = [companies |-> {}, jobs |-> <<>>, sources |-> {}]
      /\ Empty.jobs = <<>> /\ Empty.sources = {} /\ Empty.companies = {}
      /\ DOMAIN Empty.jobs = {} /\ <<>> \in Seq(Job) /\ <<>> \in Seq(Posting)
  BY DEF Empty
<1>3. StoreOK(Empty)
  BY <1>2 DEF StoreOK
<1>4. TypeOK
  <2>1. inBatch \in 0..BatchSize /\ scans \in 0..MaxScans /\ faults \in 0..MaxFaults
    BY <1>1, Constants
  <2>2. \A s \in {db, mem, seen} : StoreOK(s)
    BY <1>1, <1>3
  <2>3. collected \in Seq(Posting) /\ queue \in Seq(Posting) /\ batch \subseteq Posting /\ known \subseteq Posting
    BY <1>1, <1>2
  <2>4. missed \in BOOLEAN
    BY <1>1, Zenon
  <2>5. QED
    BY <1>1, <2>1, <2>2, <2>3, <2>4 DEF TypeOK
<1>5. UniqueIn(Empty) /\ CompleteIn(Empty) /\ RecordedIn(Empty, {})
  BY <1>2 DEF UniqueIn, CompleteIn, RecordedIn
<1>6. {} \cup {} = {}
  OBVIOUS
<1>7. StoresInv /\ RecordsInv
  BY <1>1, <1>5, <1>6 DEF StoresInv, RecordsInv
<1>8. SessionInv /\ ListInv
  BY <1>1, AlikeItself DEF SessionInv, ListInv
<1>9. QED
  BY <1>4, <1>7, <1>8 DEF IInv

--------------------------------------------------------------------------------
(* The ledger                                                              *)

\* Store b is store a with more: jobs, texts and sources.
Grown(a, b) ==
  /\ Len(a.jobs) <= Len(b.jobs)
  /\ \A j \in DOMAIN a.jobs : Ledger!Later(a.jobs[j], b.jobs[j])
  /\ \A s \in a.sources : \E r \in b.sources : Ledger!Same(r, s)

\* Every job has appeared somewhere.
Appeared(s) == \A j \in DOMAIN s.jobs : \E r \in s.sources : r.job = j

\* The session has in memory what the database has, and more.
LedgerInv == Grown(db, mem) /\ Appeared(db) /\ Appeared(mem)

\* The ledger asks of the snapshots what the invariant says.
LEMMA ToldAll ==
  ASSUME NEW job
  PROVE  Ledger!Told(job) <=> JobComplete(job)
BY DEF Ledger!Told, Ledger!Last, Last, JobComplete

\* A sequence is a prefix of another if it agrees with it as far as it goes.
LEMMA PrefixAgrees ==
  ASSUME NEW S, NEW s \in Seq(S), NEW t \in Seq(S)
  PROVE  Ledger!IsPrefix(s, t) <=> Len(s) <= Len(t) /\ \A i \in 1..Len(s) : s[i] = t[i]
<1>1. Len(s) \in Nat /\ Len(t) \in Nat
  BY LenProperties
<1>2. ASSUME Len(s) <= Len(t)
      PROVE  SubSeq(s, 1, Len(s)) = SubSeq(t, 1, Len(s)) <=> \A i \in 1..Len(s) : s[i] = t[i]
  <2> DEFINE a == SubSeq(s, 1, Len(s))
             b == SubSeq(t, 1, Len(s))
  <2>1. \A i \in 1..Len(s) : s[i] \in S /\ t[i] \in S
    BY <1>1, <1>2, ElementOfSeq
  <2>2. /\ a \in Seq(S) /\ Len(a) = IF 1 <= Len(s) THEN Len(s) - 1 + 1 ELSE 0
        /\ \A k \in 1..Len(s) - 1 + 1 : a[k] = s[1 + k - 1]
    BY <1>1, <2>1, SubSeqProperties
  <2>3. /\ b \in Seq(S) /\ Len(b) = IF 1 <= Len(s) THEN Len(s) - 1 + 1 ELSE 0
        /\ \A k \in 1..Len(s) - 1 + 1 : b[k] = t[1 + k - 1]
    BY <1>1, <2>1, SubSeqProperties
  <2> HIDE DEF a, b
  <2>4. Len(a) = Len(s) /\ Len(b) = Len(s)
    BY <1>1, <2>2, <2>3
  <2>5. \A k \in 1..Len(s) : a[k] = s[k] /\ b[k] = t[k]
    BY <1>1, <2>2, <2>3
  <2>6. a = b => \A i \in 1..Len(s) : s[i] = t[i]
    BY <2>5
  <2>7. ASSUME \A i \in 1..Len(s) : s[i] = t[i]
        PROVE  a = b
    <3>1. \A i \in 1..Len(a) : a[i] = b[i]
      BY <2>4, <2>5, <2>7
    <3>2. QED
      BY <2>2, <2>3, <2>4, <3>1, SeqEqual
  <2>8. QED
    BY <2>6, <2>7 DEF a, b
<1>3. Ledger!IsPrefix(s, t) <=> Len(s) <= Len(t) /\ SubSeq(s, 1, Len(s)) = SubSeq(t, 1, Len(s))
  BY Zenon DEF Ledger!IsPrefix
<1>4. QED
  BY <1>2, <1>3, Zenon

\* A job is later than itself, and later than what a job it is later than is later than.
LEMMA LaterItself ==
  ASSUME NEW job \in Job
  PROVE  Ledger!Later(job, job)
<1>1. job.snapshots \in Seq(Of("text")) /\ Len(job.snapshots) \in Nat
  BY LenProperties DEF Job
<1>2. Ledger!IsPrefix(job.snapshots, job.snapshots)
  BY <1>1, PrefixAgrees
<1>3. QED
  BY <1>2 DEF Ledger!Later

LEMMA LaterOn ==
  ASSUME NEW a \in Job, NEW b \in Job, NEW c \in Job, Ledger!Later(a, b), Ledger!Later(b, c)
  PROVE  Ledger!Later(a, c)
<1>1. /\ a.snapshots \in Seq(Of("text")) /\ Len(a.snapshots) \in Nat
      /\ b.snapshots \in Seq(Of("text")) /\ Len(b.snapshots) \in Nat
      /\ c.snapshots \in Seq(Of("text")) /\ Len(c.snapshots) \in Nat
  BY LenProperties DEF Job
<1>2. Ledger!IsPrefix(a.snapshots, b.snapshots) /\ Ledger!IsPrefix(b.snapshots, c.snapshots)
  BY DEF Ledger!Later
<1>3. /\ Len(a.snapshots) <= Len(b.snapshots) /\ Len(b.snapshots) <= Len(c.snapshots)
      /\ \A i \in 1..Len(a.snapshots) : a.snapshots[i] = b.snapshots[i]
      /\ \A i \in 1..Len(b.snapshots) : b.snapshots[i] = c.snapshots[i]
  BY <1>1, <1>2, PrefixAgrees
<1>4. /\ Len(a.snapshots) <= Len(c.snapshots)
      /\ \A i \in 1..Len(a.snapshots) : a.snapshots[i] = c.snapshots[i]
  BY <1>1, <1>3
<1>5. Ledger!IsPrefix(a.snapshots, c.snapshots)
  BY <1>1, <1>4, PrefixAgrees
<1>6. QED
  BY <1>5 DEF Ledger!Later

\* A job found again keeps its URL, its company and its texts.
LEMMA LaterUpdated ==
  ASSUME NEW p \in Posting, NEW job \in Job
  PROVE  Ledger!Later(job, Updated(job, p))
<1> DEFINE h == job.snapshots
           snaps == IF NeedsSnapshot(job.text, p) THEN Append(h, p.text) ELSE h
           location == IF p.location # None THEN p.location ELSE job.location
<1>1. Updated(job, p).url = job.url /\ Updated(job, p).company = job.company
  BY UpdatedOK
<1>2. Updated(job, p).snapshots = snaps /\ Updated(job, p).location = location
  BY DEF Updated, Job
<1>3. h \in Seq(Of("text")) /\ Len(h) \in Nat
  BY LenProperties DEF Job
<1>4. /\ Append(h, p.text) \in Seq(Of("text")) /\ Len(Append(h, p.text)) = Len(h) + 1
      /\ \A i \in 1..Len(h) : Append(h, p.text)[i] = h[i]
  BY <1>3, Constants, AppendProperties
<1> HIDE DEF h
<1>5. snaps \in Seq(Of("text")) /\ Len(h) <= Len(snaps) /\ \A i \in 1..Len(h) : h[i] = snaps[i]
  BY <1>3, <1>4
<1> HIDE DEF snaps
<1>6. Ledger!IsPrefix(h, snaps)
  BY <1>3, <1>5, PrefixAgrees
<1>7. QED
  BY <1>1, <1>2, <1>6 DEF Ledger!Later, h

\* _upsert_source forgets no appearance, and adds one of the job.
LEMMA SourcesKept ==
  ASSUME NEW sources \in SUBSET JobSource, NEW j, NEW p
  PROVE  /\ \A s \in sources : \E r \in UpsertSource(sources, j, p) : Ledger!Same(r, s)
         /\ \E r \in UpsertSource(sources, j, p) : r.job = j
<1> DEFINE mine == {s \in sources : /\ s.job = j /\ s.source = p.source
                                    /\ IF p.ext # None THEN s.ext = p.ext ELSE s.url = p.url}
           added == [job |-> j, source |-> p.source, ext |-> p.ext, url |-> p.url]
           moved == {[s EXCEPT !.url = p.url] : s \in mine}
<1>1. UpsertSource(sources, j, p) =
        IF mine = {} THEN sources \cup {added} ELSE (sources \ mine) \cup moved
  BY DEF UpsertSource
<1>2. \A s \in mine : s \in sources /\ s.job = j
  OBVIOUS
<1>3. \A s \in sources : s = [job |-> s.job, source |-> s.source, ext |-> s.ext, url |-> s.url]
  BY DEF JobSource
<1>4. \A s \in sources : Ledger!Same([s EXCEPT !.url = p.url], s)
  BY <1>3 DEF Ledger!Same
<1>5. \A s \in sources : Ledger!Same(s, s)
  BY DEF Ledger!Same
<1>6. \A s \in mine : [s EXCEPT !.url = p.url] \in moved
  OBVIOUS
<1> HIDE DEF mine, moved
<1>7. CASE mine = {}
  <2>1. added.job = j
    OBVIOUS
  <2>2. QED
    BY <1>1, <1>5, <1>7, <2>1
<1>8. CASE mine # {}
  <2>1. \A s \in sources : \E r \in UpsertSource(sources, j, p) : Ledger!Same(r, s)
    BY <1>1, <1>2, <1>4, <1>5, <1>6, <1>8
  <2>2. PICK s \in mine : TRUE
    BY <1>8
  <2>3. [s EXCEPT !.url = p.url].job = j
    BY <1>2, <1>3, <2>2
  <2>4. [s EXCEPT !.url = p.url] \in UpsertSource(sources, j, p)
    BY <1>1, <1>6, <1>8, <2>2
  <2>5. QED
    BY <2>1, <2>3, <2>4
<1>9. QED
  BY <1>7, <1>8

\* A store is like itself with nothing more, and grows from store to store.
LEMMA GrownItself ==
  ASSUME NEW s, StoreOK(s)
  PROVE  Grown(s, s)
<1>1. Len(s.jobs) \in Nat /\ \A j \in DOMAIN s.jobs : s.jobs[j] \in Job
  BY LenProperties, ElementOfSeq DEF StoreOK
<1>2. \A j \in DOMAIN s.jobs : Ledger!Later(s.jobs[j], s.jobs[j])
  BY <1>1, LaterItself
<1>3. \A r \in s.sources : Ledger!Same(r, r)
  BY DEF Ledger!Same
<1>4. QED
  BY <1>1, <1>2, <1>3 DEF Grown

LEMMA GrownOn ==
  ASSUME NEW a, NEW b, NEW c, StoreOK(a), StoreOK(b), StoreOK(c), Grown(a, b), Grown(b, c)
  PROVE  Grown(a, c)
<1>1. /\ Len(a.jobs) \in Nat /\ Len(b.jobs) \in Nat /\ Len(c.jobs) \in Nat
      /\ DOMAIN a.jobs = 1..Len(a.jobs) /\ DOMAIN b.jobs = 1..Len(b.jobs)
      /\ DOMAIN c.jobs = 1..Len(c.jobs)
      /\ \A j \in DOMAIN a.jobs : a.jobs[j] \in Job
      /\ \A j \in DOMAIN b.jobs : b.jobs[j] \in Job
      /\ \A j \in DOMAIN c.jobs : c.jobs[j] \in Job
  BY LenProperties, ElementOfSeq DEF StoreOK
<1>2. Len(a.jobs) <= Len(b.jobs) /\ Len(b.jobs) <= Len(c.jobs)
  BY DEF Grown
<1>3. ASSUME NEW j \in DOMAIN a.jobs
      PROVE  Ledger!Later(a.jobs[j], c.jobs[j])
  <2>1. j \in DOMAIN b.jobs /\ j \in DOMAIN c.jobs
    BY <1>1, <1>2, <1>3
  <2>2. Ledger!Later(a.jobs[j], b.jobs[j]) /\ Ledger!Later(b.jobs[j], c.jobs[j])
    BY <1>3, <2>1 DEF Grown
  <2>3. QED
    BY <1>1, <1>3, <2>1, <2>2, LaterOn
<1>4. ASSUME NEW s \in a.sources
      PROVE  \E r \in c.sources : Ledger!Same(r, s)
  <2>1. PICK t \in b.sources : Ledger!Same(t, s)
    BY DEF Grown
  <2>2. PICK r \in c.sources : Ledger!Same(r, t)
    BY DEF Grown
  <2>3. Ledger!Same(r, s)
    BY <2>1, <2>2 DEF Ledger!Same
  <2>4. QED
    BY <2>3
<1>5. QED
  BY <1>1, <1>2, <1>3, <1>4 DEF Grown

\* A posting makes the session grow, and its job has appeared.
LEMMA CreatedGrows ==
  ASSUME TypeOK, Appeared(mem), NEW p \in Posting, CreatedFor(p)
  PROVE  Grown(mem, mem') /\ Appeared(mem')
<1> DEFINE n == Len(mem.jobs) + 1
           sources == UpsertSource(mem.sources, n, p)
<1>1. /\ mem.jobs \in Seq(Job) /\ mem.sources \in SUBSET JobSource
      /\ Len(mem.jobs) \in Nat /\ DOMAIN mem.jobs = 1..n - 1
      /\ \A j \in DOMAIN mem.jobs : mem.jobs[j] \in Job
  BY LenProperties, ElementOfSeq DEF TypeOK, StoreOK
<1>2. /\ mem'.jobs = Append(mem.jobs, Created(p)) /\ mem'.sources = sources
  BY DEF CreatedFor, WithJob
<1>3. /\ mem'.jobs \in Seq(Job) /\ Len(mem'.jobs) = n /\ DOMAIN mem'.jobs = 1..n
      /\ \A j \in 1..n - 1 : mem'.jobs[j] = mem.jobs[j]
  BY <1>1, <1>2, CreatedOK, AppendProperties, LenProperties
<1>4. /\ \A s \in mem.sources : \E r \in sources : Ledger!Same(r, s)
      /\ \E r \in sources : r.job = n
  BY <1>1, SourcesKept
<1>5. \A j \in 1..n - 1 : Ledger!Later(mem.jobs[j], mem'.jobs[j])
  BY <1>1, <1>3, LaterItself
<1>6. Grown(mem, mem')
  BY <1>1, <1>2, <1>3, <1>4, <1>5 DEF Grown
<1>7. \A j \in 1..n - 1 : \E r \in sources : r.job = j
  <2>1. TAKE j \in 1..n - 1
  <2>2. PICK s \in mem.sources : s.job = j
    BY <1>1 DEF Appeared
  <2>3. PICK r \in sources : Ledger!Same(r, s)
    BY <1>4
  <2>4. QED
    BY <2>2, <2>3 DEF Ledger!Same
<1>8. \A j \in 1..n : j = n \/ j \in 1..n - 1
  BY <1>1
<1>9. Appeared(mem')
  BY <1>2, <1>3, <1>4, <1>7, <1>8 DEF Appeared
<1>10. QED
  BY <1>6, <1>9

LEMMA UpdatedGrows ==
  ASSUME TypeOK, SessionInv, Appeared(mem), NEW p \in Posting, NEW j, UpdatedFor(p, j)
  PROVE  Grown(mem, mem') /\ Appeared(mem')
<1> DEFINE jobs == [mem.jobs EXCEPT ![j] = Updated(mem.jobs[j], p)]
           sources == UpsertSource(mem.sources, j, p)
<1>1. /\ mem.jobs \in Seq(Job) /\ mem.sources \in SUBSET JobSource
      /\ Len(mem.jobs) \in Nat /\ DOMAIN mem.jobs = 1..Len(mem.jobs)
      /\ \A i \in DOMAIN mem.jobs : mem.jobs[i] \in Job
  BY LenProperties, ElementOfSeq DEF TypeOK, StoreOK
<1>2. j \in DOMAIN mem.jobs
  BY VisibleOK, MatchesOK DEF UpdatedFor
<1>3. mem'.jobs = jobs /\ mem'.sources = sources
  BY DEF UpdatedFor, WithSource
<1>4. /\ jobs \in Seq(Job) /\ Len(jobs) = Len(mem.jobs) /\ DOMAIN jobs = DOMAIN mem.jobs
      /\ \A i \in DOMAIN mem.jobs : jobs[i] = IF i = j THEN Updated(mem.jobs[j], p) ELSE mem.jobs[i]
  BY <1>1, <1>2, UpdatedOK, ExceptSeq, LenProperties
<1>5. \A s \in mem.sources : \E r \in sources : Ledger!Same(r, s)
  BY <1>1, SourcesKept
<1> HIDE DEF jobs, sources
<1>6. ASSUME NEW i \in DOMAIN mem.jobs
      PROVE  Ledger!Later(mem.jobs[i], jobs[i])
  <2>1. CASE i = j
    BY <1>1, <1>2, <1>4, <2>1, LaterUpdated
  <2>2. CASE i # j
    BY <1>1, <1>4, <2>2, LaterItself
  <2>3. QED
    BY <2>1, <2>2
<1>7. Grown(mem, mem')
  BY <1>1, <1>3, <1>4, <1>5, <1>6 DEF Grown
<1>8. ASSUME NEW i \in DOMAIN mem.jobs
      PROVE  \E r \in sources : r.job = i
  <2>1. PICK s \in mem.sources : s.job = i
    BY DEF Appeared
  <2>2. PICK r \in sources : Ledger!Same(r, s)
    BY <1>5
  <2>3. QED
    BY <2>1, <2>2 DEF Ledger!Same
<1>9. Appeared(mem')
  BY <1>3, <1>4, <1>8 DEF Appeared
<1>10. QED
  BY <1>7, <1>9

\* Every step keeps what a session adds to the database a growth of it.
LEMMA LedgerStep ==
  ASSUME IInv, IInv', LedgerInv, [Next]_vars
  PROVE  LedgerInv'
<1>1. StoreOK(db) /\ StoreOK(mem) /\ StoreOK(db') /\ StoreOK(mem')
  BY DEF IInv, TypeOK
<1>2. CASE Ingest
  <2>1. PICK p \in Posting : CreatedFor(p) \/ \E j : UpdatedFor(p, j)
    BY <1>2, IngestOf DEF IInv
  <2>2. Grown(mem, mem') /\ Appeared(mem')
    BY <2>1, CreatedGrows, UpdatedGrows DEF IInv, LedgerInv
  <2>3. db' = db
    BY <1>2 DEF Ingest
  <2>4. Grown(db', mem')
    BY <1>1, <2>2, <2>3, GrownOn DEF LedgerInv
  <2>5. QED
    BY <2>2, <2>3, <2>4 DEF LedgerInv
<1>3. CASE Commit
  BY <1>1, <1>3, GrownItself DEF Commit, LedgerInv
<1>4. CASE Fail
  BY <1>1, <1>4, GrownItself DEF Fail, LedgerInv
<1>5. CASE Collect \/ UNCHANGED vars
  BY <1>5 DEF Collect, vars, store, LedgerInv
<1>6. QED
  BY <1>2, <1>3, <1>4, <1>5 DEF Next

--------------------------------------------------------------------------------
(* The theorems                                                            *)

\* The inductive invariant: the types, unique keys, snapshots and recorded ids of
\* the database and of the session, and what a scan's list covers.
THEOREM InvHolds == Spec => []IInv
<1>1. Init => IInv
  BY InitInv
<1>2. IInv /\ [Next]_vars => IInv'
  BY StepInv
<1>3. QED
  BY <1>1, <1>2, PTL DEF Spec

\* Types and foreign keys of the database, of the session and of what its queries
\* see, and that no session is left open between two slices.
THEOREM TypeHolds == Spec => []TypeOK
<1>1. IInv => TypeOK
  BY DEF IInv
<1>2. QED
  BY <1>1, InvHolds, PTL

\* No flush of JobIngestionService meets a unique key, whatever postings are mixed.
THEOREM KeysHold == Spec => []UniqueKeys
<1>1. IInv => UniqueKeys
  BY DEF IInv, StoresInv, UniqueIn, UniqueKeys
<1>2. QED
  BY <1>1, InvHolds, PTL

\* A posting with an external id that was committed is found by it ever after.
THEOREM KnownHolds == Spec => []KnownAgain
<1>1. ASSUME IInv
      PROVE  KnownAgain
  <2>1. SUFFICES ASSUME NEW p \in known, p.ext # None
                 PROVE  ByExternalId(p, seen) # {}
    BY DEF KnownAgain
  <2>2. PICK r \in mem.sources : r.source = p.source /\ r.ext = p.ext
    BY <1>1, <2>1 DEF IInv, RecordsInv, RecordedIn
  <2>3. r \in seen.sources
    BY <1>1, <2>2 DEF IInv, SessionInv, Alike
  <2>4. r.job \in ByExternalId(p, seen)
    BY <2>1, <2>2, <2>3 DEF ByExternalId
  <2>5. QED
    BY <2>4
<1>2. QED
  BY <1>1, InvHolds, PTL

\* With autoflush off, the queries of a session miss the changes of one job at
\* most, so that a second job is created only next to the one just changed.
THEOREM StaleHolds == Spec => []StaleByOne
<1>1. ASSUME IInv
      PROVE  StaleByOne
  <2>1. Alike(seen, mem) /\ ~missed
    BY <1>1 DEF IInv, SessionInv
  <2>2. \A i, j \in Unflushed : i = j
    BY <2>1 DEF Alike, Unflushed
  <2>3. QED
    BY <2>1, <2>2 DEF Alike, StaleByOne
<1>2. QED
  BY <1>1, InvHolds, PTL

\* The database implements the ledger of ADR 0002: a commit maps to a step of the
\* ledger, and everything else, a batch that fails included, to a stutter.
THEOREM LedgerHolds == Spec => KeepsLedger
<1>1. Init => LedgerInv /\ Ledger!Init
  <2>1. SUFFICES ASSUME Init PROVE LedgerInv /\ Ledger!Init
    OBVIOUS
  <2>2. db = Empty /\ mem = Empty /\ Empty.jobs = <<>> /\ Empty.sources = {} /\ DOMAIN Empty.jobs = {}
    <3>1. db = Empty /\ mem = Empty
      BY <2>1 DEF Init
    <3>2. Empty.jobs = <<>> /\ Empty.sources = {} /\ DOMAIN Empty.jobs = {}
      BY DEF Empty
    <3>3. QED
      BY <3>1, <3>2
  <2>3. StoreOK(Empty)
    BY <2>1, <2>2, InitInv DEF IInv, TypeOK
  <2>4. Grown(Empty, Empty) /\ Appeared(Empty)
    BY <2>2, <2>3, GrownItself DEF Appeared
  <2>5. QED
    BY <2>2, <2>4 DEF LedgerInv, Ledger!Init
<1>2. IInv /\ IInv' /\ LedgerInv /\ [Next]_vars => LedgerInv'
  BY LedgerStep
<1>3. ASSUME IInv, LedgerInv, [Next]_vars
      PROVE  [Ledger!Commit]_<<db.jobs, db.sources>>
  <2>1. CASE Commit
    <3>1. db' = mem
      BY <2>1 DEF Commit
    <3>2. Grown(db, db') /\ Appeared(db') /\ CompleteIn(db')
      BY <1>3, <3>1 DEF LedgerInv, IInv, StoresInv
    <3>3. \A j \in DOMAIN db'.jobs : Ledger!Told(db'.jobs[j]) /\ \E s \in db'.sources : s.job = j
      BY <3>2, ToldAll DEF CompleteIn, Appeared
    <3>4. Ledger!Commit
      BY <3>2, <3>3 DEF Grown, Ledger!Commit
    <3>5. QED
      BY <3>4
  <2>2. CASE Collect \/ Ingest \/ Fail \/ UNCHANGED vars
    <3>1. db' = db
      BY <2>2 DEF Collect, Ingest, Fail, vars, store
    <3>2. QED
      BY <3>1
  <2>3. QED
    BY <1>3, <2>1, <2>2 DEF Next
<1>4. QED
  BY <1>1, <1>2, <1>3, InvHolds, PTL DEF Spec, KeepsLedger, Ledger!Spec

\* The list a scan ingests covers the postings it has collected.
THEOREM DedupHolds == Spec => []DedupCovers
<1>1. ASSUME IInv
      PROVE  DedupCovers
  BY <1>1 DEF IInv, ListInv, Covers, DedupCovers
<1>2. QED
  BY <1>1, InvHolds, PTL

================================================================================

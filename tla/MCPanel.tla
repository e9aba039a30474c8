--------------------------------- MODULE MCPanel ---------------------------------
EXTENDS Panel, TLC

CONSTANTS t1, t2, v1, v2, v3, b1, b2, p1, p2, s1, s2, q1, q2, a1, none, h1, h2

Lists == (b1 :> {p1, p2}) @@ (b2 :> {p2})
Maxima == (s1 :> 1) @@ (s2 :> 2)
CallersAllow == {{h1, h2}, {h1}}
Works ==
  { [parts |-> {"resumes"}, calls |-> 5],
    [parts |-> {"resumes", "documents", "model"}, calls |-> 3],
    [parts |-> {"applications"}, calls |-> 4],
    [parts |-> {"research"}, calls |-> 3],
    [parts |-> {"memory", "model"}, calls |-> 5],
    [parts |-> {"web"}, calls |-> 3] }
Symmetric == Permutations(Thread) \cup Permutations(Version) \cup Permutations(Question)
================================================================================

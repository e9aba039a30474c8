----------------------------- MODULE MCJobIngestion -----------------------------
(* One posting that changes, a copy of it elsewhere, one that mixes the two  *)
(* up and has no text, one of the same text, and one of another company.     *)
EXTENDS JobIngestion

Make(company, url, source, ext, title, location, text) ==
  [company |-> company, url |-> url, source |-> source, ext |-> ext, title |-> title,
   location |-> location, text |-> text]

Postings == {
  Make("acme", "a", "board", "1", "dev", "br", 1),
  Make("acme", "a", "board", "1", "lead", "br", 2),
  Make("acme", "b", "feed", None, "dev", "br", 3),
  Make("acme", "b", "board", "1", "dev", None, 0),
  Make("acme", "c", "feed", "9", "qa", "br", 2),
  Make("globex", "d", "feed", None, "dev", "br", 1)}

Pairs == {<<1, 3>>, <<3, 1>>}

================================================================================

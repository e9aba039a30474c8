----------------------------- MODULE MCScanSchedule -----------------------------
\* Two companies.  The first publishes one opening under two addresses, the page
\* of the second lists a posting that names the first.
EXTENDS ScanSchedule

MCUrl == {"a1", "a2", "b1"}
MCCompany == {"A", "B"}
MCListedBy == [u \in MCUrl |-> IF u = "b1" THEN "B" ELSE "A"]
MCCompanyOf == [u \in MCUrl |-> "A"]
MCConnectors ==
  {[A |-> kind, B |-> "generic_html"] : kind \in {"greenhouse", "lever", "smartrecruiters"}}
MCKeyOf == [u \in MCUrl |-> IF u = "b1" THEN "b" ELSE "a"]
================================================================================

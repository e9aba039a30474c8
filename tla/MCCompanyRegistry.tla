--------------------------- MODULE MCCompanyRegistry ---------------------------
(* One company at the start; a namesake and a copy of it, and a new portal. *)
EXTENDS CompanyRegistry

CONSTANTS acme, namesake, mirror, entry1, entry2, proposal1, client

Names2 == (acme :> "acme") @@ (namesake :> "acme") @@ (mirror :> "mirror")
Sites2 == (acme :> "acme.jobs") @@ (namesake :> "mirror.jobs") @@ (mirror :> "mirror.jobs")
Becomes == (entry1 :> namesake) @@ (entry2 :> mirror) @@ (proposal1 :> mirror)

================================================================================

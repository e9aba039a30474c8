\* One request beside the import, no failure.
CONSTANTS
  acme = acme
  namesake = namesake
  mirror = mirror
  entry1 = entry1
  entry2 = entry2
  proposal1 = proposal1
  client = client
  Company = {acme, namesake, mirror}
  Name <- Names2
  Site <- Sites2
  Initial = {acme}
  Client = {client}
  Importer = importer
  Entry = {entry1, entry2}
  Proposal = {proposal1}
  CompanyOf <- Becomes
  Limit = 2
  Empty = empty
  Torn = torn
  None = none
  MaxRequests = 1
  MaxFaults = 0
SPECIFICATION Spec
INVARIANT ImportKeepsCompanies

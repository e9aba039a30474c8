\* Two requests, one failure, the import and the discovery.
CONSTANTS
  acme = acme
  namesake = namesake
  mirror = mirror
  entry1 = entry1
  entry2 = entry2
  proposal1 = proposal1
  client = client
  Company = {acme, namesake, mirror}
  Name <- Names2
  Site <- Sites2
  Initial = {acme}
  Client = {client}
  Importer = importer
  Entry = {entry1, entry2}
  Proposal = {proposal1}
  CompanyOf <- Becomes
  Limit = 2
  Empty = empty
  Torn = torn
  None = none
  MaxRequests = 2
  MaxFaults = 1
SPECIFICATION Spec
INVARIANTS
  TypeOK
  LossExplained
  Recoverable
  DecisionsBacked
  NoTwins

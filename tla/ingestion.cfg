\* Three scans in batches of two, one failure.
CONSTANTS
  Posting <- Postings
  Similar <- Pairs
  None = none
  BatchSize = 2
  MaxCollected = 3
  MaxScans = 3
  MaxFaults = 1
SPECIFICATION Spec
INVARIANTS
  TypeOK
  UniqueKeys
  KnownAgain
  StaleByOne
  DedupCovers
PROPERTIES
  KeepsLedger
CHECK_DEADLOCK FALSE

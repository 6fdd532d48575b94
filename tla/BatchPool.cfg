SPECIFICATION FairSpec
CONSTANTS
  Parents = {p1, p2}
  NoParent = NoParent
  Profiles = {1, 2}
  Shards = {1}
  LastRetry = 0
  MaxWorkers = 2
  NamesInOrder = TRUE
INVARIANTS
  ReportedStable
PROPERTIES
  LockReleased

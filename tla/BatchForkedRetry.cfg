SPECIFICATION Spec
CONSTANTS
  Parents = {p1}
  NoParent = NoParent
  Profiles = {1}
  Shards = {1}
  LastRetry = 3
  MaxWorkers = 2
  NamesInOrder = FALSE
INVARIANTS
  NoForkedRetries

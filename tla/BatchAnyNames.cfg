SPECIFICATION Spec
CONSTANTS
  Parents = {p1, p2}
  NoParent = NoParent
  Profiles = {1}
  Shards = {1}
  LastRetry = 3
  MaxWorkers = 1
  NamesInOrder = FALSE
SYMMETRY ParentSymmetry
VIEW WithoutReports
INVARIANTS
  TypeOK
  AtMostOneSuccess
  RetryParentSettled
  LiveChildrenNeedAFork
PROPERTIES
  ImplementsAttemptLedger

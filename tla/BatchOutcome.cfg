SPECIFICATION OutcomeSpec
CONSTANTS
  Nobody = Nobody
  Profiles = {1}
  Shards = {1, 2}
  LastRetry = 1
  Collectors = {c1}
  Inexact <- OneInexact
  Planners = {p1, p2}
  Records = {1, 2, 3}
  Untidy = {3}
  MaxSize = 3
  MaxRows = 3
  Radix = 3
  Width = 1
CHECK_DEADLOCK FALSE
INVARIANTS
  OutcomeTypeOK
  PassIsComplete
  LedgerKeepsOriginals
  SealedPlanLoads
  PassAnswersEveryRecord

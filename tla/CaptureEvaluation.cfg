SPECIFICATION Spec
CONSTANTS
  Ids = {"i1", "i2"}
  NoId = "no id"
  Alphabet <- SmallAlphabet
  Facts <- SmallFacts
  MaxEvents = 6
  MaxIssues = 2
CHECK_DEADLOCK FALSE
INVARIANTS
  LifecycleIsOneTurn
  SuccessIsEarned
  OptInOpensTwoDoors
  RevalidationIsLive

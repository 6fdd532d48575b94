SPECIFICATION FairSpec
CONSTANTS
  Controllers = {c1, c2, c3}
  NoController = NoController
  Jobs = {j1, j2}
  BatchJobs = {j1}
  WakeBudget = 1
  MainTurnBudget = 2
CHECK_DEADLOCK FALSE
INVARIANTS
  TypeOK
  JobsLaunchedOnce
  SealedMeansFinished
  OneVerdict
  RecoverableUntilReserved
PROPERTIES
  ImplementsAtMostOnce
  ReservationIsFinal
  RevocationStops

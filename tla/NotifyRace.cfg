SPECIFICATION FairSpec
CONSTANTS
  Procs = {p1, p2}
  NoProc = NoProc
  batch = batch
  turn = turn
  Events <- TheEvents
  BatchEvents = {batch}
  TurnEvents = {turn}
  SameRun <- TheRun
  NumSinks = 1
INVARIANTS
  TypeOK
  AtMostOneRequest
  LedgerTruth
  SilenceIsEarned
PROPERTIES
  ImplementsAtMostOnce
  NotifyReturns

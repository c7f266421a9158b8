SPECIFICATION FairSpec
CONSTANTS
  a = a
  b = b
  c = c
  t1 = t1
  t2 = t2
  Ids <- ThreeIds
  Threads <- TwoThreads
  Results <- OkOrErr
  NoResult = NoResult
  NullOpt = NullOpt
  Fallback = Fallback
  NoId = NoId
INVARIANTS
  WaiterHeldOnce
  FirstResultWins
  NoFallback
PROPERTY SettledReturns
CHECK_DEADLOCK FALSE

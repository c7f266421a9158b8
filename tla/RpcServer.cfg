SPECIFICATION FairSpec
CONSTANTS
  Threads = {t1, t2, t3}
  WorkerCount = 2
  MaxCalls = 5
  MaxAccepts = 2
INVARIANTS
  OneOwner
  NotRunningHoldsNothing
  DispatchInTurn
PROPERTIES
  StopHonoured
CHECK_DEADLOCK FALSE

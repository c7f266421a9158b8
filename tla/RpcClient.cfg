SPECIFICATION Spec
CONSTANTS
  i1 = i1
  i2 = i2
  c1 = c1
  Ids = {i1, i2}
  Closes = {c1}
  ThreadOf <- TwoThreads
  MaxConns = 2
  Faults = {"hang up", "recv", "send", "frame", "event loop"}
  Heartbeat = TRUE
  NoResult = NoResult
  NullOpt = NullOpt
  Fallback = Fallback
  NoId = NoId
  None = None
INVARIANTS
  DispatcherOwned
  CloseSettlesCalls
CHECK_DEADLOCK FALSE

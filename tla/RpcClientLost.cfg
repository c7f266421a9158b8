SPECIFICATION FairSpec
CONSTANTS
  i1 = i1
  i2 = i2
  c1 = c1
  Ids = {i1, i2}
  Closes = {}
  ThreadOf <- OneThreadNoClose
  MaxConns = 2
  Faults = {"hang up"}
  Heartbeat = FALSE
  NoResult = NoResult
  NullOpt = NullOpt
  Fallback = Fallback
  NoId = NoId
  None = None
PROPERTIES
  CallsReturn
CHECK_DEADLOCK FALSE

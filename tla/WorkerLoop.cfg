SPECIFICATION Spec
CONSTANTS
  MaxWriteBuffer = 1
  Fds = {1, 2}
  MaxClients = 2
  MaxRequests = 2
  Kinds = {"call", "ping", "bad"}
  CutRequests = {}
  SendBuffer = 1
  Pools = {"open"}
  Failures = TRUE
  Timeouts = TRUE
  ClientsLeave = TRUE
  ServerStops = FALSE
INVARIANTS
  TypeOK
  RequestInOnePlace
  ResponseToOwner
  EventsMatchConnections
  WritersAreArmed
  DeadlinesBoundWaits
  InFlightExact
  SocketsOwned
CHECK_DEADLOCK FALSE

SPECIFICATION FairSpec
CONSTANTS
  MaxWriteBuffer = 1
  Fds = {1}
  MaxClients = 2
  MaxRequests = 2
  Kinds = {"call", "ping", "bad"}
  CutRequests = {1}
  SendBuffer = 1
  Pools = {"open", "none"}
  Failures = FALSE
  Timeouts = TRUE
  ClientsLeave = TRUE
  ServerStops = TRUE
PROPERTIES
  RequestsAnswered
  StopTerminates
CHECK_DEADLOCK FALSE

CONSTANTS
  Reqs = {q1, q2}
  NoReq = NoReq
  MaxMsgID = 1
  MaxConns = 1
  InitialInterval = 2
  MaxInterval = 3
  PingErrors = TRUE
SPECIFICATION FairSpec
PROPERTIES CloseStops
CHECK_DEADLOCK FALSE

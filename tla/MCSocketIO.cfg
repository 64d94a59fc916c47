CONSTANTS
  Reqs = {q1, q2, q3}
  NoReq = NoReq
  MaxMsgID = 2
  MaxConns = 2
  InitialInterval = 2
  MaxInterval = 5
  PingErrors = TRUE
SYMMETRY CallSymmetry
SPECIFICATION Spec
INVARIANTS TypeOK ReplyHasReceiver OneAnswer ReplyIsForSameID WrongReplyNeedsWrap
PROPERTIES StaleFrameIsDead BackoffResetsOnConnect IsConnection
CHECK_DEADLOCK FALSE

SPECIFICATION RTFairSpec
CONSTANTS
  a1 = a1 a2 = a2 s1 = s1 s2 = s2 h = h
  Reqs <- MCReqs
  AuthReqs <- MCAuth
  SubReqs <- MCSub
  NoReq = NoReq
  MaxConns = 2
INVARIANTS RTTypeOK HandshakeCovers
PROPERTIES ClosedEnds SendsGetRoom
CHECK_DEADLOCK FALSE

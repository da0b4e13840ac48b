CONSTANTS
  Sessions = {s1}
  WorkConns = {w1}
  None = None
  SendCap = 1
  SockBuf = 1
SPECIFICATION Spec
INVARIANT ResponseFirst
CHECK_DEADLOCK FALSE

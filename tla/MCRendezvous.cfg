CONSTANTS
  Sessions = {s1, s2}
  WorkConns = {w1, w2}
  None = None
  SendCap = 1
  SockBuf = 1
SPECIFICATION FairSpec
INVARIANTS TypeOK PendingSound NoOrphan NoCrossTalk
PROPERTIES PairingSpec Resolved
CHECK_DEADLOCK FALSE

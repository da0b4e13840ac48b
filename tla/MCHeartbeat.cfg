CONSTANTS
  HeartbeatTimeouts = {0, 12}
  HeartbeatIntervals = {0, 2}
  ReconnectIntervals = {0, 8}
  DialTimeouts = {3, 20}
  DefaultHeartbeatTO = 18
  DefaultHeartbeatIv = 6
  DefaultReconnectIv = 1
  DefaultDialTO = 2
  MinServerInterval = 1
  MinReadTimeout = 6
  MaxReconnectInterval = 6
  StableRunDuration = 12
  Delay = 1
SPECIFICATION Spec
INVARIANTS TypeOK LossNoticed BackSoon
PROPERTY HealthyKept

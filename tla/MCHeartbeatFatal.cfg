CONSTANTS
  HeartbeatTimeouts = {0}
  HeartbeatIntervals = {0}
  ReconnectIntervals = {0}
  DialTimeouts = {0}
  DefaultHeartbeatTO = 18
  DefaultHeartbeatIv = 6
  DefaultReconnectIv = 1
  DefaultDialTO = 2
  MinServerInterval = 1
  MinReadTimeout = 6
  MaxReconnectInterval = 6
  StableRunDuration = 12
  Delay = 1
SPECIFICATION Spec
INVARIANT FatalOnlyOnConflict

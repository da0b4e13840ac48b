CONSTANTS
  Works = {w1}
  MaxFaults = 1
  Base = 1
  Cap = 2
  Other = Other
SPECIFICATION FairSpec
INVARIANTS TypeOK OneControl JoinedKept StoppedQuiet
PROPERTIES StopEnds HalfOpenEnds Reconnects
CHECK_DEADLOCK FALSE

CONSTANTS
  Works = {w1}
  MaxFaults = 1
  Base = 1
  Cap = 2
  Other = Other
SPECIFICATION Spec
INVARIANT WorkEndsWithControl
CHECK_DEADLOCK FALSE

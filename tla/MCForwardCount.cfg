CONSTANTS
  MaxUp = 1
  MaxDown = 1
  Buf = 1
  Fragile = {1, 2}
SPECIFICATION Spec
INVARIANT InboundCounted
CHECK_DEADLOCK FALSE

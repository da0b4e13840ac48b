CONSTANTS
  MaxUp = 2
  MaxDown = 1
  Buf = 1
  Fragile = {1, 2}
SPECIFICATION FairSpec
INVARIANTS TypeOK CleanClose
PROPERTIES DuplexSpec Delivers BothEnd
CHECK_DEADLOCK FALSE

CONSTANTS
  Sources = {a}
  Sess = {s1}
  None = None
  QueueCap = 2
  MaxPkts = 2
  MaxReplies = 1
SPECIFICATION BoundedSpec
INVARIANTS TunnelTypeOK LocalPrefix
PROPERTIES MappingDrains SessionEnds QueuedDelivered
CHECK_DEADLOCK FALSE

CONSTANTS
  Sources = {a, b}
  Sess = {s1, s2}
  None = None
  QueueCap = 2
  MaxPkts = 3
SPECIFICATION BoundedSpec
SYMMETRY Symmetry
INVARIANTS TypeOK SessionTable TunnelOrdered TunnelOwned CounterExact
CHECK_DEADLOCK FALSE

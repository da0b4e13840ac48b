CONSTANTS
  Logins = {l1, l2}
  A = A
  B = B
  n1 = n1
  n2 = n2
  k0 = k0
  k1 = k1
  k2 = k2
  Ids <- MCIds
  Names <- MCNames
  Ports <- MCPorts
  Requests <- MCRequests
  MaxSpecs = 2
  BindKeys = {k0}
  MaxClients = 0
  None = None
SPECIFICATION FairSpec
INVARIANTS TypeOK PortExclusive ServedExactly CleanAfter
PROPERTIES PortLeaseSpec CloseEnds
CHECK_DEADLOCK FALSE

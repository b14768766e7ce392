SPECIFICATION Spec
CONSTANTS
  g = g
  a1 = a1
  a2 = a2
  b1 = b1
  b2 = b2
  b3 = b3
  Block <- MCBlock
  Genesis = g
  Null = Null
  pprev <- MCpprev
  Ancestors <- MCAncestors
  nChainWork <- MCnChainWork
  Address <- MCAddress
  BadBlock = {}
  BadConnect = {b3}
  MaxPrecious = 0
  MaxInvalidate = 1
  MaxReconsider = 0
  MaxCalls = 2
INVARIANT BestHeader
CHECK_DEADLOCK FALSE

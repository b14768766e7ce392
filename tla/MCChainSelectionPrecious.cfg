SPECIFICATION Spec
CONSTANTS
  g = g
  a1 = a1
  a2 = a2
  b1 = b1
  b2 = b2
  b3 = b3
  Block <- MCBlock
  Genesis = g
  Null = Null
  pprev <- MCpprev
  Ancestors <- MCAncestors
  nChainWork <- MCnChainWork
  Address <- MCAddress
  BadBlock = {}
  BadConnect = {}
  MaxPrecious = 3
  MaxInvalidate = 0
  MaxReconsider = 0
  MaxCalls = 3
INVARIANT CandidatesExact
CHECK_DEADLOCK FALSE

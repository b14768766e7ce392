SPECIFICATION FairSpec
CONSTANTS
  g = g
  a1 = a1
  a2 = a2
  b1 = b1
  b2 = b2
  b3 = b3
  Block <- MCBlock
  Genesis = g
  Null = Null
  pprev <- MCpprev
  Ancestors <- MCAncestors
  nChainWork <- MCnChainWork
  Address <- MCAddress
  BadBlock = {a2}
  BadConnect = {b2}
  MaxPrecious = 1
  MaxInvalidate = 1
  MaxReconsider = 1
  MaxCalls = 2
INVARIANTS FailureInherited CandidatesExact UnlinkedUntilInvalidate ActiveChainValid
PROPERTIES BestChainWins ForwardProgress
CHECK_DEADLOCK FALSE

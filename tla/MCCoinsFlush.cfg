SPECIFICATION FairSpec
CONSTANTS
  g = g
  c1 = c1
  a1 = a1
  b1 = b1
  b2 = b2
  x = x
  y = y
  z = z
  w = w
  Absent = Absent
  Thrown = Thrown
  Null = Null
  Genesis = g
  Block <- MCBlock
  Outpoint <- MCOutpoint
  pprev <- MCpprev
  nHeight <- MCnHeight
  vtx <- MCvtx
  Fetched = {y}
  MaxFlushes = 2
  MaxCrashes = 2
  MaxEvents = 3
  MaxLost = 1
INVARIANTS ViewExact FreshMeansUnknown NeverStuck
PROPERTIES CrashSafe ComesUp

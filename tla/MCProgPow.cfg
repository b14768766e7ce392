SPECIFICATION PartsSpec
CONSTANTS
  Thread = {t1, t2, t3}
  Epoch = {e1, e2, e3}
  Address = {a1, a2, a3, a4}
  None = None
  Width = 3
  SizeWidth = 3
  GrindNonce = {0, 4, 5, 6}
  GrindIterations = 3
  DEFAULT_MAX_TRIES = 2
  MaxGenerate = 2
  MixHash = {x, y}
  IntMax = 4
  MaxWindow = 3
  MaxHeight = 3
  MaxStart = 3
INVARIANTS ContextInUse MemoryBound BudgetExact
PROPERTIES SameBlocksSameBeacon NeedsExactlyMore
SYMMETRY Symmetry

SPECIFICATION Spec
CONSTANTS
  Width = 3
  SizeWidth = 3
  GrindNonce = {4, 5, 6}
  GrindIterations = 3
  DEFAULT_MAX_TRIES = 2
  MaxGenerate = 2
  None = None
INVARIANT WholeBudgetTried

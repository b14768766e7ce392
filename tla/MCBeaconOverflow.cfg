SPECIFICATION Spec
CONSTANTS
  MixHash = {x, y}
  IntMax = 4
  MaxWindow = 3
  MaxHeight = 3
  MaxStart = 3
INVARIANT WindowConfirmed

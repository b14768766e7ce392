SPECIFICATION Spec
CONSTANTS
  MixHash = {x, y}
  IntMax = 9
  MaxWindow = 3
  MaxHeight = 3
  MaxStart = 4
INVARIANT SingleSha256

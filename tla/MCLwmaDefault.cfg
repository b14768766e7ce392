SPECIFICATION Spec
CONSTANTS
  Width = 24
  DigitBits = 3
  powLimit <- MCDefaultPowLimit
  nPowTargetSpacing = 4
  nLwmaAveragingWindow = 3
  nLwmaAdjustedWeight = 8
  nLwmaMinDenominator = 10
  fLwmaSolvetimeLimitation = TRUE
  nMedianTimeSpan = 3
  enforce_BIP94 = TRUE
  DifficultyAdjustmentInterval = 4
  MAX_TIMEWARP = 2
  GenesisTime = 0
  TimeStep <- MCTimeStep
  MinableTarget = 4096
  MaxHeight = 7
INVARIANTS IntermediatesInRange CanExtend RightDirection
CHECK_DEADLOCK FALSE

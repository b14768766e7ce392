SPECIFICATION Spec
CONSTANTS
  Width = 24
  DigitBits = 3
  powLimit <- MCShareNetPowLimit
  nPowTargetSpacing = 4
  nLwmaAveragingWindow = 3
  nLwmaAdjustedWeight = 8
  nLwmaMinDenominator = 10
  fLwmaSolvetimeLimitation = TRUE
  nMedianTimeSpan = 3
  enforce_BIP94 = FALSE
  DifficultyAdjustmentInterval = 4
  MAX_TIMEWARP = 2
  GenesisTime = 0
  TimeStep <- MCTimeStep
  MinableTarget = 4096
  MaxHeight = 7
INVARIANT IntermediatesInRange
CHECK_DEADLOCK FALSE

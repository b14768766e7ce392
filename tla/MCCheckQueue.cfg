SPECIFICATION FairSpec
CONSTANTS
  Worker = {w1, w2}
  Master = {m1}
  Error = {e1}
  None = None
  nBatchSize = 2
  MaxAdd = 2
  MaxChecks = 4
  MaxControls = 2
INVARIANTS TodoExact NothingHeld
PROPERTIES VerdictHonest CompleteReturns WorkersEnd

SPECIFICATION FairSpec
CONSTANTS
  Miner = {m1}
  Watcher = {n1}
  Block = {b1, b2}
  Null = Null
  Validation = Validation
  Nobody = Nobody
PROPERTIES EmptyMeansInterrupted ShutdownEndsCalls TipEndsWait InterruptHeard

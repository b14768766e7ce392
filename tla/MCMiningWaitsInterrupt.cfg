SPECIFICATION FairSpec
CONSTANTS
  Miner = {m1, m2}
  Watcher = {}
  Block = {b1, b2}
  Null = Null
  Validation = Validation
  Nobody = Nobody
PROPERTIES InterruptEndsCall

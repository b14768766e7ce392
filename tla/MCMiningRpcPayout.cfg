SPECIFICATION Spec
CONSTANTS
  Thread = {t1}
  Script = {alice}
  CScript = CScript
  Torn = Torn
  PeerScript = PeerScript
  Nobody = Nobody
  NoBlock = NoBlock
  MaxHeight = 0
  MaxUpdates = 1
INVARIANT PaysCurrentAddress
CHECK_DEADLOCK FALSE

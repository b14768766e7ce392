SPECIFICATION Spec
CONSTANTS
  Thread = {t1, t2}
  Script = {}
  CScript = CScript
  Torn = Torn
  PeerScript = PeerScript
  Nobody = Nobody
  NoBlock = NoBlock
  MaxHeight = 1
  MaxUpdates = 1
INVARIANT TemplateStaysFound
CHECK_DEADLOCK FALSE

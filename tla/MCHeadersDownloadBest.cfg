SPECIFICATION Spec
CONSTANTS
  Peer = {1, 2}
  Honest = {1}
  Preferred = {1, 2}
  Main = main
  Chain = {main, low}
  Length <- MCLength
  max_headers_result = 2
  MinimumWork = 6
  BufferSize = 1
  InvBlock = {i1}
  NoSync = NoSync
  None = None
INVARIANTS BestPeerHasMostWork
CHECK_DEADLOCK FALSE

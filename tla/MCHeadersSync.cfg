SPECIFICATION Spec
CONSTANTS
  light = light
  heavy = heavy
  Null = Null
  MaxBase = 5
  Body <- MCBody
  Work <- MCWork
  PeerHash <- MCPeerHash
  Hasher <- MCHasher
  MAX_HEADERS = 2
  commitment_period = 2
  redownload_buffer_size = 2
  m_minimum_required_work = 8
  ChainStartHeight = 1
  ChainStartWork = 2
  Salt = {0, 1}
  MaxCommitments = {1, 3}
INVARIANTS CommitmentsAgree ReleasedConnect ReleaseJustified BoundedMemory
CHECK_DEADLOCK FALSE

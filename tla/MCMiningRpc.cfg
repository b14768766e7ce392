SPECIFICATION FairSpec
CONSTANTS
  Thread = {t1, t2}
  Script = {alice}
  CScript = CScript
  Torn = Torn
  PeerScript = PeerScript
  Nobody = Nobody
  NoBlock = NoBlock
  MaxHeight = 1
  MaxUpdates = 1
INVARIANTS ServedOnTip LongpollIdHonest
PROPERTIES AnswerTruthful LongPollAnswers
CHECK_DEADLOCK FALSE

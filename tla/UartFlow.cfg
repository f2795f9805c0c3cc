SPECIFICATION FairSpec
CONSTANTS
  BufSize = 5
  Watermark = 1
  RxRing = 2
  TxRing = 2
  Settings <- OneOfEachKind
  Burst = 2
  Slack = 1
  PrintLen = 1
INVARIANTS TypeOK NoOverrun LineFollowsBuffer PeerKnows WeKnow RestartAhead
  

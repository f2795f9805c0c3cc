SPECIFICATION Spec
CONSTANTS
  BufSize = 4
  Watermark = 1
  RxRing = 2
  TxRing = 1
  Settings <- NoneAndDtr
  Burst = 2
  Slack = 1
  PrintLen = 1
INVARIANT SetFlowTakesEffect

SPECIFICATION FairSpec
CONSTANTS
  Sizes <- TwoSizes
  QueueSize = 1
  MaxRx = 1
  MaxTx = 1
  MaxEvents = 1
INVARIANTS TypeOK NothingLost SentWhenAcked
PROPERTIES PacketsRead TxAnswered Joins

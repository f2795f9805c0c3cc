SPECIFICATION FairSpec
CONSTANTS
  Ops <- SomeOps
  Folded <- FoldedOps
  Tapes = {"t1", "t2"}
  Block = 2
  TapeSize = 4
  OutSize = 1
  MaxOps = 3
  MaxEvents = 3
INVARIANTS TypeOK TapesKept
PROPERTIES ReadIsTrue Served

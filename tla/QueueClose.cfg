\* Expected violation: a closed queue still returns the packets it holds.
SPECIFICATION FairSpec
CONSTANTS
  Cursors = {c1}
  StartKinds = {"oldest"}
  Delay = 1
  GopCounts = {1}
  InitCap = 1
  MaxWrites = 2
PROPERTY ClosedReadsEof
CHECK_DEADLOCK FALSE

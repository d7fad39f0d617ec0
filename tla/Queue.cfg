\* One cursor of each kind, a ring that grows from one slot to four, changing GOP limits.
SPECIFICATION FairSpec
CONSTANTS
  Cursors = {c1}
  StartKinds = {"latest", "oldest", "time", "gop"}
  Delay = 1
  GopCounts = {1, 3}
  InitCap = 1
  MaxWrites = 4
INVARIANTS RingHoldsWindow NoLostWakeup
PROPERTIES GopCursorStart IsPacketLog CloseReleases
CHECK_DEADLOCK FALSE

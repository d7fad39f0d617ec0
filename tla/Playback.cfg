SPECIFICATION Spec
CONSTANTS
  Second = 1
  Kinds = {"ws", "http"}
  Archives <- MCArchives
  Starts = {0, 2, 4}
  Speeds <- MCSpeeds
  Filler <- MCFiller
  Slack = 2
CHECK_DEADLOCK FALSE
INVARIANTS
  HeaderBeforePacket
  NearArchiveTime
PROPERTIES
  InOrder

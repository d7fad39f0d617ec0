\* Two tracks, a clock that starts again, a second header, both ways to write.
SPECIFICATION Spec
CONSTANTS
  MaxFrames = 1
  Scale <- TwoTracks
  Unit = 3
  Gaps = {4}
  GOP = {TRUE, FALSE}
  MayRestart = TRUE
  Wrap = 64
  MaxPackets = 4
  MaxHeaders = 1
CHECK_DEADLOCK FALSE
INVARIANTS
  EverySampleOnce
  FragmentsTile
  DriftBounded

\* Up to four packets, three ticks in ten units, other layouts of the file.
SPECIFICATION Spec
CONSTANTS
  Tracks <- MCTracks
  Shapes <- MCShapes
  Second = 10
  TimeScale = 3
  Wrap = 14
  Chunkings <- MCChunkings
  SeekTimes = {0, 4, 7, 11, 40, 60}
  MaxPackets = 4
INVARIANTS ReadsWritten CursorsAgree EndIsEnd SeekLands
CHECK_DEADLOCK FALSE

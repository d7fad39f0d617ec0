\* Every box type seven ways; up to four packets in two fragments.
SPECIFICATION Spec
CONSTANTS
  Seeds = {0, 1, 2, 3, 4, 5, 6}
  Video <- MCVideo
  Units = 3
  Shapes <- MCShapes
  Times = {0, 1, 300}
  MaxPackets = 4
  MaxFragments = 2
INVARIANTS RoundTrip PackagesAgree MuxerFragmentPlays FragmentsPlay
CHECK_DEADLOCK FALSE

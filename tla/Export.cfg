SPECIFICATION FairSpec
CONSTANTS
  Second = 2
  Archives <- MCArchives
  Starts = {0, 2, 4, 6, 8}
  Ends = {2, 6, 10}
CHECK_DEADLOCK FALSE
INVARIANTS
  ExportIsWindow
PROPERTIES
  ExportEnds

\* Two servers that challenge, redirect and refuse; two tracks.
SPECIFICATION FairSpec
CONSTANTS
  Servers <- ManyServers
  TrackKinds <- KnownTracks
  NumTracks = 2
  MaxKeepalives = 1
  MaxWire = 1
CHECK_DEADLOCK FALSE
INVARIANTS
  AnswerIsForRequest
  TracksStream
PROPERTIES
  PrepareEnds
  StreamsReturn

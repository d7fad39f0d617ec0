\* Two ends of the package, and the package's client with a camera.
SPECIFICATION FairSpec
CONSTANTS
  MaxProbePacketCount = 2
  Milli = 2
  InitChunk = 1
  BigChunk = 2
  FlvTimestampMax = 2
  Scenarios <- MCScenarios
  Packets <- MCPackets
  Tags <- MCTags
  MaxPackets = 3
  MaxTags = 3
  WireBound = 1
  SmallWindow = 6
INVARIANTS ReadsWhatWasWritten FlvFileReadsBack ReadsWhatWasSent
PROPERTIES DialogueEnds TrailerDelivers
CHECK_DEADLOCK FALSE

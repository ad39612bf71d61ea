SPECIFICATION FairSpec
CONSTANTS
  QSize = 1
  MaxPackets = 2
  MaxStarts = 1
  MaxStats = 1
  NoPacket = NoPacket
PROPERTIES
  StopReturns
  ErrorEndsThreads
CHECK_DEADLOCK FALSE

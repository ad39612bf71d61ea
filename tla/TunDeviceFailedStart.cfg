SPECIFICATION Spec
CONSTANTS
  QSize = 1
  MaxPackets = 1
  MaxStarts = 1
  MaxStats = 1
  NoPacket = NoPacket
INVARIANTS
  FailedStartIsNotRunning
CHECK_DEADLOCK FALSE

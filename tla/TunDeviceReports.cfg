SPECIFICATION Spec
CONSTANTS
  QSize = 1
  MaxPackets = 1
  MaxStarts = 1
  MaxStats = 2
  NoPacket = NoPacket
INVARIANTS
  ReportsNumbered
CHECK_DEADLOCK FALSE

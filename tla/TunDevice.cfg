SPECIFICATION Spec
CONSTANTS
  QSize = 1
  MaxPackets = 2
  MaxStarts = 2
  MaxStats = 1
  NoPacket = NoPacket
INVARIANTS
  TypeOK
  FdSafety
  StoppedIsQuiet
  PacketsInOrder
PROPERTIES
  ImplementsDevice
CHECK_DEADLOCK FALSE

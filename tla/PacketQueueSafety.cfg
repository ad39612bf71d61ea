SPECIFICATION Spec
CONSTANTS
  Size = 3
  BlockWait = 30
  Payloads = {"ping", "data"}
  Length <- MCLength
  NoData = NoData
  Tracked <- FlowCounters
  MaxCount = 6
INVARIANTS
  TypeOK
  Ownership
  RingNeverFull
  AllocFailureIsReal
  BackoffBounded
  AllocAccounting
  FlowAccounting
  ByteAccounting
PROPERTIES
  ImplementsChannel
CHECK_DEADLOCK FALSE

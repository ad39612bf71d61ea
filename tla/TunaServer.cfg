SPECIFICATION FairSpec
CONSTANTS
  Connections = {"c1", "c2"}
  IoThreads = 2
  MaxInits = 2
INVARIANTS
  TypeOK
  ClosedIsClean
  JoinedBeforeDestroyed
PROPERTIES
  WaitsForDevices
  UsesDevices
  
  
CHECK_DEADLOCK FALSE

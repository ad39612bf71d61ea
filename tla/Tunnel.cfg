SPECIFICATION Spec
CONSTANTS
  Bits <- MCBits
  IntMax = 31
  SizeMod = 64
  DefaultMtu = 5
  ShortMod = 16
  WordSize = 2
  Defaults <- MCDefaults
  Requests <- MCRequests
  CommandLines <- MCCommandLines
  HostRoutes <- MCHostRoutes
  KernelMtu = 6
  TunMetric = 16
  MaxLen = 8
INVARIANTS
  TypeOK
  InsideSlot
  PacketsWhole
  ConfiguredAsAsked
  ReportReadBack
  RoutesReadBack
CHECK_DEADLOCK FALSE

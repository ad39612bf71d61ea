SPECIFICATION FairSpec
CONSTANTS
  Size = 2
  BlockWait = 30
  Payloads = {"ping", "data"}
  Length <- MCLength
  NoData = NoData
  Tracked = {}
  MaxCount = 0
PROPERTIES
  PushReturns
  PopReturns
  DeliversEverything

SPECIFICATION FairSpec
CONSTANTS
  Others = {"c1", "c2"}
  BufSize = 2
  MaxOutput = 3
  MaxTuns = 1
INVARIANTS
  TypeOK
  WholeOutput
  ExitCodeIsCommands
  
  FdsReturned
CHECK_DEADLOCK FALSE
PROPERTY RunReturns

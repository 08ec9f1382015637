SPECIFICATION FairSpec
CONSTANTS
  Orders = {o1}
  Executors = {e1}
  NoOne = NoOne
  LeaseTime = 1
  Fresh = 1
  CensusTerminal <- SettleStatuses
  MaxGen = 1
  MaxClock = 0
  MaxFaults = 0
CHECK_DEADLOCK FALSE
PROPERTIES UncertainResolved

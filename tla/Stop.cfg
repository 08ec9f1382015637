SPECIFICATION FairSpec
CONSTANTS
  Orders = {o1}
  Executors = {e1, e2}
  NoOne = NoOne
  LeaseTime = 1
  Fresh = 1
  CensusTerminal <- SettleStatuses
  MaxGen = 2
  MaxClock = 1
  MaxFaults = 1
CHECK_DEADLOCK FALSE
INVARIANTS OneWire UnsentIsUnsent SettledQuiet FreshAfterOn HistoryConsistent CancelledOnce
PROPERTIES PhaseByHolder StopSettles

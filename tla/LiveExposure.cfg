CONSTANTS
  Days <- OneDay
  Symbols = {A, B}
  Sources = {1}
  NoId = NoId
  Capacity = 1
  HistoryLimit = 4
  Cooldown = 0
  CancelAfter = 0
  Signals <- TwoSymbols
  MaxClock = 1
  MaxQty = 1
  MaxCrashes = 1
  BotControl = TRUE
SPECIFICATION Spec
INVARIANTS TypeOK ExposureTracked IndexAgrees
PROPERTIES SentOnce
SYMMETRY AnySymbol
CHECK_DEADLOCK FALSE

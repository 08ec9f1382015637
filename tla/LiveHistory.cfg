CONSTANTS
  Days <- OneDay
  Symbols = {"A"}
  Sources = {1, 2, 3}
  NoId = NoId
  Capacity = 2
  HistoryLimit = 2
  Cooldown = 1
  CancelAfter = 2
  Signals <- OneSymbol
  MaxClock = 2
  MaxQty = 1
  MaxCrashes = 1
  BotControl = FALSE
SPECIFICATION Spec
INVARIANTS OneExposedPerSymbol SourcesAgree RestartEquivalent
PROPERTIES CooldownRespected
CHECK_DEADLOCK FALSE

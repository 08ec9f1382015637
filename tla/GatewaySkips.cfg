SPECIFICATION Spec
CONSTANTS
  Regular = {A}
  Warning = W
  Symbols = {x}
  Unsure = Unsure
  BatchSize = 2
  Retained = 9
  MaxChanges = 1
  MaxCrashes = 1
  MaxFaults = 1
INVARIANTS FailedIsRetried
CHECK_DEADLOCK FALSE

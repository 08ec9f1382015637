SPECIFICATION FairSpec
CONSTANTS
  Regular = {A}
  Warning = W
  Symbols = {x}
  Unsure = Unsure
  BatchSize = 2
  Retained = 3
  MaxChanges = 1
  MaxCrashes = 1
  MaxFaults = 2
INVARIANTS OwnersReplayed WireServesOwners
PROPERTY Covered
CHECK_DEADLOCK FALSE

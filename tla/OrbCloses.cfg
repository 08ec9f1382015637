SPECIFICATION FairSpec
CONSTANTS
  Qty = 2
  MaxPairs = 2
  MaxCrash = 2
  Scenes <- RacesAndCalm
INVARIANTS  SettledIsFlat SentIsDurable
PROPERTY StopEnds
CHECK_DEADLOCK FALSE

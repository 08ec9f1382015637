SPECIFICATION FairSpec
CONSTANTS
  Days = {"d1"}
  Symbols = {"x"}
  Sources = {"s1", "s2", "s3"}
  NoId = NoId
  Capacity = 1
  HistoryLimit = 8
  Cooldown = 0
  CancelAfter = 1
  Detections <- Again
  QueueLimit = 1
  MaxLost = 1
  MaxCrashes = 1
INVARIANTS DeliveredInOrder SlotAccounted ClaimRetained
PROPERTY SlotReleased

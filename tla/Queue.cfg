SPECIFICATION QueueFairSpec
CONSTANTS
  Ids = {a, b, c, d}
  Workers = {w1, w2}
  Slots = 2
  Capacity = 2
  Free = Free
INVARIANTS SingleFlight
PROPERTIES Attended

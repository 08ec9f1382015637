SPECIFICATION Spec
CONSTANTS
  Entry = Entry
  Exits = {X1, X2}
  Quantity = 2
  Prices = {1, 3}
SYMMETRY ExitSymmetry
INVARIANTS PositionExact NeverShort BookedExact OverIsOver
CHECK_DEADLOCK FALSE

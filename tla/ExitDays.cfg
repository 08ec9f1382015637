SPECIFICATION Spec
CONSTANTS
  MaxBuy = 2
  MaxGen = 2
  MaxAttempt = 2
  MaxCrash = 1
  Days <- AllDays
INVARIANTS OneTree BooksExact RecoverableWire LegCancelledOnce
PROPERTY BudgetKept
CHECK_DEADLOCK FALSE

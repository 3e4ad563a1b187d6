SPECIFICATION Live
CONSTANTS
  MaxFrame = 1
  Budgets <- RelayBudgets
  MaxFuture = 1
  Lead = 0
  Delays = {0}
  BatchLen = 2
  FastCapable = {1, 2}
CHECK_DEADLOCK FALSE
INVARIANTS ExactlyOnce InPlace
PROPERTIES ReleasesInOrder HostPaces

CONSTANTS
  k1 = k1
  k2 = k2
  Kos = {k1}
  Env <- BusyLoss
  MaxMessages = 2
  MaxLosses = 1
SPECIFICATION FairSpec
CHECK_DEADLOCK FALSE
PROPERTIES
  Reconnects

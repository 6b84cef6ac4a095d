CONSTANTS
  k1 = k1
  k2 = k2
  Kos = {k1, k2}
  Env <- AnyFault
  MaxMessages = 3
  MaxLosses = 2
SPECIFICATION FairSpec
CHECK_DEADLOCK FALSE
INVARIANTS
  NoJobLost
  OneRepeatPerLoss
PROPERTIES
  HandledEventually

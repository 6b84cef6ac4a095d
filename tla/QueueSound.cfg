SPECIFICATION Spec
CONSTANTS
  m1 = m1
  m2 = m2
  m3 = m3
  s1 = s1
  s2 = s2
  Msgs = {m1, m2, m3}
  Sessions = {s1, s2}
  NoMsg = NoMsg
  Priorities <- TwoPriorities
  Address <- MCAddress
  Caller <- MCCaller
CHECK_DEADLOCK FALSE
INVARIANTS AtMostOnce ReadIsDelivered ClearedIsNeverRead
PROPERTIES ImplementsAtMostOnce
SYMMETRY Symmetry

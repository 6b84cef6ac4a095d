CONSTANTS
  j1 = j1
  j2 = j2
  c1 = c1
  i1 = i1
  bot1 = bot1
  bot2 = bot2
  proc = proc
  node = node
  s1 = s1
  s2 = s2
  s3 = s3
  s4 = s4
  s5 = s5
  Msgs = {j1, j2, c1, i1}
  Sessions = {s1, s2, s3, s4, s5}
  NoMsg = NoMsg
  Priorities <- NoPriority
  Address <- MCAddress
  Caller <- MCCaller
  Readers = {bot1, bot2, proc, node}
  Kind <- MCKind
  Asks <- MCAsks
  Annotation <- MCAnnotation
  Scenes <- MCScenes
  MaxEvents = 1
  MaxFailures = 2
SPECIFICATION NFairSpec
CHECK_DEADLOCK FALSE
INVARIANTS AtMostOnce
PROPERTIES Received EventWakes

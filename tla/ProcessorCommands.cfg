CONSTANTS
  a = a
  b = b
  c = c
  All = All
  Nodes <- MCNodes
  Edges <- MCEdges
  Drawings <- MCDrawings
  Commands <- MCCommands
  Lossy <- MCLossy
  MaxQueue = 1
  MaxAsks = 2
  MaxShells = 2
  MaxBuffer = 1
SPECIFICATION FairSpec
CHECK_DEADLOCK FALSE
INVARIANTS
  RunsWhatWasAsked
  OneShell

PROPERTIES
  StartIsServed
  StopEnds

CONSTANTS
  Nodes <- MCNodes
  NoField = 0
  Graphs <- MCGraphs
  Env <- AllEvents
  MaxElements = 2
  MaxRestarts = 1
SPECIFICATION FairSpec
INVARIANTS
  TransmitsFresh OneElementPerPass CollectsEverything CollectorRunsLast HandlerInScope CleanFinish
PROPERTY Terminates

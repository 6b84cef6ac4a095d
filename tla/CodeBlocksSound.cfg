SPECIFICATION Spec
CONSTANTS
  processor = processor
  editor = editor
  job = job
  Sessions = {processor, editor}
  Blocks = {1, 2, job}
  Job = job
  None = None
  Empty = Empty
  Garbled = Garbled
  Reads <- MCReads
  Writes <- MCWrites
  Original <- MCOriginal
  Names = {"n1", "n2"}
  Bodies = {"c1", "c2"}
  First <- MCFirst
  Restores <- MCRestores
  Kept = 2
  MaxCalls = 3
  Failing = TRUE
  Subscribes = {2}
  Repositories = {1}
INVARIANT HistoryCoherent
PROPERTY NamedOnly
CHECK_DEADLOCK FALSE

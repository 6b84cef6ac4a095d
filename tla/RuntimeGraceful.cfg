SPECIFICATION Spec
CONSTANTS
  Kos = {k1, k2}
  Threads = {t1, t2, t3}
  Main = Main
  NoThread = NoThread
  NoKo = NoKo
  Env <- Graceful
SYMMETRY Symmetry
INVARIANTS ExitedIsFinal OneProcessorPerKo ContextIntact
PROPERTIES ImplementsLeases
CHECK_DEADLOCK FALSE

SPECIFICATION FairSpec
CONSTANTS
  Kos = {k1}
  Threads = {t1, t2}
  Main = Main
  NoThread = NoThread
  NoKo = NoKo
  Env <- Forced
PROPERTIES StopKills ShutdownCompletes
CHECK_DEADLOCK FALSE

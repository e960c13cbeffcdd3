CONSTANTS
  Threads = {t1, t2, t3}
  NoThread = NoThread
  PthreadsExplicit = {t1, t2}
  DefaultExplicit = {t1}
  MaxDepth = 2
SPECIFICATION FairSpec
INVARIANTS HolderOwnsMutex
PROPERTIES LockIsGranted

CONSTANTS
  Threads = {t1, t2}
  NoThread = NoThread
  PthreadsExplicit = {t1, t2}
  DefaultExplicit = {t1, t2}
  MaxDepth = 1
SPECIFICATION Spec
INVARIANTS ExplicitCallsSucceed

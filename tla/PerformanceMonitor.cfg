CONSTANTS
  Threads = {p, q}
  Ids = {a, b}
  ntimings = 2
  MaxDepth = 2
  MaxScopes = 3
  MaxTicks = 4
SPECIFICATION Spec
INVARIANTS SumsMatchRing UndisturbedIsExact

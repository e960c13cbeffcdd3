CONSTANTS
  Callbacks = {c1, c2}
  NoCall = NoCall
  Builds = {TRUE}
  MaxStarts = 2
SPECIFICATION Spec
INVARIANTS AbortedIsNotCompleted
CHECK_DEADLOCK FALSE

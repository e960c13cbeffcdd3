CONSTANTS
  Callbacks = {c1, c2}
  NoCall = NoCall
  Builds = {TRUE, FALSE}
  MaxStarts = 2
SPECIFICATION Spec
INVARIANTS DerivedRunIsEntered
CHECK_DEADLOCK FALSE

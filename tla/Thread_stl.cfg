CONSTANTS
  Callbacks = {c1, c2}
  NoCall = NoCall
  Builds = {FALSE}
  MaxStarts = 2
SPECIFICATION Spec
PROPERTIES FinishedIsJoined
CHECK_DEADLOCK FALSE

CONSTANTS
  Callbacks = {c1, c2}
  NoCall = NoCall
  Builds = {TRUE, FALSE}
  MaxStarts = 3
SPECIFICATION FairSpec
INVARIANTS OneBody FlagsAreOfThisRun
PROPERTIES StopIsKept RunExIsJoined JoinReturns
CHECK_DEADLOCK FALSE

CONSTANTS
  MaxOps = 5
SPECIFICATION FairSpec
INVARIANTS NoUseAfterFree FlushLeavesNothing FirstHasOneWriter
PROPERTIES ImplementsOrderedFile CallsReturn BackgroundProgress

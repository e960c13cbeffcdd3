SPECIFICATION Spec
CONSTANTS
  W = 3
  Buffers <- MCBuffers
  ItemSizes = {1, 2, 3}
  Tick = 3
  Second = 6
  Base = 3
  MaxTime = 216
  Sets <- MCSets
  Stems <- MCStems
  Lists <- MCLists
  Depth <- MCDepth
  Objects = {a, b, c}
  Roots = {r, s}
  NULL = NULL
  Modulus = 64
  NsPerSecond = 4
  Denominators = {1, 3}
  Numerators = {1, 7}
  MaxNumerator = 20
  Receivers = {r1, r2, r3}
  JSONObjects <- MCJSONObjects
  NamedLists <- MCNamedLists
  Factories <- MCFactories
  Requests <- MCRequests
  Entries <- MCEntries
  MaxCalls = 3
  FileObjects = {o1, o2}
  FileNames = {"f", "stdout"}
  MaxHandles = 3
  MaxBlocks = 2
  PathLists <- MCPathLists
  Names <- MCNames
  Existing <- MCExisting
  Texts <- MCTexts
  Patterns <- MCPatterns
  Files <- MCFiles
  NumberFormats <- MCNumberFormats
  Formats <- MCFormats
  MessageParameters <- MCMessageParameters
  Reports <- MCReports
  Failures <- MCFailures
  Points <- MCPoints
  Probes <- MCProbes
  Rotations <- MCRotations
  Transforms <- MCTransforms
  Screens <- MCScreens
\* The first that fails ends the check: each has to be tried alone.
INVARIANT CombinationsAreDocumented
INVARIANT StoredRotationsComeBack
INVARIANT NumbersAreReadBack
INVARIANT AnglesAreDocumented
INVARIANT ShorterPathIsTaken
INVARIANT LevelsAreDocumented
INVARIANT SectionIsNotReentered
CHECK_DEADLOCK FALSE

CONSTANTS
  Names <- MCNames
  Values <- MCValues
  Environment <- MCEnvironment
  Texts <- MCTexts
  MaxLength = 18
  MaxPaths = 9
SPECIFICATION Spec
INVARIANTS ResultIsExpansion
PROPERTIES SubstitutionEnds
CHECK_DEADLOCK FALSE

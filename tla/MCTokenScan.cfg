SPECIFICATION Spec
CONSTANTS
  None = None
  Ill = Ill
  DepthLimit = 2
  Names <- MCNames
  Strings <- MCStrings
  MaxTokens = 8
INVARIANTS
  FirstDefectFixesTheCode
  CorrelationIsFinalSpelling
  ErrorCodeIsDirect
  PayloadBoundsAreMarked
CHECK_DEADLOCK FALSE

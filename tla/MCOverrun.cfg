SPECIFICATION Spec
CONSTANTS
  PageSize = 8
  Sizes = {1, 2}
  ScopeSize = 2
  MaxPosition = 12
CHECK_DEADLOCK FALSE
INVARIANT
  InsideBuffer

SPECIFICATION Spec
CONSTANTS
  PageSize = 8
  Sizes = {1, 2}
  ScopeSize = 2
  MaxPosition = 7
CHECK_DEADLOCK FALSE
INVARIANTS
  TypeOK
  TableIsExact
  ManagerOutlivesObjects
PROPERTIES
  ImplementsAllocator

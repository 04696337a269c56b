SPECIFICATION Spec
CONSTANTS
  IntMin <- MCIntMin
  IntMax = 3
  Concat <- MCConcat
  ToStr <- MCToStr
  Numeral <- MCNumeral
  Before <- MCBefore
  RandInt <- MCRandInt
  Keys = {"a", "b"}
  ElementKey = "0"
  Texts = {"s"}
  Numbers = {1, 4}
  Floats = {"1.5"}
  MaxCalls = 5
CHECK_DEADLOCK FALSE
INVARIANTS
  ConverterTypeOK
  StackIsNesting
  ValueIsDocument
  ValidDocumentsConvert
  RoundTrip
  RefusesForCause

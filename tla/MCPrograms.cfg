SPECIFICATION FairSpec
CONSTANTS
  IntMin <- MCIntMin
  IntMax = 15
  Concat <- MCConcat
  ToStr <- MCToStr
  Numeral <- MCNumeral
  Before <- MCBefore
  RandInt <- MCRandInt
  Modules <- SupportedPrograms
  Trees <- MCTrees
  Height <- MCHeight
  Programs <- MCPrograms
  ArenaObjects = 200
  HostedPrograms = {}
  HostNames = {}
  HostTexts = {}
  HostModules = {}
  HostObjects = 0
INVARIANTS
  CodeIsWellFormed
  JumpsNeedLoops
  ScopePerIteration
  OneBinding
  NoCycles
  BorrowsAreLive
  ConsumesItsNode
  ReadsWhatWasWritten
  AgreesWithPython
  EndsAtTheEnd
PROPERTIES
  ReturnIsFinal
  Terminates

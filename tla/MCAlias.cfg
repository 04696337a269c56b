SPECIFICATION FairSpec
CONSTANTS
  IntMin <- MCIntMin
  IntMax = 15
  Concat <- MCConcat
  ToStr <- MCToStr
  Numeral <- MCNumeral
  Before <- MCBefore
  RandInt <- MCRandInt
  Modules <- AliasProgram
  Trees <- MCTrees
  Height <- MCHeight
  Programs <- MCPrograms
  ArenaObjects = 200
  HostedPrograms = {}
  HostNames = {}
  HostTexts = {}
  HostModules = {}
  HostObjects = 0
PROPERTY
  IntegersAreValues

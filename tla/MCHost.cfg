SPECIFICATION FairSpec
CONSTANTS
  IntMin <- MCIntMin
  IntMax = 15
  Concat <- MCConcat
  ToStr <- MCToStr
  Numeral <- MCNumeral
  Before <- MCBefore
  RandInt <- MCRandInt
  Modules <- EmbeddedPrograms
  Trees <- MCTrees
  Height <- MCHeight
  Programs <- MCPrograms
  ArenaObjects = 200
  HostedPrograms = {1, 2}
  HostNames = {"x", "l"}
  HostTexts = {"bar", "foo"}
  HostModules = {"foo"}
  HostObjects = 6
INVARIANTS
  TypeOK
  NeverWrong
  AnswersFromPresets
  OneModule
PROPERTIES
  LastPresetWins
  NumbersAreNotReused

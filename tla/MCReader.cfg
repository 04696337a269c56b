SPECIFICATION Spec
CONSTANTS
  Char = {"c", "newline"}
  Newline = "newline"
  MaxLength = 8
INVARIANTS
  TypeOK
  ReadsTheCode
  LinesAreLines
  EmptyLineIsTheEnd
  LineNumberCounts

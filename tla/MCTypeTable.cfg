SPECIFICATION Spec
CONSTANTS
  A = A
  B = B
  G = G
  NULL = NULL
  Name <- Names
  APPLICATION = G
  MaxModules = 2
  MaxDeclarations = 3
INVARIANTS
  TableSound
  MeantAsWritten
  NamesJudged
  ChecksEnd
SYMMETRY Swapped
CHECK_DEADLOCK FALSE

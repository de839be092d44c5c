SPECIFICATION ParserSpec
CONSTANTS
  NULL = NULL
  ByteSize = 2
  Texts <- Written
INVARIANTS
  NumbersOrdered
  NumbersJudged
  DifferencesExact
  ObjectsJudged
  ClausesJudged
CHECK_DEADLOCK FALSE

SPECIFICATION MCSpec
CONSTANTS
  M = M
  N = N
  P = P
  anyKind = anyKind
  NULL = NULL
  NoFile = NoFile
  Module <- Modules
  Subid = {1, 2, 3}
  Kind <- Kinds
  Name = {"a", "b", "c", "d", "e"}
  UNKNOWN = "unknown"
  ANY = anyKind
  Filters <- Wishes
  Texts <- Inputs
  Language <- Languages
  TypesOf <- Types
  MacrosOf <- Macros
  ImportsOf <- Imports
  Statements <- Lists
  Numbers <- Asked_
INVARIANTS
  ToursSound
  NamesFound
PROPERTIES
  WalkVisitsAll
CHECK_DEADLOCK FALSE

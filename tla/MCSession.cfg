SPECIFICATION Spec
CONSTANTS
  Old = Old
  New = New
  lint = lint
  dump = dump
  If = If
  Smi = Smi
  D = D
  E = E
  w = w
  n = n
  NULL = NULL
  Tag <- Tags
  Program <- Programs
  App <- Apps
  Module <- Modules
  Dir <- Dirs
  Text <- Files
  Config <- Configuration
  SmiPath <- Environment
  Error <- Errors
  Level <- Table
  NOT_FOUND = n
  Levels = {6}
  Flags <- Quietness
  Patterns <- Patterned
  Paths <- SearchPaths
  Severities = {0, 128}
  MaxHandles = 3
  MaxCalls = 6
INVARIANTS
  ToldAsAsked
  ConformanceSmallest
PROPERTY DataSetSpec
SYMMETRY Swapped
CHECK_DEADLOCK FALSE

SPECIFICATION Spec
CONSTANTS
  A = A
  B = B
  S = S
  xa = xa
  xb = xb
  mt = mt
  NULL = NULL
  Name <- Names
  Symbol <- Symbols
  Class <- ClassOf
  SNMPv2_SMI = S
  MAX_LEX_DEPTH = 4
  Disks <- Layouts
INVARIANTS
  RecordsTrue
  TypeOK
  OneParserPerModule
  NestingBounded
  OwnBuffer
  StaleImportNeedsLoop
PROPERTIES
  ModulesOnlyGrow
  RegistrySpec

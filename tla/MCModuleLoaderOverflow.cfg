SPECIFICATION FairSpec
CONSTANTS
  A = A
  B = B
  S = S
  xa = xa
  xb = xb
  mt = mt
  NULL = NULL
  Name <- Names
  Symbol <- Symbols
  Class <- ClassOf
  SNMPv2_SMI = S
  MAX_LEX_DEPTH = 1
  Disks <- Chains
PROPERTY LoadReturns
CHECK_DEADLOCK FALSE

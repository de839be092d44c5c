SPECIFICATION Spec
CONSTANTS
  iso = iso
  na = na
  nb = nb
  nc = nc
  nd = nd
  nz = nz
  NULL = NULL
  Name <- Names
  ISO = iso
  Subid <- Subids
  MAX_OID = 7
  Files <- Inputs
INVARIANTS
  MergeReturns
CHECK_DEADLOCK FALSE

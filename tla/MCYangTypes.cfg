SPECIFICATION Spec
CONSTANT
  Modules <- WrittenModules
INVARIANT TypesResolved
CHECK_DEADLOCK FALSE

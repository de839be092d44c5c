SPECIFICATION Spec
CONSTANT
  Modules <- WrittenModules
INVARIANTS
  ReferencesSound
  SchemaAsMeant
CHECK_DEADLOCK FALSE

SPECIFICATION Spec
CONSTANTS
  Names = {"a", "b"}
  Inputs <- MCInputs
INVARIANT
  TypeNamesAreRefused
CHECK_DEADLOCK FALSE

SPECIFICATION Spec
CONSTANTS
  Inputs <- MCInputs
INVARIANT
  TupleFieldsAreFilled
CHECK_DEADLOCK FALSE

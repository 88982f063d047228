SPECIFICATION Spec
CONSTANTS
  Inputs <- MCInputs
INVARIANT
  OnlyOptionsAreWrapped
CHECK_DEADLOCK FALSE

SPECIFICATION Spec
CONSTANTS
  Fields <- MCFields
  Values <- MCValues
INVARIANT
  OwnTypeIsAllowed
CHECK_DEADLOCK FALSE

SPECIFICATION Spec
CONSTANTS
  Texts <- MCTexts
INVARIANT
  LineStartsInColumnZero
CHECK_DEADLOCK FALSE

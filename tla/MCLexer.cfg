SPECIFICATION Spec
CONSTANTS
  Texts <- MCTexts
INVARIANTS
  TypeOK
  CommentsEndWhereTheyNest
  NumbersAreNeverNames
  WordsAreReadWhole
  StringsEndAtAnUnescapedQuote
PROPERTIES
  Terminates
CHECK_DEADLOCK FALSE

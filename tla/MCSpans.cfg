SPECIFICATION Spec
CONSTANTS
  Texts <- MCTexts
INVARIANTS
  TypeOK
  SpansTileTheText
  LinesAreTheGrammars
  BothEndsAreCounted
  EndIsNotBeforeStart
CHECK_DEADLOCK FALSE

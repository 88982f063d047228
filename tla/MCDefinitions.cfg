SPECIFICATION Spec
CONSTANTS
  Inputs <- MCInputs
INVARIANTS
  TypeOK
  AcceptsTheLegalItSupports
  CatchAllComesLast
  NothingIsLost
  FieldsAreBoundButForTheGaps
CHECK_DEADLOCK FALSE

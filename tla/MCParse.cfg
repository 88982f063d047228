SPECIFICATION Spec
CONSTANTS
  Names = {"a", "b"}
  Docs <- MCDocs
INVARIANTS
  TypeOK
  FaultyNodesAreReportedInTurn
  ErrorsInDecodingOrder
  ConformingNodesAreIndependent
PROPERTIES
  KeepsContract
CHECK_DEADLOCK FALSE

SPECIFICATION Spec
CONSTANTS
  Names = {"a", "b"}
  Inputs <- MCInputs
INVARIANTS
  TypeOK
  PlaceholdersAreReported
  ErrorsInDecodingOrder
  NoChildPassedOver
PROPERTIES
  KeepsContract
  NothingSilentlyReplaced
CHECK_DEADLOCK FALSE

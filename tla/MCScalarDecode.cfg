SPECIFICATION Spec
CONSTANTS
  Fields <- MCFields
  Values <- MCValues
INVARIANTS
  TypeOK
  SettlesAsDecodeValue
  AcceptsExactlyTheAdmitted
  OptionOnlyAddsNull
  OneErrorPerPart
CHECK_DEADLOCK FALSE

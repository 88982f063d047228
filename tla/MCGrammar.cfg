SPECIFICATION WrittenSpec
CONSTANTS
  Texts <- MCTexts
  Documents <- MCDocuments
INVARIANTS
  TypeOK
  ReadInOrder
  ParentsAreTheBracesAround
  NothingSlashdashedIsKept
  UnclosedNamesTheInnermost
  ReadsBackWhatWasWritten

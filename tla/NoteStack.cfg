SPECIFICATION ProxySpec
CONSTANTS
  Note = {58, 59, 60, 61, 62}
  OtherHalf = {58}
INVARIANTS
  StackTypeOK
  AnswersAreThoseOfTheWalk
PROPERTY
  ImplementsNoteOrder

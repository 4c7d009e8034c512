CONSTANTS
  SizeMod = 16
  MaxLen = 5
SPECIFICATION FairSpec
INVARIANTS TypeOK CompletedIsAccepted AnswerOfFirstError
PROPERTIES Returns
CHECK_DEADLOCK FALSE

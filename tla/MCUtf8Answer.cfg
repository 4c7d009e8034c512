CONSTANTS
  SizeMod = 16
  MaxLen = 3
SPECIFICATION Spec
INVARIANTS TrueIsRight
CHECK_DEADLOCK FALSE

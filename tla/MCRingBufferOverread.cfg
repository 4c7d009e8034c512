CONSTANTS
  Bytes = {b0, b1}
  Capacities = {2}
  SizeMod = 8
  MaxLen = 3
SPECIFICATION Spec
PROPERTIES AcceptedWriteFits
CHECK_DEADLOCK FALSE

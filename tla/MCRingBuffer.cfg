CONSTANTS
  Bytes = {b0, b1}
  Capacities = {1, 2, 3}
  SizeMod = 8
  MaxLen = 4
SPECIFICATION FittingSpec
INVARIANTS TypeOK SizeIsDistance
PROPERTIES ImplementsFifo CountShortOnlyWhenDrained
CHECK_DEADLOCK FALSE

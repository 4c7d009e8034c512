CONSTANTS
  Nodes = {n1, n2, n3, n4}
  Data = {d1, d2}
  NULL = NULL
  MaxPos = 5
SPECIFICATION Spec
INVARIANTS TypeOK LenCountsNodes MemoryInOrder GnatFindsNode
PROPERTIES ImplementsChain
CHECK_DEADLOCK FALSE

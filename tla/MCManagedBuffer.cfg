CONSTANTS
  RefMod = 8
  MaxReaders = 4
  MaxUnmatched = 3
SPECIFICATION Spec
INVARIANTS TypeOK CountIsLeases WriterIsAlone
PROPERTIES StaleByWritesOnly FreeAnswer LockedForGood
CHECK_DEADLOCK FALSE

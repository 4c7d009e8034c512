CONSTANTS
  Byte = {0, 1, 2, 3}
  Xor <- MCXor
  siphash <- MCsiphash
  Uninit = Uninit
SPECIFICATION Spec
INVARIANTS TypeOK KeyDeterminesSeed
CHECK_DEADLOCK FALSE

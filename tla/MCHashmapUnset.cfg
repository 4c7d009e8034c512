CONSTANTS
  k1 = k1
  k2 = k2
  k3 = k3
  Keys = {k1, k2, k3}
  NULL = NULL
  ListPtr = ListPtr
  Hash <- MCHash
  Digest <- MCDigest
  InitCaps = {2}
  Threshold = 75
  Values = {v1}
  Callbacks = {}
  MaxBuckets = {}
  ResizeCaps = {}
  MaxSet = 2
  MallocMayFail = FALSE
SPECIFICATION Spec
PROPERTY UnsetRemovesItsKeyOnly
CHECK_DEADLOCK FALSE

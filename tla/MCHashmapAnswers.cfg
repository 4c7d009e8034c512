CONSTANTS
  k1 = k1
  k2 = k2
  k3 = k3
  Keys = {k1, k2, k3}
  NULL = NULL
  ListPtr = ListPtr
  Hash <- MCHash
  Digest <- MCDigest
  InitCaps = {2}
  Threshold = 100
  Values = {v1, v2, NULL}
  Callbacks = {}
  MaxBuckets = {}
  ResizeCaps = {1, 4}
  MaxSet = 3
  MallocMayFail = TRUE
SPECIFICATION Spec
PROPERTIES ResizeKeepsAnswers DamageIsConfined
CHECK_DEADLOCK FALSE

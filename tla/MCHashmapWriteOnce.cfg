CONSTANTS
  k1 = k1
  k2 = k2
  k3 = k3
  k4 = k4
  Keys = {k1, k2, k3, k4}
  NULL = NULL
  ListPtr = ListPtr
  Hash <- MCHash
  Digest <- MCDigest
  InitCaps = {1, 2}
  Threshold = 75
  Values = {v1, v2}
  Callbacks = {"default", "guest"}
  MaxBuckets = {}
  ResizeCaps = {8}
  MaxSet = 4
  MallocMayFail = FALSE
SPECIFICATION WriteOnceSpec
INVARIANTS SetIsElementCount HealthyLoad
PROPERTIES ImplementsMap

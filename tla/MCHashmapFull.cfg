CONSTANTS
  k1 = k1
  k2 = k2
  k3 = k3
  Keys = {k1, k2, k3}
  NULL = NULL
  ListPtr = ListPtr
  Hash <- MCHash
  Digest <- MCDigest
  InitCaps = {1, 2}
  Threshold = 75
  Values = {v1, NULL}
  Callbacks = {"guest"}
  MaxBuckets = {2}
  ResizeCaps = {1, 4}
  MaxSet = 3
  MallocMayFail = TRUE
SPECIFICATION FairSpec
INVARIANTS TypeOK HashPlacement SetBoundsEntries LockedOnlyAfterError
PROPERTIES FreedEntriesStay WedgedForever ErrorEndsGrowth CallReturns
CHECK_DEADLOCK FALSE

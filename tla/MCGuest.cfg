CONSTANTS
  l1 = l1
  l2 = l2
  l3 = l3
  Keys = {l1, l2, l3}
  Values = {l1, l2, l3}
  Lines <- MCLines
  Nodes = {n1, n2, n3}
  NULL = NULL
  ListPtr = ListPtr
  Hash <- MCHash
  Digest <- MCDigest
  InitCaps = {1, 2, 4}
  Threshold = 75
  Callbacks = {"guest"}
  MaxBuckets = {}
  ResizeCaps = {}
  MaxSet = 3
  MallocMayFail = TRUE
  RefMod = 8
SPECIFICATION GuestSpec
INVARIANTS GuestTypeOK FirstNodeAddedTwice LeftAtTheEnd
PROPERTIES LookUpsFind MainEnds StoresOnce
CHECK_DEADLOCK FALSE

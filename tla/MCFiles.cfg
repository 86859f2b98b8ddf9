SPECIFICATION FilesSpec
CONSTANTS
  i1 = i1
  i2 = i2
  p1 = p1
  p2 = p2
  p3 = p3
  p4 = p4
  v1 = v1
  Ids <- MCIds
  Hash <- MCHash
  Values = {v1}
  Places <- MCPlaces
  MaxBuckets = 4
  MaxEdits = 3
  MaxPageOps = 5
\* One owner fits a block beside the value, two or three need a second block.
  c1 = c1
  c2 = c2
  o1 = o1
  o2 = o2
  o3 = o3
  Contents <- MCContents
  Owners <- MCOwners
  Base = 1
  BlockSize = 2
  MaxHeapBlocks = 6
  MaxCalls = 5
  MaxFlushes = 2
  MaxFaults = 1
  MaxRestarts = 1
  a1 = a1
  a2 = a2
  w1 = w1
  t1 = t1
  t2 = t2
  Anchors <- MCAnchors
  Payloads = {w1}
  MaxEntries = 5
  Threads <- MCThreads
  MaxSize = 3
  MaxBytes = 2
  MaxRecorded = 6
  Word = 64
INVARIANTS  NodeCacheFresh HeapExact SavedInOrder 
SYMMETRY Symmetry
CHECK_DEADLOCK FALSE

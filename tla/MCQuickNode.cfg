SPECIFICATION FairSpec
CONSTANTS
  a = a
  b = b
  Order <- MCOrder
  MaxWrites = 2
  BatchMax = 1
  MaxFaults = 1
  MaxEvictions = 1
INVARIANTS
  HistoryAccounted
  ReplicasSound
PROPERTIES
  HistoryReaches
CHECK_DEADLOCK FALSE

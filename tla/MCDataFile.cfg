SPECIFICATION Spec
CONSTANTS
  k1 = k1
  k2 = k2
  w1 = w1
  w2 = w2
  Keys = {k1, k2}
  Hash <- MCHash
  Probe <- MCProbe
  Count0 = 1
  Capacity = 2
  EntryCost = 1
  Sizes = {1}
  Writers = {w1, w2}
  MaxWrites = 3
  MaxFlushes = 1
  MaxRestarts = 1
INVARIANTS TableSound
 
SYMMETRY Symmetry
CHECK_DEADLOCK FALSE

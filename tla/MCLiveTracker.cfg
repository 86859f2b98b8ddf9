SPECIFICATION Spec
CONSTANTS
  h1 = h1  h2 = h2
  Tasks = {h1, h2}
  Cap = 2
  MaxWrites = 3
  MaxDeletes = 1
  MaxCrashes = 2
  MaxFaults = 1
SYMMETRY TaskSymmetry
INVARIANTS ListSound ListRecoverable NewestIsServed

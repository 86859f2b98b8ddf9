SPECIFICATION Spec
CONSTANTS
  a = a  b = b  w1 = w1  w2 = w2
  Ids = {a, b}
  Writers = {w1, w2}
  MaxWrites = 2
  MaxCrashes = 0
  MaxFaults = 0
INVARIANTS AckedIsDurable

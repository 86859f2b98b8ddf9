SPECIFICATION FairSpec
CONSTANTS
  a = a  b = b  w1 = w1  w2 = w2
  Ids = {a, b}
  Writers = {w1, w2}
  MaxWrites = 3
  MaxCrashes = 2
  MaxFaults = 1
INVARIANTS CommittedRecoverable ReadYourWrites
PROPERTIES ExposureEnds

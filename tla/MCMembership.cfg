SPECIFICATION FairSpec
CONSTANTS
  n1 = n1
  n2 = n2
  n3 = n3
  Nodes <- MCNodes
  Config <- SeedConfig
  Beating <- SeedBeats
  Faulty <- PairNodes
  Strikes = 2
  EpochCap = 1
  MaxFaults = 2
 
PROPERTY StoppedIsEvicted
CHECK_DEADLOCK FALSE

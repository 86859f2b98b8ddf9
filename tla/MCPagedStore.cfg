SPECIFICATION Spec
CONSTANTS
  Empty = Empty
  t1 = t1
  t2 = t2
  p1 = p1
  p2 = p2
  p3 = p3
  p4 = p4
  p5 = p5
  Types <- OneType
  Ids <- TwoIds
  Hash <- HashOfIds
  Bigs = {TRUE, FALSE}
  Places <- FivePlaces
  DefaultSlots = 1
  MaxSlots = 2
  TrainAt = 2
  MaxWrites = 2
  MaxCrashes = 1
  MaxFaults = 1
  PowerLoss = TRUE
SYMMETRY PlaceSymmetry
CONSTRAINT Intact
INVARIANTS
  ReadYourWrites
  
  LedgerCovers

SPECIFICATION AlgorithmsSpec
CONSTANTS
  MaxBlocks = 9
  MaxRun = 4
\* One bucket promotes at its fifth entry into a tree of three leaves.
  Buckets = {0, 1}
  MaxKey = 3
  Threshold = 5
  NodeMax = 2
  Users = {0, 2, 3}
  InlineMax = 2
  MaxOps = 7
  Byte = 8
  SlotBytes = 1
  IdBits <- MCIdBits
  Samples <- MCSamples
  Documents <- MCDocuments
  Probes <- MCProbes
  MaxFields = 3
  Versions = {1, 2, 3}
  MaxRegistrations = 3
  StartBits = 2
  CountBits = 1
  OccupationBits = 2
  RunLen = 17
  Images <- MCImages
  Dictionaries = {1, 2}
  MaxSteps = 4
  Types = {1, 2}
  Slots = {0, 1}
  Descriptors = {5}
  RecordIds = {1}
  Starts = {0, 1}
  Payloads <- MCPayloads
  MaxRecords = 3
INVARIANTS
  Partition RebuildAgrees IndexExact WireExact 
  MigrationSound LayoutsExact JournalExact
CHECK_DEADLOCK FALSE

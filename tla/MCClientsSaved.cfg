SPECIFICATION ClientsSpec
CONSTANTS
  t1 = t1
  t2 = t2
  Tasks = {t1, t2}
  MaxCalls = 4
  MaxFaults = 1
  Slow = {0, 1}
  Records <- MCRecords
\* A page holds one record, so that a second one truncates it.
  BrowseMax = 1
  NoKey = NoKey
  Nothing = Nothing
  ClusterKey = right
  Keys = {right}
\* The clocks differ by all that the window allows.
  Window = 30
  Skews = {30}
  MaxClicks = 2
  MaxFailures = 1
  MaxFlushes = 2
INVARIANTS SavedIsStored
CHECK_DEADLOCK FALSE

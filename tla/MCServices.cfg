SPECIFICATION ServicesSpec
CONSTANTS
  Tenants = {1, 2}
  Structs = {"acc", "msg"}
  Versions = {1, 2}
  UniqueShape = {"acc"}
  HasValidate = {"msg"}
  HasPreprocess = {"msg"}
  Registries <- MCRegistries
  NoRegistry = NoRegistry
  OldRecords <- MCOldRecords
  Rings = {{1}, {1, 2}}
  MaxSeq = 2
  MaxRejected = 1
  MaxFaults = 1
  PinTenants = {1}
  Shards = {0, 1}
  RingOwned <- MCRingOwned
  PinNodes = {n1, n2}
  MaxPins = 3
  MaxTransfers = 2
  Tabs = {b1}
  Owners = {o1, o2}
  NoOwner = NoOwner
  Calls = {"write", "delete"}
  MaxCalls = 3
  Digit = 2
  KeyLen = 3
  TenantLen = 2
  MaxPuts = 3
  Rows = 3
  ByUrl <- MCByUrl
  ById <- MCById
  Visible = 2
  Step = 3
  LogCap = 3
  MaxMessages = 4
  QuickNodes = {q1, q2}
\* A Slow-Node would add only its health.
  SlowNodes = {}
  Failures = {"Unreachable"}
  Slots = {0, 1}
  Writes <- MCWrites
  Unpolled = Unpolled
  MaxCount = 2
  MaxTrouble = 2
INVARIANTS
  ResultsExact WritesExact OwnershipExact BrowserSound
  TerminalSound GraphsHonest
CHECK_DEADLOCK FALSE

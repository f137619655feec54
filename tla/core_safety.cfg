SPECIFICATION Spec
CONSTANTS
  h1 = h1
  ip1 = ip1
  core = core
  o1 = o1
  o2 = o2
  NoSwitch = NoSwitch
  NoMonitor = NoMonitor
  NoHost = NoHost
  NoName = NoName
  Hosts = {h1}
  Names = {ip1}
  IpName <- OneIpName
  ManualPairs <- ByAddress
  ScanHosts = {h1}
  Operators = {o1, o2}
  MaxSlots = 2
  Threshold = 1
  MaxFailures = 1
  Dedup = TRUE
  Events = {"crash", "diskFault", "mute", "unmanage"}
INVARIANTS ManagerOwnsPollers SnapshotIsCurrent PollersHaveAState
CONSTRAINT PoolOrRecords

SPECIFICATION FairSpec
CONSTANTS
  h1 = h1
  ip1 = ip1
  core = core
  NoSwitch = NoSwitch
  NoMonitor = NoMonitor
  NoHost = NoHost
  NoName = NoName
  Hosts = {h1}
  Names = {ip1, core}
  IpName <- OneIpName
  ManualPairs <- StablePairs
  ScanHosts = {h1}
  Operators = {o1}
  MaxSlots = 1
  Threshold = 2
  MaxFailures = 2
  Dedup = FALSE
  Events = {"unmanage"}
INVARIANTS TypeOK AlertsTellStatus
PROPERTIES DownNeedsConsecutiveFailures StatusFollowsReachability

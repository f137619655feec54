SPECIFICATION Spec
CONSTANTS
  h1 = h1
  ip1 = ip1
  core = core
  NoSwitch = NoSwitch
  NoMonitor = NoMonitor
  NoHost = NoHost
  NoName = NoName
  Hosts = {h1}
  Names = {ip1}
  IpName <- OneIpName
  ManualPairs <- NoPairs
  ScanHosts = {h1}
  Operators = {o1}
  MaxSlots = 1
  Threshold = 1
  MaxFailures = 1
  Dedup = FALSE
  Events = {"unmanage"}
PROPERTIES UnmanagedIsSilent

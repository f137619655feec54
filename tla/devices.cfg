SPECIFICATION AllSpec
CONSTANTS
  None = None
  scan = scan
  backup = backup
  arp = arp
  Tasks = {scan, backup, arp}
  Schedule <- Times
  DayLength = 80
  Wait = 4
  Tolerance = 4
  MaxDelay = 5
  Restarts = TRUE
  Switches = {one, two}
  PollTicks = 2
  Threshold = 3
  DedupWindows = {0, 9}
  BatchTicks = 4
  Clients = {one, two}
  NVersions = 2
  Slots = 3
  MaxLost = 4
  Senders = {one, two}
  Swept = {one, two}
  Policies = {"critical", "critical+linkdown"}
  Dedup = 2
  MaxRecent = 2
  AddsFail = TRUE
  Pushes = {one, two}
  Targets = {one, two}
  Vendors = {"cx", "ios"}
  Runs = {one, two}
  Ips = {i1}
  Versions = {"old", "10.13", "10.13.1"}
  Wanted = "10.13"
  Longer = {"10.13.1"}
  Sweepers = {one, two}
  MaxSweeps = 3
  NoSweeper = NoSweeper
  Names = {n1}
  Hosts = {one, two}
  MaxOctets = 2
  NoDoc = NoDoc
  NoPayload = NoPayload
  Devices = {sw1, sw2}
  Docs = {v1, v2}
  Runtimes = {r1, r2}
SYMMETRY Symmetry
CHECK_DEADLOCK FALSE
INVARIANTS AtMostOncePerDay OutageIsMailedInTime SessionsAreAccountedFor OkIsSaved UpdateIsSafe RowsOfOneSweep UtilIsCarried DocumentsAreRecent
PROPERTIES NoDayIsSkipped AlertsAreSpaced TrapsAreTold

SPECIFICATION AllSpec
CONSTANTS
  None = None
  NoPayload = NoPayload
  Torn = Torn
  NoFile = NoFile
  Payloads = {p1, p2, p3}
  Runs = {one, two}
  Configs = {a, b}
  Retentions = {0, 1, 2}
  MaxClock = 3
  Ips = {a, b}
  Scans = {one, two}
  GuardFrom = 2
  DropPct = 25
  Names = {a, b}
  Hosts = {h1, h2}
  Listed = {h2}
  Modes = {"auto", "icmp"}
  Operators = {one, two}
SYMMETRY Symmetry
CHECK_DEADLOCK FALSE
INVARIANTS BackupsCanBeRestored ChangesAreTold NewDevicesAreTold ManualHostsAreHonoured
PROPERTIES ImplementsStore CoverageDoesNotCollapse

SPECIFICATION SettingsSpec
CONSTANTS
  None = None
  Profiles = {"p1"}
  Smtp = "web"
  Credentials = "web"
  Cisco = "web"
  Arista = "web"
  Web = "web"
  Agent = "plain"
  Scan = "plain"
  SubnetHealth = "plain"
  Controllers = "plain"
  WebserverHealth = "plain"
  Backup = "plain"
  Firmware = "plain"
  Locations = {"arp.main"}
  Texts = {"s1"}
  Forms = {f1, f2}
  MaxBeside = 2
CHECK_DEADLOCK FALSE
INVARIANTS SomeBackendIsEnabled

SPECIFICATION Spec
CONSTANTS
  None = None
  Names = {admin, oper}
  Admin = admin
  Passwords = {pw}
  Default = default
  Browsers = {b1, b2}
  Enrolments = {e1}
  Keys = {k1}
  Ips = {i1, i2}
  Logins = {l1, l2}
  Attempts = {a1, a2}
  MaxFailures = 2
  Window = 2
  Tokens = {t1, t2}
  Scopes = {all, read}
  Profiles = {"p1"}
  Smtp = "web"
  Credentials = "web"
  Cisco = "web"
  Arista = "web"
  Web = "web"
  Agent = "plain"
  Scan = "plain"
  SubnetHealth = "plain"
  Controllers = "plain"
  WebserverHealth = "plain"
  Backup = "plain"
  Firmware = "plain"
  Locations = {"arp.main"}
  Texts = {"s1"}
  Forms = {f1, f2}
  MaxBeside = 3
SYMMETRY Symmetry
CHECK_DEADLOCK FALSE
INVARIANTS TypesOK RecoveryCodeAdmitsOnce DefaultPasswordIsGated SomeoneCanSignIn EnrolmentIsKept GuessesAreBounded TokensAreAsTold SecretsAreSafe

SPECIFICATION AllSpec
CONSTANTS
  d1 = d1
  d2 = d2
  r1 = r1
  t1 = t1
  t2 = t2
  t3 = t3
  NoTimer = NoTimer
  Alerts = {d1, d2, r1}
  Kinds = {"down", "restored"}
  KindOf <- KindOfAlert
  Timers = {t1, t2, t3}
  Flushers = {fl}
  Callers = {c1, c2}
  Windows = {TRUE, FALSE}
  NoState = NoState
  Rules = {r1}
  Switches = {s1}
  Duration = 3
  MaxGap = 2
  Events = {"toggle", "delete", "unmanage", "silence"}
  Firings = {f1, f2}
  Workers = {w1, w2}
  Devices = {d1, d2, d3}
  NGets = 2
  MaxCalls = 3
  a1 = a1
  a2 = a2
  b1 = b1
  far = far
  Distros <- TwoDistros
  Subnets = {"A", "B"}
  Clients = {a1, a2, b1, far}
  Home <- HomeOf
  Low = 1
  High = 1
CHECK_DEADLOCK FALSE
INVARIANTS NothingStranded SustainedIffTold SweepsAreOrderly ReportIsHonest
PROPERTIES ImplementsDelivery EventsGoOut AlertsFollowReadings SweepsEnd

SPECIFICATION Spec
CONSTANTS
  scan = scan
  backup = backup
  Tasks = {scan, backup}
  Schedule <- DefaultTimes
  DayLength = 80
  Wait = 4
  Tolerance = 4
  MaxDelay = 5
  Restarts = FALSE
PROPERTIES LateTicksSkipNothing

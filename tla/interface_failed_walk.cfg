SPECIFICATION PollSpec
CONSTANTS
  None = None
  Names = {n1}
  Hosts = {h1}
  MaxOctets = 2
INVARIANTS FailedWalkIsNoData

SPECIFICATION FairSpec
CONSTANTS
  None = None
  Proc = {p1, p2}
  Frames = 2
  MaxRuns = 1
  MaxCrashes = 1
INVARIANTS
  TypeOK
  SoleWriter
  DriverAccounted
  ResultHonest
PROPERTIES
  ExecutionsEnd
  Sessions
CHECK_DEADLOCK FALSE

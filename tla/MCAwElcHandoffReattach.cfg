SPECIFICATION Spec
CONSTANTS
  None = None
  Proc = {p1, p2}
  Frames = 1
  MaxRuns = 1
  MaxCrashes = 0
PROPERTY
  ReattachesOwnDetach
CHECK_DEADLOCK FALSE

SPECIFICATION Spec
CONSTANTS
  None = None
  User = {u1, u2}
  Helper = {}
  Color = {red, pink}
  Zones <- FewZones
  Readiness = 1
  MaxRuns = 1
  MaxKills = 0
INVARIANT
  StateIsLastSuccess
CHECK_DEADLOCK FALSE

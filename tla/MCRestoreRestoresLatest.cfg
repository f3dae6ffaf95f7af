SPECIFICATION Spec
CONSTANTS
  None = None
  User = {u1}
  Helper = {h1}
  Color = {red, pink}
  Zones <- FewZones
  Readiness = 1
  MaxRuns = 2
  MaxKills = 0
INVARIANT
  RestoresLatest
CHECK_DEADLOCK FALSE

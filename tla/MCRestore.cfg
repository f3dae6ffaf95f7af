SPECIFICATION FairSpec
CONSTANTS
  None = None
  User = {u1}
  Helper = {h1}
  Color = {red, pink}
  Zones <- FewZones
  Readiness = 2
  MaxRuns = 2
  MaxKills = 1
INVARIANTS
  TypeOK
  OnlyWholeColors
  LoneSetAllShows
  PowerProfileUnmixed
  StateIsLastUnlessRaced
PROPERTIES
  HelperEnds
  StagedWrites
CHECK_DEADLOCK FALSE

SPECIFICATION FairSpec
CONSTANTS
  Caller = {c1, c2}
  Steps <- ShortSteps
INVARIANTS
  TypeOK
  ControllersExclusive
  NoGuardLeaks
  ReportAgrees
  SavedOnlyWhole
PROPERTIES
  CallsReturn
  StagedWrites

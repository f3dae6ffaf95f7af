SPECIFICATION Spec
CONSTANTS
  Caller = {c1}
  Steps <- ShortSteps
INVARIANT
  CleanupKeepsProgress

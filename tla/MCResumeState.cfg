SPECIFICATION Spec
CONSTANTS
  Writer = {w1, w2}
  MaxRenames = 3
  MaxLosses = 1
INVARIANTS
  TypeOK
  NeverTorn
  DurableOnceAcked
  TempsAccounted
  ErrorsTell
  HelperReadsWhole
PROPERTY
  IsRegister
SYMMETRY
  Symmetry
CHECK_DEADLOCK FALSE

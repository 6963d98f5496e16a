CONSTANTS
  NProc = 3
  Rows = 2
  Cols = 3
  Setups <- AsDocumented
SPECIFICATION Spec
INVARIANTS
  RecordsWhole

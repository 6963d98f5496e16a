CONSTANTS
  NProc = 3
  Rows = 2
  Cols = 3
  Setups <- BothWays
SPECIFICATION FairSpec
INVARIANTS
  TypeOK
  RecordsWhole
  RecordsInOrder
  ReadsDistributed
  EachToItsCall
PROPERTIES
  EveryCallReturns

\* Rectangular and ragged nests, trimmed or not.
SPECIFICATION FairSpec
CONSTANTS
  Nests <- MCNests
  Nowhere <- MCNowhere
CHECK_DEADLOCK FALSE
INVARIANTS
  TypeOK
  RectangleBoundary
  TrimmedAsShifted
PROPERTIES
  EveryTraversalEnds

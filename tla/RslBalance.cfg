SPECIFICATION FairSpec
CONSTANTS
  Setups <- Calls
CHECK_DEADLOCK FALSE
INVARIANTS
  TypeOK
  PatchesAreRectangles
PROPERTIES
  SearchEnds

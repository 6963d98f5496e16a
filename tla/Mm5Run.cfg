SPECIFICATION Spec
CONSTANTS
  NProc = 2
  MaxNes = 3
  Namelists <- Several
  MaxStart = 3
  MaxLost = 1
INVARIANTS TypeOK AllInStep BoundaryInForce OutputsKept
PROPERTIES WayBack

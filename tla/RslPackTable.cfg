CONSTANTS
  Field   <- MCField
  Decomp  <- MCDecomp
  Base    <- MCBase
  Local   <- MCLocal
  Extent  <- MCExtent
  Message <- MCMessage
  Points  <- MCPoints
SPECIFICATION Spec
INVARIANTS
  TypeOK
  TransferExact

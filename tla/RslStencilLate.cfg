\* A domain that is only decomposed by its first exchange.
SPECIFICATION Spec
CONSTANTS
  Nobody = Nobody
  Undescribed = Undescribed
  Outside <- MCOutside
  DomainShape = "8pt"
  MaxSten = 2
  Redescribe = FALSE
  Decomposed0 <- Fails
  Decomps <- MCDecomps
  Proc <- MCProc
  Point <- MCPoint
  Trimmed <- MCTrimmed
  Shape <- MCShape
  Pts <- MCPts
  At <- MCAt
  Inv <- MCInv
  Field <- MCField
  Messages <- MCMessages
INVARIANTS
  OneNodePerProcessor

\* Three processors, a nest, two cuts of each domain, three operations.
SPECIFICATION FairSpec
CONSTANTS
  MaxCall = 3
  Proc <- MCProc
  Dom <- MCDom
  Nest <- MCNest
  Parent <- MCParent
  Point <- MCPoint
  Domain <- MCDomain
  Mother <- MCMother
  DefaultCut <- MCDefaultCut
  Operation <- MCOperation
INVARIANTS
  TypeOK
  TransferExact
  CompiledIsCurrent
PROPERTIES
  EveryCallReturns

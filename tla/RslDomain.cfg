\* The tree of domains, redecomposed once, and the runs of every processor.
CONSTANTS
  RSL_MAXDOMAINS = 3
  Mother <- MCMother
  Mesh <- MCMesh
  rsl_padarea = 2
  NestCalls <- MCNestCalls
  DefaultFcn = "mapping"
  CutCalls <- MCCutCalls
  Mapped <- MCMapped
  MaxCut = 1
  Found = {0, 1}
SPECIFICATION Spec
CHECK_DEADLOCK FALSE
INVARIANTS
  TypeOK
  TreeAgrees
  LoopsMeetTheirCells

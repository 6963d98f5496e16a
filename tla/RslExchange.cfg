\* Three processors, two stencils, three exchange calls each.
SPECIFICATION FairSpec
CONSTANTS
  MaxCall = 3
  Proc <- MCProc
  Cell <- MCCell
  Owner <- MCOwner
  Stencil <- MCStencil
  Prog <- MCProg
  Pack <- MCPack
  Unpack <- MCUnpack
INVARIANTS
  TypeOK
  GhostsCurrent
  WaitFindsItsReceive
  MessageFitsReceive
PROPERTIES
  HaloSpec
  EveryCallReturns

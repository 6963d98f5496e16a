\* A forecast of three times every cycle, overlapping in two.
CONSTANTS
  NCycle = 6
  Span = 2
  MaxFaults = 2
  NoFile = NoFile
SPECIFICATION Spec
INVARIANTS
  TypeOK
  InputsOfTheCycle
  WrongArchivesBounded

SPECIFICATION Spec
CONSTANTS
  Pipes <- TestPipes
  MaxBlocks = 2
  MaxPieces = 3
  MaxCalls = 2
  MaxUnlawful = 3
  MaxBuffered = 8
INVARIANTS
  TypeOK
  WellFormed
  Faithful
  StoredAsShown
  NoSilentEnd
  RefusalExact

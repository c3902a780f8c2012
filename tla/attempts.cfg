SPECIFICATION Spec
CONSTANTS
  Requests <- SomeRequests
  Plans <- SomePlans
  MaxPieces = 2
INVARIANTS
  TypeOK
  OneVoice
  VerdictJustified
PROPERTIES
  KeepsPromise
  HandlerReturns
  NothingLeaks

SPECIFICATION Spec
CONSTANTS
  Requests <- SomeRequests
  Plans <- SomePlans
  MaxPieces = 2
INVARIANT OneGeneration

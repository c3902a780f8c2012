SPECIFICATION FairSpec
CONSTANTS
  Ids = {r1}
  Handlers = {h1, h2}
  Persistent = TRUE
  StoreFaults = TRUE
INVARIANTS
  TypeOK
  OneDecider
  CancelledNeverFinal
  ContinuableOnlyIfFinal
  NoLeakedJob
PROPERTIES
  KeepsOutcome
  JobsDrain

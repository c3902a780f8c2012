SPECIFICATION Spec
CONSTANTS
  Ids = {r1}
  Handlers = {h1}
  Persistent = FALSE
  StoreFaults = FALSE
INVARIANT DeletedStaysDeleted

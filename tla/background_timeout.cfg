SPECIFICATION Spec
CONSTANTS
  Ids = {r1}
  Handlers = {}
  Persistent = FALSE
  StoreFaults = FALSE
INVARIANT TimeoutReported

SPECIFICATION Spec
CONSTANTS
  Turns = {t1, t2}
  Editors = {}
  Conversations = {c1}
  Nothing = nothing
  Anonymous = anonymous
  Metadata = {"short", "long"}
  ValidMetadata = {"short"}
  NoMetadata = none
  Persistent = FALSE
  StoreFaults = FALSE
INVARIANT TurnsKept

SPECIFICATION Spec
CONSTANTS
  Turns = {t1, t2}
  Editors = {e1, e2}
  Conversations = {c1}
  Nothing = nothing
  Anonymous = anonymous
  Metadata = {"short", "long"}
  ValidMetadata = {"short"}
  NoMetadata = none
  Persistent = TRUE
  StoreFaults = TRUE
SYMMETRY Symmetric
INVARIANTS
  TypeOK
  TranscriptsGenuine
  PromptsPortable
  AnswersStored
  SerialTurnsKept
PROPERTY ResponsesKept

SPECIFICATION Spec
CONSTANTS
  p1 = p1
  p2 = p2
  k1 = k1
  k2 = k2
  ProviderIDs = {p1, p2}
  Protocols = {"openai", "gemini"}
  Models = {m}
  BaseURLs = {"http", ""}
  ValidBaseURLs = {"http"}
  Keys = {k1, k2}
  NoKey = none
  Admins = {a1}
  Configured <- MCConfigured
  Environment <- MCEnvironment
  Routes <- MCRoutes
  StoreFaults = TRUE
INVARIANT KeyRolledBack

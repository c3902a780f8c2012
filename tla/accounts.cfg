SPECIFICATION Spec
CONSTANTS
  a1 = a1  a2 = a2  c1 = c1  c2 = c2  r1 = r1  r2 = r2  p1 = p1  p2 = p2
  Admins = {a1, a2}
  Providers = {p1, p2}
  Callbacks = {c1, c2}
  Callers = {r1, r2}
  SessionTTL = 3
  MaxSessions = 2
  StateTTL = 2
  MaxPending = 2
  Skew = 1
  Lifetimes <- MCLifetimes
  NoAdmin = NoAdmin
  NoCaller = NoCaller
  NoProvider = NoProvider
  Bounds <- MCBounds
SYMMETRY Symmetry
INVARIANTS TypeOK NoSpentRefresh TokensFromLogins YoungestKept

SPECIFICATION Spec
CONSTANTS
  Jobs = {j1, j2}
  Workers = {w1, w2}
  Clients = {c1, c2}
  Keys = {k1}
  Payloads = {p1}
  MaxAttempts = 2
  Crashable = {w1, w2}
  TimelyHeartbeats = FALSE
  ClaimBound = 2
  None = None
INVARIANTS OneJobPerKey RanOnceUnlessLost
PROPERTIES ImplementsLeasedWork
SYMMETRY Symmetry
CHECK_DEADLOCK FALSE

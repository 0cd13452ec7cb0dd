SPECIFICATION FairSpec
CONSTANTS
  Jobs = {j1, j2}
  Workers = {w1, w2}
  Clients = {c1}
  Keys = {k1}
  Payloads = {p1}
  MaxAttempts = 2
  Crashable = {w1}
  TimelyHeartbeats = TRUE
  ClaimBound = 1
  None = None
PROPERTIES Drained
CHECK_DEADLOCK FALSE

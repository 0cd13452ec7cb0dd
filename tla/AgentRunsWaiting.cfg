SPECIFICATION Spec
CONSTANTS
  r1 = r1
  r2 = r2
  w1 = w1
  w2 = w2
  w3 = w3
  q1 = q1
  q2 = q2
  q3 = q3
  owner1 = owner1
  reviewer1 = reviewer1
  reviewer2 = reviewer2
  Runs = {r1}
  Workers = {w1, w2}
  Requests = {q1, q2}
  Users = {owner1, reviewer1}
  RequesterOf <- MCRequesterOf
  MaxAttempts = 2
  Crashable = {}
  TimelyHeartbeats = TRUE
  ClaimBound = 2
  None = None
PROPERTY OnlyDecisionLeavesWaiting
SYMMETRY Symmetry
CHECK_DEADLOCK FALSE

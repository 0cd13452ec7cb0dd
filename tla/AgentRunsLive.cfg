SPECIFICATION FairSpec
CONSTANTS
  r1 = r1
  r2 = r2
  w1 = w1
  w2 = w2
  w3 = w3
  q1 = q1
  q2 = q2
  q3 = q3
  owner1 = owner1
  reviewer1 = reviewer1
  reviewer2 = reviewer2
  Runs = {r1, r2}
  Workers = {w1, w2}
  Requests = {q1}
  Users = {reviewer1}
  RequesterOf <- MCRequesterOf
  MaxAttempts = 2
  Crashable = {w1}
  TimelyHeartbeats = TRUE
  ClaimBound = 1
  None = None
PROPERTIES Progress
CHECK_DEADLOCK FALSE

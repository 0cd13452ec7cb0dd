CONSTANTS
  None = None
  Client = {c1, c2}
  f1 = f1
  f2 = f2
  u1 = u1
  u2 = u2
  s1 = s1
  Feed = {f1, f2}
  Uid = {u1, u2}
  Content <- MCContent
  MinimumTurnaround = 1
  HoldKind = {k1}
  Initial = {"ready_inactive"}
  Expiry = {0, 1}
  WarningWindow = {1}
  MaxHolds = 2
  MaxItems = 1
  MaxWarnings = 2
  Section = {s1}
  Begun <- MCBegun
  MaxRows = 4
  Terms = {t1, t2}
  Rule <- MCRule
  Revenue = {0, 300, 9999, 25001}
  PassThrough <- MCPassThrough
  MaxVersions = 3
  Movement <- MCMovement
  Counted = {0, 1}
  MaxCounts = 1
  MaxTime = 1
  MaxRequests <- MCMaxRequests
SPECIFICATION Spec
INVARIANTS
  StaysAreServed
  ConflictsSettled
  LifecycleOnRecord
  HeldOnceScanned
  StatusTellsChecklist
  AcceptedIsFixed
  QuoteIsExact
  StockIsThere
SYMMETRY Symmetry
CHECK_DEADLOCK FALSE

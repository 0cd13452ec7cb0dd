CONSTANTS
  None = None
  Client = {c1, c2}
  Person = {p1, p2}
  vendor = vendor
  curator = curator
  owner = owner
  s1 = s1
  Actor = {vendor, curator, owner}
  Begun <- MCBegun
  Sku = {s1}
  Stocked <- MCStocked
  MaxItems = 2
  MaxVersions = 3
  Key = {k1}
  Amount = {1, 2}
  RequestType = {"bank_change"}
  Kept = utc
  Written = {utc, offset}
  Kind = {"owner_monthly_report", "service_level_summary"}
  Edited = {"charges", "in progress"}
  MaxEdits = 1
  MaxObservations = 1
  MaxRows = 2
  MaxRequests <- MCMaxRequests
SPECIFICATION Spec
INVARIANTS
  WorkIsApproved
  CustodyIsTrue
  PackageIsReplaced
  LedgerMatches
  ApprovedUnderControls
  SnapshotsVerify
SYMMETRY Symmetry
CHECK_DEADLOCK FALSE

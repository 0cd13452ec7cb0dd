CONSTANTS
  None = None
  Client = {c1, c2}
  Person = {p1, p2}
  Window <- MCWindow
  Preference <- MCPreference
  Minute = {5, 8, 23}
  Day = 24
  MaxRetained = 2
  Tenant = {t1, t2}
  Property = {h1}
  Resource = {r1, r2}
  Initial = {"active", "inactive"}
  WorkType = {"general", "electrical"}
  Restricted = {"electrical"}
  Doc = {d1, d2}
  Hash = {x1, x2}
  Field <- MCField
  Key = {k1}
  MaxTime = 1
  MaxVersions = 2
  MaxRows = 2
  MaxRequests <- MCMaxRequests
SPECIFICATION Spec
INVARIANTS
  AccessIsControlled
  ContactIsAllowed
  RetainedIsNotErased
  OwnersSeeTheirs
  WorkersAsReviewed
  SubmittedAsReviewed
  DeliveredAsReviewed
SYMMETRY Symmetry
CHECK_DEADLOCK FALSE

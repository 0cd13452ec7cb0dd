CONSTANTS
  None = None
  w1 = w1
  w2 = w2
  Client = {c1, c2}
  Actor = {w1, w2}
  Worker = {w1, w2}
  Hash = {h1}
  SyncKey = {k1}
  MaxRequests = 4
  MaxTickets = 2
  MaxItems = 2
  MaxAssignments = 2
  Payload <- MCPayload
  Profile <- MCProfile
  StartTickets <- MCStartTickets
  StartItems <- MCStartItems
  StartWorkers <- MCStartWorkers
SPECIFICATION Spec
INVARIANTS
  EventsTellStatus
  ReopenedStaysTerminal
  UploadedIsRecorded
  OverrideOnRecord
PROPERTIES
  ReplaySyncsOnce
CHECK_DEADLOCK FALSE

SPECIFICATION FairSpec
CONSTANTS
  c1 = c1
  c2 = c2
  c3 = c3
  r1 = r1
  r2 = r2
  k1 = k1
  k2 = k2
  b1 = b1
  b2 = b2
  Calls = {c1, c2, c3}
  Relays = {r1, r2}
  KeyOf <- MCKeyOf
  Bodies = {b1, b2}
  BodiesOf <- MCBodiesOf
  MaxAttempts = 2
  RollbackBound = 1
  None = None
INVARIANTS AnswersAgree DeliveredOnce InOrder
PROPERTIES Settled ImplementsReliableEffects
CHECK_DEADLOCK FALSE

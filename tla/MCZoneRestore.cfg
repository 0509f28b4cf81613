CONSTANTS
  r1 = r1
  r2 = r2
  m1 = m1
  m2 = m2
  Requests = {r1, r2}
  Members = {m1, m2}
  Look = Look
  None = None
  MaxEvents = 1
SPECIFICATION MCSpec
INVARIANT RestoreIsWhole
CHECK_DEADLOCK FALSE

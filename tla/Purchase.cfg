SPECIFICATION Spec
CONSTANTS
  Rooms = {r1, r2}
  Orders = {o1, o2}
  Calls = {c1, c2}
  Visits = 2
  Failures = 1
  Ends = 1
  Expiries = 1
SYMMETRY Symmetry
INVARIANTS
  TypeOK
  ConfirmedIsPaid
  KeptUntilUsed
  UsedIsForgotten
CHECK_DEADLOCK FALSE

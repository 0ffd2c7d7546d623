SPECIFICATION Spec
CONSTANTS
  Rooms = {r1}
  Orders = {o1, o2}
  Calls = {c1, c2}
  Visits = 1
  Failures = 1
  Ends = 1
  Expiries = 0
PROPERTIES
  NoticedWhenQuiet
CHECK_DEADLOCK FALSE

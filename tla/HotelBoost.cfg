SPECIFICATION Spec
CONSTANTS
  TTL = 1
  MaxTime = 3
  MaxBoosts = 2
  Calls = {c1, c2}
  Failures = 0
  Visits = 2
  Restarts = 0
  Changes = 0
INVARIANT PageFollowsBoosts
CHECK_DEADLOCK FALSE

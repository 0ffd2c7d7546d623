SPECIFICATION Spec
CONSTANTS
  TTL = 2
  MaxTime = 5
  MaxBoosts = 2
  Calls = {c1, c2}
  Failures = 2
  Visits = 2
  Restarts = 1
  Changes = 1
INVARIANTS
  TypeOK
  LiveRoomIsKept
  NothingIsForgotten
PROPERTIES
  RemovedStaysRemoved
  GoneRoomsAreForgotten
CHECK_DEADLOCK FALSE

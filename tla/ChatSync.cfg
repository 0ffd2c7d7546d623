SPECIFICATION Spec
CONSTANTS
  MaxEid = 5
  MaxEvents = 2
  Buffer = 2
  Tasks = {t1, t2}
  JoinEid = 2
  Boosts = {3}
  Opens = 2
  Returns = 1
  Outages = 1
  Failures = 1
SYMMETRY Waiting
INVARIANTS
  TypeOK
  DisplayedOnce
  DisplayedIsSaved
  NoSilentHole
  FollowsLog
  MarkersAreTrue
  NothingAfterRemoval
CHECK_DEADLOCK FALSE

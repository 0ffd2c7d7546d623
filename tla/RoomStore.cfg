SPECIFICATION Spec
CONSTANTS
  Users = {creator, ann, bob}
  Creator = creator
  Req = {r1, r2}
  FreeTTL = 1
  FreeMaxP = 2
  FreeMaxE = 2
  BoostTTL = 1
  BoostMaxP = 3
  BoostMaxE = 3
  Instances = 1
  MaxTime = 2
  Limit <- AllOperations
  MaxOps = 3
SYMMETRY Slots
INVARIANTS
  TypeOK
  MessagesExpire
  KeysShareDeadline
  CapacityRespected
  EidsNotReused
  EmptyRoomIsDeleted
  NothingLeaks
PROPERTIES
  EarlyRemovalOnlyWhenEmpty
  KeepsPromise
CHECK_DEADLOCK FALSE

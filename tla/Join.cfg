SPECIFICATION Spec
CONSTANTS
  Tabs = {tab1, tab2}
  Calls = {call1, call2}
  Cap = 2
  Tier = 3
  Opens = 4
  Closes = 1
  Failures = 1
SYMMETRY Interchangeable
INVARIANTS
  TypeOK
  MembersAreKept
  ChatsAsMember
  SpinnersWait
PROPERTIES
  BoostMakesRoom
CHECK_DEADLOCK FALSE

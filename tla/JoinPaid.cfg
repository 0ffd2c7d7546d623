SPECIFICATION Spec
CONSTANTS
  Tabs = {tab1}
  Calls = {call1}
  Cap = 2
  Tier = 3
  Opens = 2
  Closes = 0
  Failures = 0
PROPERTIES
  PaidEntryResumes
CHECK_DEADLOCK FALSE

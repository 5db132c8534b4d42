SPECIFICATION FairSpec
CONSTANTS
  Drivers = {d1, d2}
  Faults = {"crash"}
PROPERTY WarnedClientExits
CHECK_DEADLOCK FALSE

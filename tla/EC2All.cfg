SPECIFICATION Spec
CONSTANTS
  Instances = {i1, i2}
  Keys = {k1, k2}
  UserKey = userKey
  Nothing = nothing
  FaultSets = {{"create", "cleanup", "rm", "lag", "save", "load", "console", "crash", "force", "spot"},
               {"create", "rm", "lag", "load", "console"}}
INVARIANTS UserKeyKept InstancesRecorded
PROPERTY RecordDroppedSafely
CHECK_DEADLOCK FALSE

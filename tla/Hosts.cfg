SPECIFICATION Spec
CHECK_DEADLOCK FALSE
CONSTANTS
  Platform <- runPower
  Fleets <- MCFleets
  Commands <- MCCommands
  MayBeEager <- KnownEager
  MayHang <- KnownHangs
  MaxPolls = 2
  MaxFaults = 2
INVARIANTS
  TypeOK
  OkMeansState
  RestartReboots
  AllOrNoneSaved
PROPERTY
  CommandEnds

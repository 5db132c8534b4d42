SPECIFICATION Spec
CHECK_DEADLOCK FALSE
CONSTANTS
  Releases <- MCReleases
  SSHClients <- Both
  MayStick <- WaitsFirst
  MayChoke <- NeedsFirst
  MaxCommands = 3
  MaxFaults = 1
INVARIANTS
  TypeOK
  OkMeansServed
  RetryConverges
PROPERTIES
  NoIdleOutage
  SameProvisioner

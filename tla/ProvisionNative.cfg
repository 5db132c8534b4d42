SPECIFICATION Spec
CHECK_DEADLOCK FALSE
CONSTANTS
  Releases <- MCReleases
  SSHClients <- Native
  MayStick <- WaitsFirst
  MayChoke <- NeedsFirst
  MaxCommands = 3
  MaxFaults = 1
INVARIANT
  CertsCopied

SPECIFICATION Spec
CHECK_DEADLOCK FALSE
CONSTANTS
  Procs = {p1, p2}
  MaxRuns = 3
  MaxFaults = 1
  MaxExpired = 2
SYMMETRY Swap
INVARIANTS
  PairsMatch
  BootstrapConverges
  ClientSigned
  ServerTrusted

SPECIFICATION Spec
CHECK_DEADLOCK FALSE
CONSTANTS
  Procs = {p1, p2}
  MaxRuns = 4
  MaxReleases = 3
  MaxFaults = 2
SYMMETRY Swap
INVARIANTS
  WholeImage
  CacheHeals

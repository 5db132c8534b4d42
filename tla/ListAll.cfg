SPECIFICATION LsFairSpec
CONSTANTS
  h1 = h1
  h2 = h2
  h3 = h3
  Hosts = {h1, h2, h3}
  Serial = {h1, h2}
  Hanging = {h2, h3}
  Rank <- InOrder
INVARIANTS OneSerialCall ClosedAfterAll EveryHostListed
PROPERTY EndsUnlessLockHeld
CHECK_DEADLOCK FALSE

SPECIFICATION HBSpec
CONSTANTS
  Interval = 5
  Timeout = 10
  Latency = 2
  Handshake = 2
INVARIANTS NoSpuriousExit ReapedInTime

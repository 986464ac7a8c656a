SPECIFICATION Spec
CONSTANTS
  MaxAttempts = 5
  Retransmit = 2
  StartPeriod = 15
  Interval = 60
  Grace = 10
  HardCap = 20
  ServerGrace = 10
  AckTimeout = 3
  KeepAlive = 3
  Delay = 1
  HeavyTraffic = TRUE
  MaxRekeys = 2
  MaxFaults = 5
INVARIANT KeysConverge

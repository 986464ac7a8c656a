SPECIFICATION WholeSpec
CONSTANTS
  w1 = w1
  w2 = w2
  Keyspaces = {k1, k2}
  WindowMs = 2
  Skew = 2
  Retry = 2
  Ttl = 12
  Capacity = 1
  Horizon = 18
  Workers = {w1, w2}
  Packets <- Sealed
  MaxKey = 3
  TagWindow = 8
  Stride = 2
  Lookahead = 64
  RecoveryRange = 32
INVARIANTS KeyspaceOpensOnce HandshakesSound AtMostOnce NothingLost
SYMMETRY Alike
CHECK_DEADLOCK FALSE

SPECIFICATION WholeSpec
CONSTANTS
  c1 = c1
  c2 = c2
  c3 = c3
  Ids = {s1, s2, s3}
  Clients = {c1, c2, c3}
  SourceIps = {i1, i2}
  VpnIps = {v1, v2, v3}
  MaxSessions = 3
  Reserve = 1
  PerIp = 2
  PerSubnet = 3
  None = None
  WordBits = 2
  Words = 3
  MaxCounter = 8
INVARIANTS OneOwner TableSound
PROPERTIES WindowsAgree
SYMMETRY Alike
CHECK_DEADLOCK FALSE

SPECIFICATION WholeSpec
CONSTANTS
  Addrs = {"p", "x"}
  Startup = {"p"}
  Clients = {"c1"}
  Workers = {"w1", "w2"}
  Modes = {"mgmt", "rest", "merge", "reload"}
  MaxChanges = 3
  Loggers = {l1, l2}
  MaxLogs = 4
  MaxFiles = 3
  Procs = {"daemon", "cli"}
  AutoAdd = {"daemon", "cli"}
  NodeIds = {"a"}
  Keys = {"k1", "k2"}
  MaxDamage = 1
  Paths = {"cfg", "mask"}
  Config = "cfg"
  Values = {"v1", "v2"}
  Absent = "absent"
  Requests = {"r1", "r2"}
  Timeout = 1
  MaxTime = 2
  MaxTokens = 2
INVARIANTS NeverJams AuditIntact  ExitsSound 
PROPERTIES TrustKept
CHECK_DEADLOCK FALSE

SPECIFICATION WholeSpec
CONSTANTS
  Nodes = {"n1", "n2", "n3"}
  Ids = {1}
  Sessions <- Dialed
  Buckets = {0, 1}
  BucketOf <- OneBucket
  Vals = {0, 1}
  Ahead <- MiddleAhead
  TTL = 1
  MaxClock = 3
  MaxEdits = 2
  LastEdit = 3
  MaxNet = 1
  MaxLoss = 1
  StaleBeacons = 1
  Procs = {"daemon", "cli"}
  Daemon = "daemon"
  Writers = {"adm", "cmd"}
  Host <- HostOf
  MaxBytes = 1
  Ties = TRUE
  MaxMtime = 1
  Failures = TRUE
  Pool = FALSE
INVARIANTS RevocationFinal 
PROPERTIES WinnerKeepsAddress FileSerial
CHECK_DEADLOCK FALSE

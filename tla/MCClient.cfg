SPECIFICATION WholeSpec
CONSTANTS
  Half = 2
  SearchUnsynced = 4
  SearchSynced = 2
  Recovery = 2
  MaxCounter = 9
  Sessions = {"s1", "s2"}
  Stops = {"k1", "k2"}
  Gets = {"g"}
  Mutations = {"m"}
  Diagnostics = {}
  Slots = 2
  Timeout = 3
  MaxEpoch = 1
  MaxLosses = 1
  MaxBusy = 1
  MaxFull = 1
INVARIANTS WindowFaithful CallsSound
PROPERTIES ImplementsSlidingWindow SealHolds DescriptorsOwned
CHECK_DEADLOCK FALSE

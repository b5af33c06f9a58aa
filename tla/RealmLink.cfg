SPECIFICATION LinkFairSpec
CONSTANTS
  N = 2
  MaxFaults = 2
INVARIANTS StaleNeverHides OfflineWithConnection
PROPERTIES Recovers
CHECK_DEADLOCK FALSE

SPECIFICATION LifecycleSpec
CONSTANTS
  Calls = {1}
  MaxRequests = 4
  MaxEdits = 2
  MaxBoots = 0
  Versions = {1, 2}
  HotReload = TRUE
  WorkerFaults = {"store"}
INVARIANT RecordedIsMigrated
CHECK_DEADLOCK FALSE

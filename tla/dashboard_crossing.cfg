SPECIFICATION DashboardSpec
CONSTANTS
  Slices = {s1, s2}
  Feeders = {}
  Fetches = {f1, f2, f3}
  MaxChanges = 2
  WebFaults = {}
PROPERTY NoOlderFull
CHECK_DEADLOCK FALSE

SPECIFICATION MCSpec
CONSTANTS
  backend = backend
  task = task
  a = a
  b = b
  c = c
  x = x
  r1 = r1
  r2 = r2
  w1 = w1
  w2 = w2
  s1 = s1
  s2 = s2
  f1 = f1
  f2 = f2
  f3 = f3
  Readers = {r1, r2}
  Writers = {w1, w2}
  Nobody = Nobody
  Processes <- MCProcesses
  Callers <- MCCallers
  ProcOf <- MCProcOf
  Backends <- MCBackends
  Started = {}
  Faults = {"crash", "io"}
  BusFaults = {"save", "answer"}
  Items = {x}
  OpsOf <- MCOpsOf
  Stored = {x}
  ApprovalRequired = TRUE
  MaxAttempts = 1
  MaxCrashes = 3
  RestoreFaults = {"crash", "kill", "io", "rot"}
  Slices = {s1, s2}
  Feeders = {s1}
  Fetches = {f1, f2, f3}
  MaxChanges = 1
  WebFaults = {"fetch", "stream", "hide"}
INVARIANTS
  Exclusive
  CacheFresh
  DatabaseIntact
  OutgoingSafe
  QuietIsCurrent
PROPERTIES
  NoLostUpdate
  PostsAreDue
  EveryCallEnds
  RestoreSettled
CHECK_DEADLOCK FALSE

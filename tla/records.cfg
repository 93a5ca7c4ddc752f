SPECIFICATION MCSpec
CONSTANTS
  h1 = h1
  h2 = h2
  Handlers <- TwoHandlers
  Slots = {1, 2, 5, 6, 15}
  Horizon = 10
  Lookback = 3
  Base = 1
  MaxWindow = 4
  Retention = 6
  Patience = 2
  Recovery = {"on", "off"}
  Faults = {"crash"}
  j1 = j1
  j2 = j2
  Jobs <- TwoJobs
  Retained = 2
  MaxTime = 3
  MaxCalls = 2
  LedgerFaults = {"crash", "io"}
  read = read
  write = write
  write2 = write2
  noop = noop
  shell = shell
  Requests <- MCRequests
  Kind <- MCKind
  WorkerOf <- MCWorkerOf
  Restricted <- MCRestricted
  Grants <- MCGrants
  ActionFaults = {"io", "spawn", "store", "crash"}
  x1 = x1
  x2 = x2
  Calls <- TwoCalls
  MaxRequests = 3
  MaxEdits = 2
  MaxBoots = 1
  Versions = {1, 2}
  HotReload = TRUE
  WorkerFaults = {"store"}
  d1 = d1
  d2 = d2
  p = p
  q = q
  s = s
  Digests <- TwoDigests
  Articles <- MCArticles
  TitleOf <- MCTitleOf
  NewsFaults = {"rows", "seen", "crash"}
  m1 = m1
  m2 = m2
  t1 = t1
  t2 = t2
  Turns <- TwoTurns
  Threads <- TwoThreads
  Window = 1
  ChatFaults = {"save", "model", "crash"}
INVARIANTS
  NeverRunTwice
  NoSlotDropped
  StaysDismissed
  RunningIsLive
  NeverUnapproved
  RecordsTrue
  DisabledIsUnloaded
  FiledOnce
  NothingStranded
  TurnsAreWhole
PROPERTIES
  BootRecovers
  MissKept
  ReloadsAreFresh
CHECK_DEADLOCK FALSE

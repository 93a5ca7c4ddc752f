SPECIFICATION LockSpec
CONSTANTS
  p1 = p1
  p2 = p2
  p3 = p3
  NoPid = NoPid
  Pids <- PairPids
  MaxRestores = 1
INVARIANT OneOwner

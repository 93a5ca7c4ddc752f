SPECIFICATION RuntimeOnlySpec
CONSTANTS
  r1 = r1
  r2 = r2
  r3 = r3
  r4 = r4
  r5 = r5
  wa = wa
  wb = wb
  wc = wc
  j1 = j1
  j2 = j2
  pin = pin
  unpin = unpin
  m = m
  n = n
  None = None
  p1 = p1
  p2 = p2
  p3 = p3
  NoPid = NoPid
  Pids <- MCPids
  MaxRestores = 1
  Runs <- MCRuns
  Workers <- MCWorkers
  WorkerOf <- MCWorkerOf
  Limits = {1, 2, 3}
  Models <- MCModels
  ModelRuns <- MCModelRuns
  CandidatesOf <- MCCandidatesOf
  Pins <- OnePin
  PinOf <- MCPinOf
  RuntimeFaults = {}
INVARIANT PinSticky

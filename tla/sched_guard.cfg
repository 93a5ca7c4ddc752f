SPECIFICATION SchedSpec
CONSTANTS
  a1 = a1
  a2 = a2
  b1 = b1
  c1 = c1
  Runs <- MCRuns
  Jobs <- MCJobs
  JobOf <- MCJobOf
  WorkerOf <- MCWorkerOf
  Workers <- MCWorkers
  Triggers = {"manual", "event"}
  Faults = {"missed", "deadline", "store"}
  Limits = {1, 2}
  MaxAttempts = 2
  MaxOrphans = 1
INVARIANTS
  NeverTwice
  NothingLeaked

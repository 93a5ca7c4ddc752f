SPECIFICATION SchedSpec
CONSTANTS
  a1 = a1
  a2 = a2
  b1 = b1
  c1 = c1
  Runs <- SiblingRuns
  Jobs <- SiblingJobs
  JobOf <- SiblingJobOf
  WorkerOf <- SiblingWorkerOf
  Workers <- MCWorkers
  Triggers = {"manual", "schedule"}
  Faults = {"deadline"}
  Limits = {1}
  MaxAttempts = 1
  MaxOrphans = 1
INVARIANT NeverTwice

----------------------------- MODULE MCScheduler -----------------------------
(* Instances of Scheduler for TLC: two triggers of one job, so that they    *)
(* race, one of a sibling job of the same worker, one of a job of another   *)
(* worker.                                                                  *)
EXTENDS Scheduler

CONSTANTS a1, a2, b1, c1

MCRuns == {a1, a2, b1, c1}
MCJobs == {"jobA", "jobB", "jobC"}
MCWorkers == {"w1", "w2"}
MCJobOf == [r \in MCRuns |->
              IF r \in {a1, a2} THEN "jobA" ELSE IF r = b1 THEN "jobB" ELSE "jobC"]
MCWorkerOf == [r \in MCRuns |-> IF r = c1 THEN "w2" ELSE "w1"]

\* Without the job of the other worker.
SiblingRuns == {a1, a2, b1}
SiblingJobs == {"jobA", "jobB"}
SiblingJobOf == [r \in SiblingRuns |-> IF r = b1 THEN "jobB" ELSE "jobA"]
SiblingWorkerOf == [r \in SiblingRuns |-> "w1"]
=============================================================================

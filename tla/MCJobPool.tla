------------------------------ MODULE MCJobPool ------------------------------
(* The job pool with five calls, three of one worker and one of each of two *)
(* others, so that a worker's queue, a queue for slots and a third arrival  *)
(* during a hand-off all occur; the local runtime with two runs, two models *)
(* and two pin calls; and the runtime lock with three pids, that of a dead  *)
(* owner and two that take over from it.  The three have no variable in     *)
(* common: part says which of them TLC explores, not their product.         *)
EXTENDS JobPool, LocalRuntime, RuntimeLock, TLC

CONSTANTS r1, r2, r3, r4, r5, wa, wb, wc, j1, j2, pin, unpin, m, n, p1, p2, p3

MCRuns == {r1, r2, r3, r4, r5}
MCWorkers == {wa, wb, wc}
MCWorkerOf == [r \in MCRuns |->
                 IF r \in {r1, r2, r3} THEN wa ELSE IF r = r4 THEN wb ELSE wc]

MCModels == {m, n}
MCModelRuns == {j1, j2}
MCCandidatesOf == (j1 :> <<m, n>> @@ j2 :> <<n>>)
MCPins == {pin, unpin}
MCPinOf == [p \in Pins |-> IF p = pin THEN m ELSE None]
OnePin == {pin}

MCPids == {p1, p2, p3}

VARIABLE part  \* "pool", "runtime" or "lock"

MCVars == <<poolVars, runtimeVars, lockVars, part>>

MCInit ==
  /\ PoolInit /\ RuntimeInit /\ LockInit
  /\ \/ part = "pool" /\ server
     \/ part = "runtime" /\ limit = 1
     \/ part = "lock" /\ limit = 1 /\ server

MCNext ==
  \/ part = "pool" /\ PoolNext /\ UNCHANGED <<runtimeVars, lockVars, part>>
  \/ part = "runtime" /\ RuntimeNext /\ UNCHANGED <<poolVars, lockVars, part>>
  \/ part = "lock" /\ LockNext /\ UNCHANGED <<poolVars, runtimeVars, part>>

MCSpec ==
  MCInit /\ [][MCNext]_MCVars /\ PoolFairness /\ RuntimeFairness /\ LockFairness

RuntimeOnlySpec == MCInit /\ part = "runtime" /\ [][MCNext]_MCVars
=============================================================================

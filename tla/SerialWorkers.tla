---------------------------- MODULE SerialWorkers ----------------------------
(***************************************************************************)
(* What the job execution pool of BFrost promises, without its queues:     *)
(* runs of one worker are served one at a time in the order they were      *)
(* asked for, runs of different workers side by side, and no run is        *)
(* started while as many as the limit in force are executing.              *)
(***************************************************************************)
EXTENDS Naturals, Sequences, FiniteSets

CONSTANTS
  Runs,       \* the job runs handed to the pool
  Workers,    \* the workers that own the jobs
  WorkerOf,   \* the worker of each run
  Limits      \* the values the concurrency limit may take

VARIABLES
  line,       \* per worker, the runs being served, the one in service first
  executing,  \* the runs whose work is in progress
  limit       \* how many runs may execute at once

absVars == <<line, executing, limit>>

InLine(r) == \E i \in 1..Len(line[WorkerOf[r]]) : line[WorkerOf[r]][i] = r

AbsInit ==
  /\ line = [w \in Workers |-> <<>>]
  /\ executing = {}
  /\ limit \in Limits

(* A run joins the end of its worker's line. *)
Arrive(r) ==
  /\ ~InLine(r)
  /\ line' = [line EXCEPT ![WorkerOf[r]] = Append(@, r)]
  /\ UNCHANGED <<executing, limit>>

(* The first of a line starts, if the limit leaves room for it. *)
Start(r) ==
  /\ line[WorkerOf[r]] # <<>> /\ r = Head(line[WorkerOf[r]])
  /\ r \notin executing
  /\ Cardinality(executing) < limit
  /\ executing' = executing \union {r}
  /\ UNCHANGED <<line, limit>>

(* A run ends and leaves its line; the room it leaves may be given, in the  *)
(* same step, to another worker's first run.                                *)
Leave(r) ==
  /\ r \in executing
  /\ line[WorkerOf[r]] # <<>> /\ r = Head(line[WorkerOf[r]])
  /\ line' = [line EXCEPT ![WorkerOf[r]] = Tail(@)]
  /\ \/ executing' = executing \ {r}
     \/ \E s \in Runs \ executing :
          /\ line[WorkerOf[s]] # <<>> /\ s = Head(line[WorkerOf[s]])
          /\ Cardinality(executing \ {r}) < limit
          /\ executing' = (executing \ {r}) \union {s}
  /\ UNCHANGED limit

Reconfigure(n) ==
  /\ limit' = n
  /\ UNCHANGED <<line, executing>>

AbsNext ==
  \/ \E r \in Runs : Arrive(r) \/ Start(r) \/ Leave(r)
  \/ \E n \in Limits : Reconfigure(n)

AbsSpec == AbsInit /\ [][AbsNext]_absVars
=============================================================================

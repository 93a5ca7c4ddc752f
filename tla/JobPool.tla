------------------------------- MODULE JobPool -------------------------------
(***************************************************************************)
(* The bounded execution pool of the BFrost scheduler: enqueueJobExecution *)
(* takes the lock of the job's worker, then one of the pool's slots, runs  *)
(* the work and gives both back.  Every caller is an async function, so a  *)
(* step below is what runs between two awaits.  A grant resumes its caller *)
(* in a later step, and any other caller may run in between.               *)
(***************************************************************************)
EXTENDS Integers, Sequences, FiniteSets

CONSTANTS
  Runs,       \* calls of enqueueJobExecution
  Workers,    \* worker ids
  WorkerOf,   \* the worker whose job a call runs
  Limits      \* the values config.jobMaxConcurrency may take

ASSUME RunsAssumption == IsFiniteSet(Runs)
ASSUME WorkerOfAssumption == WorkerOf \in [Runs -> Workers]
\* Math.max(1, Math.floor(..)): the effective limit is never below one.
ASSUME LimitsAssumption == Limits # {} /\ Limits \subseteq Nat \ {0}

VARIABLES
  pc,                 \* how far each call got
  busyWorkers,        \* workers whose lock is taken
  workerLockWaiters,  \* per worker, the calls queued for its lock
  activeJobCount,     \* slots taken
  jobSlotWaiters,     \* the calls queued for a slot
  limit               \* the effective concurrency limit

poolVars == <<pc, busyWorkers, workerLockWaiters, activeJobCount,
              jobSlotWaiters, limit>>

Phases == {"out",     \* not in the pool
           "worker",  \* queued for the worker lock
           "locked",  \* granted the worker lock, about to ask for a slot
           "slot",    \* holds the worker lock, queued for a slot
           "work"}    \* holds both and runs the work

PoolInit ==
  /\ pc = [r \in Runs |-> "out"]
  /\ busyWorkers = {}
  /\ workerLockWaiters = [w \in Workers |-> <<>>]
  /\ activeJobCount = 0
  /\ jobSlotWaiters = <<>>
  /\ limit \in Limits

-----------------------------------------------------------------------------
(* Faulty variants of the steps below, none of them part of the             *)
(* specification: each is a bug the code could have, and shows what one of  *)
(* the properties is there to catch.                                        *)

\* unshift instead of push: the latest caller overtakes the queue
Bug_AcquireWorkerLockLIFO(r) ==
  LET w == WorkerOf[r] IN
  \/ /\ w \notin busyWorkers
     /\ busyWorkers' = busyWorkers \union {w}
     /\ pc' = [pc EXCEPT ![r] = "locked"]
     /\ UNCHANGED workerLockWaiters
  \/ /\ w \in busyWorkers
     /\ workerLockWaiters' = [workerLockWaiters EXCEPT ![w] = <<r>> \o @]
     /\ pc' = [pc EXCEPT ![r] = "worker"]
     /\ UNCHANGED busyWorkers

\* the worker lock is not looked at
Bug_AcquireWorkerLockMissing(r) ==
  /\ pc' = [pc EXCEPT ![r] = "locked"]
  /\ UNCHANGED <<busyWorkers, workerLockWaiters>>

\* the mark is kept although nobody waits
Bug_ReleaseWorkerLockKeeps(w) ==
  /\ UNCHANGED busyWorkers
  /\ workerLockWaiters' =
       [workerLockWaiters EXCEPT ![w] = IF @ = <<>> THEN @ ELSE Tail(@)]

-----------------------------------------------------------------------------
(* acquireWorkerLock: take the lock if it is free, else queue for it.       *)
AcquireWorkerLock(r) ==
  LET w == WorkerOf[r] IN
  \/ /\ w \notin busyWorkers
     /\ busyWorkers' = busyWorkers \union {w}
     /\ pc' = [pc EXCEPT ![r] = "locked"]
     /\ UNCHANGED workerLockWaiters
  \/ /\ w \in busyWorkers
     /\ workerLockWaiters' = [workerLockWaiters EXCEPT ![w] = Append(@, r)]
     /\ pc' = [pc EXCEPT ![r] = "worker"]
     /\ UNCHANGED busyWorkers

(* A call of enqueueJobExecution begins. *)
Enqueue(r) ==
  /\ pc[r] = "out"
  /\ AcquireWorkerLock(r)
  /\ UNCHANGED <<activeJobCount, jobSlotWaiters, limit>>

(* acquireJobSlot: take a slot if one is free, else queue for it.           *)
AcquireJobSlot(r) ==
  /\ pc[r] = "locked"
  /\ \/ /\ activeJobCount < limit
        /\ activeJobCount' = activeJobCount + 1
        /\ pc' = [pc EXCEPT ![r] = "work"]
        /\ UNCHANGED jobSlotWaiters
     \/ /\ activeJobCount >= limit
        /\ jobSlotWaiters' = Append(jobSlotWaiters, r)
        /\ pc' = [pc EXCEPT ![r] = "slot"]
        /\ UNCHANGED activeJobCount
  /\ UNCHANGED <<busyWorkers, workerLockWaiters, limit>>

-----------------------------------------------------------------------------
(* The slots still taken once the caller has given its own back.            *)
ActiveAfterRelease == IF activeJobCount > 0 THEN activeJobCount - 1 ELSE 0

(* releaseJobSlot re-reads the limit and wakes the first waiter only when   *)
(* the pool is below it.                                                    *)
SlotHeirs ==
  {s \in Runs : /\ jobSlotWaiters # <<>>
                /\ s = Head(jobSlotWaiters)
                /\ ActiveAfterRelease < limit}

ReleaseJobSlot ==
  IF SlotHeirs # {}
  THEN /\ activeJobCount' = ActiveAfterRelease + 1
       /\ jobSlotWaiters' = Tail(jobSlotWaiters)
  ELSE /\ activeJobCount' = ActiveAfterRelease
       /\ UNCHANGED jobSlotWaiters

(* releaseWorkerLock hands the lock to the first waiter without clearing it.*)
LockHeirs(w) ==
  {s \in Runs : workerLockWaiters[w] # <<>> /\ s = Head(workerLockWaiters[w])}

ReleaseWorkerLock(w) ==
  IF workerLockWaiters[w] # <<>>
  THEN /\ workerLockWaiters' = [workerLockWaiters EXCEPT ![w] = Tail(@)]
       /\ UNCHANGED busyWorkers
  ELSE /\ busyWorkers' = busyWorkers \ {w}
       /\ UNCHANGED workerLockWaiters

(* The work has settled, either way: the slot and the lock are given back   *)
(* in one step, there is no await between them.                             *)
Finish(r) ==
  /\ pc[r] = "work"
  /\ ReleaseJobSlot
  /\ ReleaseWorkerLock(WorkerOf[r])
  /\ pc' = [s \in Runs |->
              IF s = r THEN "out"
              ELSE IF s \in LockHeirs(WorkerOf[r]) THEN "locked"
              ELSE IF s \in SlotHeirs THEN "work"
              ELSE pc[s]]
  /\ UNCHANGED limit

(* config.jobMaxConcurrency is a mutable field that is read on every        *)
(* acquire and release.                                                     *)
SetLimit(n) ==
  /\ limit' = n
  /\ UNCHANGED <<pc, busyWorkers, workerLockWaiters, activeJobCount,
                 jobSlotWaiters>>

-----------------------------------------------------------------------------
PoolNext ==
  \/ \E r \in Runs : Enqueue(r) \/ AcquireJobSlot(r) \/ Finish(r)
  \/ \E n \in Limits \ {limit} : SetLimit(n)

(* An await whose promise is resolved resumes, and the work of a run ends:  *)
(* its attempts are bounded in number and each of them by a deadline.       *)
PoolFairness ==
  \A r \in Runs : WF_poolVars(AcquireJobSlot(r)) /\ WF_poolVars(Finish(r))

PoolSpec == PoolInit /\ [][PoolNext]_poolVars
FairPoolSpec == PoolSpec /\ PoolFairness

-----------------------------------------------------------------------------
HoldsLock(r) == pc[r] \in {"locked", "slot", "work"}
Working == {r \in Runs : pc[r] = "work"}

(* A queue names each of its members once. *)
Distinct(q) == \A i, j \in 1..Len(q) : q[i] = q[j] => i = j
Listed(q) == {q[i] : i \in 1..Len(q)}

(* Every variable has its type; the calls wait where the queues say.        *)
TypeOK ==
  /\ pc \in [Runs -> Phases]
  /\ busyWorkers \subseteq Workers
  /\ workerLockWaiters \in [Workers -> Seq(Runs)]
  /\ activeJobCount \in Nat
  /\ jobSlotWaiters \in Seq(Runs)
  /\ limit \in Limits

(* "Serial within a worker": between acquireWorkerLock and                  *)
(* releaseWorkerLock there is never a second call of the same worker.       *)
SerialWithinWorker ==
  \A r, s \in Runs :
    HoldsLock(r) /\ HoldsLock(s) /\ WorkerOf[r] = WorkerOf[s] => r = s

(* A worker is marked busy exactly while one of its calls holds the lock:   *)
(* the mark never outlives the holder, so the lock is never lost.           *)
BusyHasHolder ==
  \A w \in Workers :
    w \in busyWorkers <=> \E r \in Runs : WorkerOf[r] = w /\ HoldsLock(r)

(* The queues hold the calls that wait, each once and in its worker's       *)
(* queue: no resolver is dropped or kept after its call has moved on.       *)
QueuesExact ==
  /\ \A w \in Workers :
       /\ Distinct(workerLockWaiters[w])
       /\ Listed(workerLockWaiters[w]) =
            {r \in Runs : pc[r] = "worker" /\ WorkerOf[r] = w}
  /\ Distinct(jobSlotWaiters)
  /\ Listed(jobSlotWaiters) = {r \in Runs : pc[r] = "slot"}

(* activeJobCount counts the calls that run their work: a slot is neither   *)
(* leaked nor given back twice, and Math.max(0, ..) never bites.            *)
SlotsAccounted == activeJobCount = Cardinality(Working)

(* A queued call always has another one ahead of it whose release will look *)
(* at the queue: a running call for a slot, also after the limit was        *)
(* changed, and a holder for a worker lock.                                 *)
NoStall ==
  /\ jobSlotWaiters # <<>> => activeJobCount > 0
  /\ \A w \in Workers : workerLockWaiters[w] # <<>> => w \in busyWorkers

(* The pool's own books, in activeJobCount, busyWorkers and the two queues, *)
(* agree with what its calls are doing, and nobody is forgotten in them.    *)
PoolAccounted == TypeOK /\ BusyHasHolder /\ QueuesExact /\ SlotsAccounted /\ NoStall

(* No step admits a run above the limit in force: the limit may be lowered  *)
(* under the running ones, but it is never exceeded by a new one.           *)
AdmitsWithinLimit ==
  [][Working' \subseteq Working
     \/ Cardinality(Working') <= limit]_poolVars

(* Once the limit is left alone, every call that asked for the pool gets to *)
(* run its work, whatever state the changes of the limit left behind.       *)
EveryRunStarts ==
  <>[][limit' = limit]_limit =>
    \A r \in Runs : (pc[r] \in {"worker", "locked", "slot"}) ~> (pc[r] = "work")

(* The pool implements SerialWorkers.  The holder of a lock is the head of  *)
(* its worker's line, the queue behind it is the rest of the line.          *)
Holder(w) == CHOOSE r \in Runs : WorkerOf[r] = w /\ HoldsLock(r)
LineOf(w) == IF w \in busyWorkers THEN <<Holder(w)>> \o workerLockWaiters[w]
             ELSE <<>>

Abs == INSTANCE SerialWorkers
         WITH line <- [w \in Workers |-> LineOf(w)], executing <- Working

(* Admission is first come first served within a worker and bounded over    *)
(* all workers, whatever the interleaving of grants and releases.           *)
ImplementsSerialWorkers == Abs!AbsSpec
=============================================================================

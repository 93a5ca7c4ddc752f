--------------------------- MODULE SchedulerProofs ---------------------------
(***************************************************************************)
(* Proofs about Scheduler, for any number of triggers, jobs and workers.   *)
(* A trigger that records a slot over a run in flight clears its running   *)
(* flag, and a write that fails leaves one behind; the results about the   *)
(* flags are stated for a desk where that does not happen (FlagsKept,      *)
(* FlagsTrusted).                                                          *)
(***************************************************************************)
EXTENDS Scheduler, JobPoolProofs

(* The attempts of a run never outnumber what its retry policy allows.      *)
AttemptBounds ==
  \A r \in Runs :
    /\ stage[r] \notin {"handler", "backoff"} => attempt[r] = 0
    /\ stage[r] = "backoff" => attempt[r] < MaxAttempts

SchedTypeInv == SchedTypeOK /\ AttemptBounds

LEMMA SchedInitType == SchedInit => SchedTypeInv
  BY BoundsAssumption, JobsAssumption, SMT
  DEF SchedInit, SchedTypeInv, SchedTypeOK, AttemptBounds, Stages

CacheType == [Jobs -> [queued : BOOLEAN, running : BOOLEAN]]

(* Writing the running flag of a job leaves the flags well typed.           *)
LEMMA FlagSetTyped ==
  ASSUME cache \in CacheType, NEW j \in Jobs, NEW b \in BOOLEAN
  PROVE  [cache EXCEPT ![j].running = b] \in CacheType
<1> USE DEF CacheType
<1>1. [cache[j] EXCEPT !.running = b] \in [queued : BOOLEAN, running : BOOLEAN]
  BY Zenon
<1> QED BY <1>1, Zenon

LEMMA SchedNextType ==
  ASSUME SchedTypeInv, [SchedNext]_schedVars
  PROVE  SchedTypeInv'
<1> USE BoundsAssumption, JobsAssumption
    DEF SchedTypeInv, SchedTypeOK, AttemptBounds, Stages, Goto, Decide, Claim, Forget,
        LastAttempt
<1>1. ASSUME NEW r \in Runs, Progress(r) PROVE SchedTypeInv'
  <2>1. CASE Coalesce(r) \/ Refuse(r)
    <3>1. /\ stage' = [stage EXCEPT ![r] = "idle"] /\ trigger' = [trigger EXCEPT ![r] = "none"]
          /\ UNCHANGED <<attempt, cache, abandoned, orphans>> /\ stage[r] = "check"
      BY <2>1 DEF Coalesce, RecordOverlap, Refuse
    <3> QED BY <3>1, SMT
  <2>2. CASE ClaimManual(r) BY <2>2, SMT DEF ClaimManual
  <2>3. CASE AskHasWork(r) BY <2>3, SMT DEF AskHasWork
  <2>4. CASE ClaimAfterHasWork(r) BY <2>4, SMT DEF ClaimAfterHasWork
  <2>5. CASE CoalesceAfterHasWork(r) BY <2>5, SMT DEF CoalesceAfterHasWork, RecordOverlap
  <2>6. CASE HasNoWork(r) BY <2>6, SMT DEF HasNoWork, NoWorkFlags
  <2>7. CASE EnterPool(r) BY <2>7, SMT DEF EnterPool
  <2>8. CASE MarkFails(r) BY <2>8, SMT DEF MarkFails
  <2>9. CASE TakeSlot(r) BY <2>9, SMT DEF TakeSlot, runVars
  <2>10. CASE Execute(r) BY <2>10, SMT DEF Execute
  <2>11. CASE ExecuteFails(r) BY <2>11, SMT DEF ExecuteFails
  <2>12. CASE BeginAttempt(r) BY <2>12, SMT DEF BeginAttempt
  <2>13. CASE HandlerSettles(r)
    <3>1. CASE LastAttempt(r)
      BY <2>13, <3>1, SMT DEF HandlerSettles
    <3>2. CASE attempt[r] < MaxAttempts /\ Goto(r, "backoff") /\ UNCHANGED attempt
      BY <2>13, <3>2, SMT DEF HandlerSettles
    <3> QED BY <2>13, <3>1, <3>2 DEF HandlerSettles
  <2>14. CASE HandlerTimesOut(r) BY <2>14, SMT DEF HandlerTimesOut
  <2>15. CASE RecordOutcome(r)
    <3>1. JobOf[r] \in Jobs
      BY JobsAssumption
    <3>2. cache' \in CacheType
      BY <2>15, <3>1, FlagSetTyped, Zenon DEF RecordOutcome, CacheType
    <3>3. /\ stage[r] = "record" /\ stage' = [stage EXCEPT ![r] = "settled"]
          /\ UNCHANGED <<trigger, attempt, abandoned, orphans>>
      BY <2>15 DEF RecordOutcome
    <3> QED BY <3>2, <3>3, SMT DEF CacheType
  <2>16. CASE LeavePool(r) BY <2>16, SMT DEF LeavePool
  <2> QED
    BY <1>1, <2>1, <2>2, <2>3, <2>4, <2>5, <2>6, <2>7, <2>8, <2>9, <2>10,
       <2>11, <2>12, <2>13, <2>14, <2>15, <2>16 DEF Progress
<1>2. ASSUME NEW r \in Runs, NEW k \in Triggers, Trigger(r, k) PROVE SchedTypeInv'
  BY <1>2, SMT DEF Trigger
<1>3. ASSUME NEW j \in Jobs, OrphanSettles(j) PROVE SchedTypeInv'
  BY <1>3, SMT DEF OrphanSettles
<1>4. ASSUME NEW j \in Jobs, RecordSkipped(j) PROVE SchedTypeInv'
  <2>1. cache' \in CacheType
    BY <1>4, FlagSetTyped, Zenon DEF RecordSkipped, Running, CacheType
  <2>2. UNCHANGED <<stage, trigger, attempt, abandoned, orphans>>
    BY <1>4 DEF RecordSkipped
  <2> QED BY <2>1, <2>2, SMT DEF CacheType
<1>5. ASSUME NEW j \in Jobs, RecordMissedAtBoot(j) PROVE SchedTypeInv'
  <2>1. cache' \in CacheType
    BY <1>5, FlagSetTyped, Zenon DEF RecordMissedAtBoot, CacheType
  <2>2. UNCHANGED <<stage, trigger, attempt, abandoned, orphans>>
    BY <1>5 DEF RecordMissedAtBoot
  <2> QED BY <2>1, <2>2, SMT DEF CacheType
<1>6. ASSUME NEW n \in Limits \ {limit}, Reconfigure(n) PROVE SchedTypeInv'
  BY <1>6, SMT DEF Reconfigure, runVars
<1>7. CASE UNCHANGED schedVars
  BY <1>7, SMT DEF schedVars, runVars
<1> QED BY <1>1, <1>2, <1>3, <1>4, <1>5, <1>6, <1>7 DEF SchedNext

(* Every variable has its type, and retries stay within their bound.        *)
THEOREM SchedTypeCorrect == SchedSpec => []SchedTypeOK
<1>1. SchedSpec => []SchedTypeInv
  BY SchedInitType, SchedNextType, PTL DEF SchedSpec
<1> QED BY <1>1, PTL DEF SchedTypeInv

-----------------------------------------------------------------------------
(* No trigger writes over the flags of a run that is in flight. *)
FlagsKept == "schedule" \notin Triggers /\ "boot" \notin Faults

(* A claim under way is alone and shows in the flags of its job, and an     *)
(* orphan is alone with its job: at most its own run still records it.      *)
ClaimInv ==
  /\ OneClaim
  /\ \A r \in Runs :
       /\ stage[r] \in {"mark", "pool"} => cache[JobOf[r]].queued
       /\ stage[r] \in {"start", "handler", "backoff", "record"} => cache[JobOf[r]].running
       /\ Claimed(r) /\ orphans[JobOf[r]] > 0 => stage[r] = "record"
  /\ \A j \in Jobs : orphans[j] <= 1 /\ (orphans[j] > 0 => j \in abandoned)

LEMMA SchedInitClaim == SchedInit => ClaimInv
  BY JobsAssumption, SMT DEF SchedInit, ClaimInv, OneClaim, Claimed

(* What writing the running flag of a job leaves of the others.             *)
LEMMA FlagSet ==
  ASSUME cache \in CacheType, NEW j \in Jobs, NEW b \in BOOLEAN,
         cache' = [cache EXCEPT ![j].running = b]
  PROVE  \A i \in Jobs : /\ cache'[i].queued = cache[i].queued
                         /\ i # j => cache'[i].running = cache[i].running
                         /\ i = j => cache'[i].running = b
  BY Zenon DEF CacheType

LEMMA SchedNextClaim ==
  ASSUME SchedTypeOK, ClaimInv, FlagsKept, [SchedNext]_schedVars
  PROVE  ClaimInv'
<1> USE JobsAssumption
    DEF SchedTypeOK, Stages, ClaimInv, OneClaim, Claimed, Goto, Decide, Forget,
        LastAttempt
<1>1. ASSUME NEW r \in Runs, Progress(r) PROVE ClaimInv'
  <2>1. CASE Coalesce(r) \/ Refuse(r) BY <2>1, SMT DEF Coalesce, RecordOverlap, Refuse
  <2>2. CASE ClaimManual(r) BY <2>2, SMT DEF ClaimManual, Claim, Busy, Running
  <2>3. CASE AskHasWork(r) BY <2>3, SMT DEF AskHasWork
  <2>4. CASE ClaimAfterHasWork(r) BY <2>4, SMT DEF ClaimAfterHasWork, Claim, Busy, Running
  <2>5. CASE CoalesceAfterHasWork(r) BY <2>5, SMT DEF CoalesceAfterHasWork, RecordOverlap
  <2>6. CASE HasNoWork(r)
    <3>1. trigger[r] # "schedule" \/ trigger[r] = "none"
      BY DEF FlagsKept
    <3>2. UNCHANGED cache
      BY <2>6, <3>1 DEF HasNoWork, FlagsKept
    <3> QED BY <2>6, <3>2, SMT DEF HasNoWork
  <2>7. CASE EnterPool(r) BY <2>7, SMT DEF EnterPool
  <2>8. CASE MarkFails(r) BY <2>8, SMT DEF MarkFails
  <2>9. CASE TakeSlot(r) BY <2>9, SMT DEF TakeSlot, runVars
  <2>10. CASE Execute(r) BY <2>10, SMT DEF Execute
  <2>11. CASE ExecuteFails(r) BY <2>11, SMT DEF ExecuteFails
  <2>12. CASE BeginAttempt(r) BY <2>12, SMT DEF BeginAttempt
  <2>13. CASE HandlerSettles(r)
    <3>1. /\ stage[r] = "handler"
          /\ \E s \in {"record", "backoff"} : stage' = [stage EXCEPT ![r] = s]
          /\ abandoned' = abandoned \ {JobOf[r]}
          /\ UNCHANGED <<cache, orphans>>
      BY <2>13 DEF HandlerSettles
    <3>2. orphans[JobOf[r]] = 0
      BY <3>1, SMT
    <3> QED BY <3>1, <3>2, SMT
  <2>14. CASE HandlerTimesOut(r) BY <2>14, SMT DEF HandlerTimesOut
  <2>15. CASE RecordOutcome(r)
    <3>1. \A i \in Jobs :
            /\ cache'[i].queued = cache[i].queued
            /\ i # JobOf[r] => cache'[i].running = cache[i].running
      <4>1. /\ JobOf[r] \in Jobs /\ cache \in CacheType
            /\ cache' = [cache EXCEPT ![JobOf[r]].running = FALSE]
        BY <2>15 DEF RecordOutcome, CacheType
      <4> DEFINE j == JobOf[r]
      <4>2. \A i \in Jobs : /\ cache'[i].queued = cache[i].queued
                            /\ i # j => cache'[i].running = cache[i].running
                            /\ i = j => cache'[i].running = FALSE
        <5> HIDE DEF j
        <5> QED BY <4>1, FlagSet DEF j
      <4> QED BY <4>2
    <3>2. /\ stage[r] = "record" /\ stage' = [stage EXCEPT ![r] = "settled"]
          /\ UNCHANGED <<abandoned, orphans>>
      BY <2>15 DEF RecordOutcome
    <3> QED BY <3>1, <3>2, SMT
  <2>16. CASE LeavePool(r) BY <2>16, SMT DEF LeavePool
  <2> QED
    BY <1>1, <2>1, <2>2, <2>3, <2>4, <2>5, <2>6, <2>7, <2>8, <2>9, <2>10,
       <2>11, <2>12, <2>13, <2>14, <2>15, <2>16 DEF Progress
<1>2. ASSUME NEW r \in Runs, NEW k \in Triggers, Trigger(r, k) PROVE ClaimInv'
  BY <1>2, SMT DEF Trigger
<1>3. ASSUME NEW j \in Jobs, OrphanSettles(j) PROVE ClaimInv'
  BY <1>3, SMT DEF OrphanSettles
<1>4. ASSUME NEW j \in Jobs, RecordSkipped(j) PROVE ClaimInv'
  <2>1. \A i \in Jobs :
          /\ cache'[i].queued = cache[i].queued
          /\ cache[i].running => cache'[i].running
    <3> DEFINE b == Running(j)
    <3>1. cache' = [cache EXCEPT ![j].running = b] /\ b \in BOOLEAN
      BY <1>4, Zenon DEF RecordSkipped, Running
    <3>2. cache[j].running => b
      BY DEF Running
    <3>3. cache \in CacheType
      BY DEF CacheType
    <3> HIDE DEF b
    <3>4. \A i \in Jobs : /\ cache'[i].queued = cache[i].queued
                          /\ i # j => cache'[i].running = cache[i].running
                          /\ i = j => cache'[i].running = b
      BY <3>1, <3>3, FlagSet
    <3> QED BY <3>2, <3>4, Zenon
  <2> QED BY <1>4, <2>1, SMT DEF RecordSkipped
<1>5. ASSUME NEW j \in Jobs, RecordMissedAtBoot(j) PROVE ClaimInv'
  BY <1>5 DEF RecordMissedAtBoot, FlagsKept
<1>6. ASSUME NEW n \in Limits \ {limit}, Reconfigure(n) PROVE ClaimInv'
  BY <1>6, SMT DEF Reconfigure, runVars
<1>7. CASE UNCHANGED schedVars
  BY <1>7, SMT DEF schedVars, runVars
<1> QED BY <1>1, <1>2, <1>3, <1>4, <1>5, <1>6, <1>7 DEF SchedNext

LEMMA SchedInvariant ==
  ASSUME FlagsKept PROVE SchedSpec => [](SchedTypeInv /\ ClaimInv)
<1>1. SchedTypeInv /\ ClaimInv /\ [SchedNext]_schedVars => (SchedTypeInv /\ ClaimInv)'
  BY SchedNextType, SchedNextClaim DEF SchedTypeInv
<1> QED BY <1>1, SchedInitType, SchedInitClaim, PTL DEF SchedSpec

(* Two triggers never claim a job at once: one of them finds it in flight.  *)
THEOREM SchedOneClaim == ASSUME FlagsKept PROVE SchedSpec => []OneClaim
<1>1. ClaimInv => OneClaim
  BY DEF ClaimInv
<1> QED BY <1>1, SchedInvariant, PTL

(* "A given job still never runs twice concurrently": not beside a handler  *)
(* that outran its deadline either, however many triggers race.             *)
THEOREM SchedNeverTwice == ASSUME FlagsKept PROVE SchedSpec => []NeverTwice
<1>1. ASSUME SchedTypeOK, ClaimInv PROVE NeverTwice
  <2> SUFFICES ASSUME NEW j \in Jobs
               PROVE  Cardinality(LiveHandlers(j)) + orphans[j] <= 1
    BY DEF NeverTwice
  <2>1. orphans[j] \in {0, 1}
    BY <1>1, SMT DEF SchedTypeOK, ClaimInv
  <2>2. CASE LiveHandlers(j) = {}
    <3>1. Cardinality(LiveHandlers(j)) = 0
      BY <2>2, FS_EmptySet
    <3> QED BY <2>1, <3>1, SMT
  <2>3. CASE LiveHandlers(j) # {}
    <3>1. PICK r \in Runs : r \in LiveHandlers(j)
      BY <2>3 DEF LiveHandlers
    <3>2. LiveHandlers(j) = {r}
      BY <1>1, <3>1 DEF LiveHandlers, ClaimInv, OneClaim, Claimed
    <3>3. orphans[j] = 0
      BY <1>1, <2>1, <3>1, SMT DEF LiveHandlers, ClaimInv, Claimed
    <3>4. Cardinality(LiveHandlers(j)) = 1
      BY <3>2, FS_Singleton
    <3> QED BY <3>3, <3>4, SMT
  <2> QED BY <2>2, <2>3
<1> QED BY <1>1, SchedInvariant, PTL DEF SchedTypeInv

(* A job that executes, waited for or not, is reported in flight.           *)
THEOREM SchedExecutingIsBusy == ASSUME FlagsKept PROVE SchedSpec => []ExecutingIsBusy
<1>1. ClaimInv => ExecutingIsBusy
  BY DEF ClaimInv, ExecutingIsBusy, Executing, LiveHandlers, Busy, Running
<1> QED BY <1>1, SchedInvariant, PTL

-----------------------------------------------------------------------------
(* The scheduler drives the pool by its own operations only, so what is     *)
(* proved of the pool holds in the scheduler.                               *)
THEOREM SchedDrivesPool == SchedSpec => PoolSpec
<1>1. SchedInit => PoolInit
  BY DEF SchedInit
<1>2. [SchedNext]_schedVars => [PoolNext]_poolVars
  <2> SUFFICES ASSUME [SchedNext]_schedVars PROVE PoolNext \/ UNCHANGED poolVars
    OBVIOUS
  <2>1. ASSUME NEW r \in Runs, Progress(r) PROVE PoolNext \/ UNCHANGED poolVars
    <3>1. Enqueue(r) \/ AcquireJobSlot(r) \/ Finish(r) \/ UNCHANGED poolVars
      BY <2>1
      DEF Progress, Coalesce, Refuse, ClaimManual, AskHasWork, ClaimAfterHasWork,
          CoalesceAfterHasWork, HasNoWork, EnterPool, MarkFails, TakeSlot, Execute,
          ExecuteFails, BeginAttempt, HandlerSettles, HandlerTimesOut, RecordOutcome,
          LeavePool
    <3> QED BY <3>1 DEF PoolNext
  <2>2. ASSUME NEW r \in Runs, NEW k \in Triggers, Trigger(r, k) PROVE UNCHANGED poolVars
    BY <2>2 DEF Trigger
  <2>3. ASSUME NEW j \in Jobs,
               OrphanSettles(j) \/ RecordSkipped(j) \/ RecordMissedAtBoot(j)
        PROVE  UNCHANGED poolVars
    BY <2>3 DEF OrphanSettles, RecordSkipped, RecordMissedAtBoot
  <2>4. ASSUME NEW n \in Limits \ {limit}, Reconfigure(n) PROVE PoolNext
    BY <2>4 DEF Reconfigure, PoolNext
  <2>5. CASE UNCHANGED schedVars
    BY <2>5 DEF schedVars
  <2> QED BY <2>1, <2>2, <2>3, <2>4, <2>5 DEF SchedNext
<1> QED BY <1>1, <1>2, PTL DEF SchedSpec, PoolSpec

(* A call that leaves the pool moves, beside itself, only calls that wait.  *)
LEMMA FinishMoves ==
  ASSUME IInv, NEW r \in Runs, Finish(r)
  PROVE  /\ pc'[r] = "out"
         /\ \A s \in Runs \ {r} : \/ pc'[s] = pc[s]
                                  \/ pc[s] = "worker" /\ pc'[s] = "locked"
                                  \/ pc[s] = "slot" /\ pc'[s] = "work"
<1> DEFINE w == WorkerOf[r]
<1>1. w \in Workers /\ workerLockWaiters[w] \in Seq(Runs) /\ jobSlotWaiters \in Seq(Runs)
  BY WorkerOfAssumption DEF IInv, TypeOK
<1>2. \A s \in LockHeirs(w) : pc[s] = "worker"
  <2>1. \A s \in LockHeirs(w) : s \in Listed(workerLockWaiters[w])
    BY <1>1, TailListed DEF LockHeirs
  <2> QED BY <1>1, <2>1 DEF IInv, QueuesExact
<1>3. \A s \in SlotHeirs : pc[s] = "slot"
  <2>1. \A s \in SlotHeirs : s \in Listed(jobSlotWaiters)
    BY <1>1, TailListed DEF SlotHeirs
  <2> QED BY <2>1 DEF IInv, QueuesExact
<1> QED BY <1>2, <1>3 DEF Finish

(* Where a trigger is and where its call is in the pool agree.              *)
PoolLink ==
  \A r \in Runs :
    /\ stage[r] \in {"idle", "check", "hasWork", "mark"} <=> pc[r] = "out"
    /\ stage[r] \in {"start", "handler", "backoff", "record", "settled"} => pc[r] = "work"

LEMMA SchedNextLink ==
  ASSUME IInv, SchedTypeOK, PoolLink, [SchedNext]_schedVars
  PROVE  PoolLink'
<1> USE DEF PoolLink, SchedTypeOK, Stages, Goto, Decide, LastAttempt
<1>0. pc \in [Runs -> Phases]
  BY DEF IInv, TypeOK
<1>1. ASSUME NEW r \in Runs, Progress(r) PROVE PoolLink'
  <2>1. CASE EnterPool(r)
    <3>1. stage[r] = "mark" /\ stage' = [stage EXCEPT ![r] = "pool"]
      BY <2>1 DEF EnterPool
    <3>2. /\ pc'[r] \in {"worker", "locked"}
          /\ \A s \in Runs \ {r} : pc'[s] = pc[s]
      BY <1>0, <2>1 DEF EnterPool, Enqueue, AcquireWorkerLock
    <3> QED BY <3>1, <3>2, Zenon
  <2>2. CASE TakeSlot(r)
    <3>1. stage' = stage /\ pc[r] = "locked"
      BY <2>2 DEF TakeSlot, runVars, AcquireJobSlot
    <3>2. /\ pc'[r] \in {"work", "slot"}
          /\ \A s \in Runs \ {r} : pc'[s] = pc[s]
      BY <1>0, <2>2 DEF TakeSlot, AcquireJobSlot
    <3> QED BY <3>1, <3>2, Zenon
  <2>3. CASE ExecuteFails(r) \/ LeavePool(r)
    <3>1. Finish(r) /\ stage' = [stage EXCEPT ![r] = "idle"]
      BY <2>3 DEF ExecuteFails, LeavePool
    <3> QED BY <3>1, FinishMoves, ZenonT(30)
  <2>4. CASE Coalesce(r) \/ Refuse(r) \/ ClaimManual(r) \/ AskHasWork(r) \/ ClaimAfterHasWork(r)
             \/ CoalesceAfterHasWork(r) \/ HasNoWork(r) \/ MarkFails(r)
    <3>1. /\ stage[r] \in {"check", "hasWork", "mark"} /\ pc' = pc
          /\ \E q \in {"idle", "hasWork", "mark"} : stage' = [stage EXCEPT ![r] = q]
      BY <2>4
      DEF poolVars, Coalesce, Refuse, ClaimManual, Claim, AskHasWork, ClaimAfterHasWork,
          CoalesceAfterHasWork, HasNoWork, MarkFails
    <3> QED BY <3>1
  <2>5. CASE Execute(r)
    BY <2>5 DEF poolVars, Execute
  <2>6. CASE BeginAttempt(r) \/ HandlerSettles(r) \/ HandlerTimesOut(r) \/ RecordOutcome(r)
    <3>1. /\ stage[r] \in {"start", "handler", "backoff", "record"} /\ pc' = pc
          /\ \E q \in {"handler", "backoff", "record", "settled"} :
               stage' = [stage EXCEPT ![r] = q]
      BY <2>6 DEF poolVars, BeginAttempt, HandlerSettles, HandlerTimesOut, RecordOutcome
    <3> QED BY <3>1
  <2> QED BY <1>1, <2>1, <2>2, <2>3, <2>4, <2>5, <2>6 DEF Progress
<1>2. ASSUME NEW r \in Runs, NEW k \in Triggers, Trigger(r, k) PROVE PoolLink'
  BY <1>2 DEF Trigger, poolVars
<1>3. ASSUME NEW j \in Jobs,
             OrphanSettles(j) \/ RecordSkipped(j) \/ RecordMissedAtBoot(j)
      PROVE  PoolLink'
  BY <1>3 DEF OrphanSettles, RecordSkipped, RecordMissedAtBoot, poolVars
<1>4. ASSUME NEW n \in Limits \ {limit}, Reconfigure(n) PROVE PoolLink'
  BY <1>4 DEF Reconfigure, SetLimit, runVars
<1>5. CASE UNCHANGED schedVars
  BY <1>5 DEF schedVars, poolVars, runVars
<1> QED BY <1>1, <1>2, <1>3, <1>4, <1>5 DEF SchedNext

LEMMA SchedLink == SchedSpec => [](IInv /\ SchedTypeOK /\ PoolLink)
<1>1. SchedInit => PoolLink
  BY DEF SchedInit, PoolInit, PoolLink
<1> QED
  BY <1>1, SchedNextLink, SchedDrivesPool, PoolInvariant, SchedTypeCorrect, PTL
  DEF SchedSpec

(* A trigger that is over holds neither slot nor lock, whichever of its     *)
(* writes failed.                                                           *)
THEOREM SchedNothingLeaked == SchedSpec => []NothingLeaked
<1>1. PoolLink => NothingLeaked
  BY DEF PoolLink, NothingLeaked
<1> QED BY <1>1, SchedLink, PTL

(* Handlers of one worker that keep their deadline never overlap, whatever  *)
(* happens to the flags and whatever fails.                                 *)
THEOREM SchedSerialHandlers == SchedSpec => []SerialHandlers
<1>1. ASSUME IInv, PoolLink PROVE SerialHandlers
  <2> SUFFICES ASSUME NEW r \in Runs, NEW s \in Runs, stage[r] = "handler", stage[s] = "handler",
                      WorkerOf[r] = WorkerOf[s]
               PROVE  r = s
    BY DEF SerialHandlers
  <2>1. pc[r] = "work" /\ pc[s] = "work"
    BY <1>1 DEF PoolLink
  <2> QED BY <1>1, <2>1 DEF IInv, SerialWithinWorker, HoldsLock
<1> QED BY <1>1, SchedLink, PTL

-----------------------------------------------------------------------------
(* No write fails, and no slot is recorded as missed over an abandoned      *)
(* handler.                                                                 *)
FlagsTrusted == "store" \notin Faults /\ ("missed" \notin Faults \/ "deadline" \notin Faults)

(* A flag is set by the run it stands for, or kept by its orphan.           *)
Waiting(j) == \E r \in Runs : JobOf[r] = j /\ stage[r] \in {"mark", "pool"}
Underway(j) ==
  \E r \in Runs : JobOf[r] = j /\ stage[r] \in {"start", "handler", "backoff", "record"}

FlagInv ==
  /\ \A j \in Jobs :
       /\ cache[j].queued => Waiting(j)
       /\ cache[j].running => Underway(j)
       /\ j \in abandoned => orphans[j] > 0
  /\ "deadline" \notin Faults => abandoned = {}

(* A trigger that stays in its phase, or leaves the jobs of others alone,   *)
(* takes no run from a flag.                                                *)
LEMMA PhasesKept ==
  ASSUME NEW r \in Runs, NEW s, stage \in [Runs -> Stages], Goto(r, s), NEW j \in Jobs
  PROVE  /\ Waiting(j) =>
              \/ Waiting(j)'
              \/ JobOf[r] = j /\ stage[r] \in {"mark", "pool"} /\ s \notin {"mark", "pool"}
         /\ Underway(j) =>
              \/ Underway(j)'
              \/ /\ JobOf[r] = j /\ stage[r] \in {"start", "handler", "backoff", "record"}
                 /\ s \notin {"start", "handler", "backoff", "record"}
         /\ JobOf[r] = j /\ s \in {"mark", "pool"} => Waiting(j)'
         /\ JobOf[r] = j /\ s \in {"start", "handler", "backoff", "record"} => Underway(j)'
BY DEF Goto, Waiting, Underway

LEMMA SchedNextFlag ==
  ASSUME SchedTypeOK, FlagInv, FlagsTrusted, [SchedNext]_schedVars
  PROVE  FlagInv'
<1>1. /\ stage \in [Runs -> Stages] /\ cache \in CacheType /\ abandoned \subseteq Jobs
      /\ orphans \in [Jobs -> 0..MaxOrphans] /\ MaxOrphans \in Nat
      /\ \A r \in Runs : JobOf[r] \in Jobs
  BY JobsAssumption, BoundsAssumption DEF SchedTypeOK, CacheType
<1>2. ASSUME NEW r \in Runs, NEW s, Goto(r, s), UNCHANGED <<abandoned, orphans, cache>>,
             stage[r] \in {"mark", "pool"} => s \in {"mark", "pool"},
             stage[r] \in {"start", "handler", "backoff", "record"} =>
               s \in {"start", "handler", "backoff", "record"}
      PROVE  FlagInv'
  BY <1>1, <1>2, PhasesKept DEF FlagInv
<1>3. ASSUME NEW r \in Runs, Goto(r, "mark"), UNCHANGED <<abandoned, orphans>>,
             stage[r] \in {"check", "hasWork"},
             cache' = [cache EXCEPT ![JobOf[r]] = [queued |-> TRUE, running |-> FALSE]]
      PROVE  FlagInv'
  <2>1. \A j \in Jobs : /\ j # JobOf[r] => cache'[j] = cache[j]
                        /\ j = JobOf[r] => cache'[j].queued /\ ~cache'[j].running
    BY <1>1, <1>3 DEF CacheType
  <2> QED
    BY <1>1, <1>3, <2>1, PhasesKept DEF FlagInv
<1>4. ASSUME NEW j \in Jobs, NEW b \in BOOLEAN, cache' = [cache EXCEPT ![j].running = b],
             b => cache[j].running, UNCHANGED <<stage, abandoned, orphans>>
      PROVE  FlagInv'
  <2>1. \A i \in Jobs : /\ cache'[i].queued = cache[i].queued
                        /\ cache'[i].running => cache[i].running
    <3>1. \A i \in Jobs : /\ cache'[i].queued = cache[i].queued
                          /\ i # j => cache'[i].running = cache[i].running
                          /\ i = j => cache'[i].running = b
      BY <1>1, <1>4, FlagSet, ZenonT(30)
    <3> QED
      BY <1>4, <3>1
  <2> QED
    BY <1>4, <2>1 DEF FlagInv, Waiting, Underway
<1>5. ASSUME NEW r \in Runs, Progress(r) PROVE FlagInv'
  <2>1. CASE Coalesce(r) \/ Refuse(r) \/ AskHasWork(r) \/ CoalesceAfterHasWork(r)
    BY <1>2, <2>1 DEF Coalesce, Refuse, AskHasWork, CoalesceAfterHasWork, RecordOverlap, Decide
  <2>2. CASE ClaimManual(r) \/ ClaimAfterHasWork(r)
    BY <1>3, <2>2 DEF ClaimManual, ClaimAfterHasWork, Claim, Decide
  <2>3. CASE HasNoWork(r)
    <3> DEFINE j == JobOf[r]
    <3>1. j \in Jobs /\ stage[r] = "hasWork" /\ Goto(r, "idle") /\ UNCHANGED <<abandoned, orphans>>
      BY <1>1, <2>3 DEF HasNoWork, Decide
    <3>2. cache' = [cache EXCEPT ![j] = NoWorkFlags(j)] \/ cache' = cache
      BY <2>3 DEF HasNoWork
    <3>3. \A i \in Jobs : cache'[i].queued = cache[i].queued /\ (cache'[i].running => cache[i].running)
      <4> HIDE DEF j
      <4> QED
        BY <1>1, <3>1, <3>2 DEF NoWorkFlags, CacheType
    <3>4. \A i \in Jobs : (Waiting(i) => Waiting(i)') /\ (Underway(i) => Underway(i)')
      BY <1>1, <3>1, PhasesKept
    <3> QED
      BY <3>1, <3>3, <3>4 DEF FlagInv
  <2>4. CASE EnterPool(r) \/ BeginAttempt(r)
    BY <1>2, <2>4 DEF EnterPool, BeginAttempt
  <2>5. CASE MarkFails(r) \/ ExecuteFails(r)
    BY <2>5 DEF MarkFails, ExecuteFails, FlagsTrusted
  <2>6. CASE TakeSlot(r)
    BY <2>6 DEF TakeSlot, runVars, FlagInv, Waiting, Underway
  <2>7. CASE Execute(r)
    <3>1. /\ Goto(r, "start") /\ stage[r] = "pool" /\ UNCHANGED <<abandoned, orphans>>
          /\ cache' = [cache EXCEPT ![JobOf[r]] = [queued |-> FALSE, running |-> TRUE]]
      BY <2>7 DEF Execute
    <3>2. \A j \in Jobs : /\ j # JobOf[r] => cache'[j] = cache[j]
                          /\ j = JobOf[r] => ~cache'[j].queued /\ cache'[j].running
      BY <1>1, <3>1 DEF CacheType
    <3> QED
      BY <1>1, <3>1, <3>2, PhasesKept DEF FlagInv
  <2>8. CASE HandlerSettles(r)
    <3>1. PICK s \in {"record", "backoff"} :
            Goto(r, s) /\ stage[r] = "handler" /\ UNCHANGED <<cache, orphans>>
              /\ abandoned' \subseteq abandoned
      BY <2>8 DEF HandlerSettles, LastAttempt, Forget
    <3>2. \A i \in Jobs : (Waiting(i) => Waiting(i)') /\ (Underway(i) => Underway(i)')
      BY <1>1, <3>1, PhasesKept
    <3> QED
      BY <3>1, <3>2 DEF FlagInv
  <2>9. CASE HandlerTimesOut(r)
    <3>1. /\ Goto(r, "record") /\ stage[r] = "handler" /\ UNCHANGED cache /\ "deadline" \in Faults
          /\ abandoned' = abandoned \union {JobOf[r]}
          /\ orphans' = [orphans EXCEPT ![JobOf[r]] = @ + 1]
      BY <2>9 DEF HandlerTimesOut, LastAttempt
    <3>2. \A i \in Jobs : (Waiting(i) => Waiting(i)') /\ (Underway(i) => Underway(i)')
      BY <1>1, <3>1, PhasesKept
    <3>3. \A i \in Jobs : i \in abandoned' => orphans'[i] > 0
      BY <1>1, <3>1 DEF FlagInv
    <3> QED
      BY <3>1, <3>2, <3>3 DEF FlagInv
  <2>10. CASE RecordOutcome(r)
    <3> DEFINE j == JobOf[r]
    <3>1. /\ Goto(r, "settled") /\ stage[r] = "record" /\ UNCHANGED <<abandoned, orphans>>
          /\ j \in Jobs /\ cache' = [cache EXCEPT ![j].running = FALSE]
      BY <1>1, <2>10 DEF RecordOutcome
    <3>2. \A i \in Jobs : /\ cache'[i].queued = cache[i].queued
                          /\ i # j => cache'[i].running = cache[i].running
                          /\ i = j => cache'[i].running = FALSE
      <4> HIDE DEF j
      <4> QED
        BY <1>1, <3>1, FlagSet
    <3> QED
      BY <1>1, <3>1, <3>2, PhasesKept, ZenonT(30) DEF FlagInv
  <2>11. CASE LeavePool(r)
    BY <1>2, <2>11 DEF LeavePool
  <2> QED
    BY <1>5, <2>1, <2>2, <2>3, <2>4, <2>5, <2>6, <2>7, <2>8, <2>9, <2>10, <2>11 DEF Progress
<1>6. ASSUME NEW r \in Runs, NEW k \in Triggers, Trigger(r, k) PROVE FlagInv'
  BY <1>2, <1>6 DEF Trigger
<1>7. ASSUME NEW j \in Jobs, OrphanSettles(j) PROVE FlagInv'
  <2>1. /\ orphans' = [orphans EXCEPT ![j] = @ - 1] /\ abandoned' = abandoned \ {j}
        /\ UNCHANGED <<stage, cache>>
    BY <1>7 DEF OrphanSettles, Forget
  <2>2. \A i \in Jobs : i \in abandoned' => orphans'[i] > 0
    BY <1>1, <2>1 DEF FlagInv
  <2> QED
    BY <2>1, <2>2 DEF FlagInv, Waiting, Underway
<1>8. ASSUME NEW j \in Jobs, RecordSkipped(j) PROVE FlagInv'
  <2>1. abandoned = {}
    BY <1>8 DEF RecordSkipped, FlagsTrusted, FlagInv
  <2>2. Running(j) \in BOOLEAN /\ (Running(j) => cache[j].running)
    BY <2>1 DEF Running
  <2> DEFINE b == Running(j)
  <2>3. cache' = [cache EXCEPT ![j].running = b] /\ UNCHANGED <<stage, abandoned, orphans>>
    BY <1>8 DEF RecordSkipped
  <2> HIDE DEF b
  <2> QED
    BY <1>4, <2>2, <2>3 DEF b
<1>9. ASSUME NEW j \in Jobs, RecordMissedAtBoot(j) PROVE FlagInv'
  BY <1>4, <1>9 DEF RecordMissedAtBoot
<1>10. CASE UNCHANGED schedVars \/ \E n \in Limits \ {limit} : Reconfigure(n)
  BY <1>10 DEF schedVars, runVars, Reconfigure, FlagInv, Waiting, Underway
<1> QED
  BY <1>5, <1>6, <1>7, <1>8, <1>9, <1>10 DEF SchedNext

(* What a job reports, queued or running, is a run on its way, or the       *)
(* orphan of one: never a flag that a run left behind.                      *)
THEOREM SchedFlagsAreLive == ASSUME FlagsTrusted PROVE SchedSpec => []FlagsAreLive
<1>1. SchedInit => FlagInv
  BY DEF SchedInit, FlagInv
<1>2. SchedTypeOK /\ FlagInv => FlagsAreLive
  <2> SUFFICES ASSUME SchedTypeOK, FlagInv PROVE RunningIsLive /\ QueuedIsLive
    BY DEF FlagsAreLive
  <2> QED
    BY DEF FlagInv, RunningIsLive, QueuedIsLive, Waiting, Underway, Running, Executing, Claimed
<1> QED
  BY <1>1, <1>2, SchedNextFlag, SchedTypeCorrect, PTL DEF SchedSpec
=============================================================================

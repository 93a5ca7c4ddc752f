------------------------------ MODULE Scheduler ------------------------------
(***************************************************************************)
(* The life of a job run in the BFrost scheduler: a trigger checks that    *)
(* the job is not in flight, claims it by marking it queued, goes through  *)
(* the execution pool (module JobPool), runs the handler under a deadline  *)
(* with retries, and clears the flags.  A handler that outran its deadline *)
(* cannot be cancelled: it becomes an orphan and goes on executing.        *)
(* A step is what the code does between two awaits.                        *)
(***************************************************************************)
EXTENDS JobPool

CONSTANTS
  Jobs,
  JobOf,        \* the job each trigger asks for
  Triggers,     \* the kinds of trigger that occur
  Faults,       \* "missed": slots are missed and recorded as skipped,
                \* "boot": one is at startup, with the recovery disabled,
                \* "deadline": handlers may outrun their time budget,
                \* "store": writing the runtime to the database may fail
  MaxAttempts,  \* retryPolicy.maxRetries + 1
  MaxOrphans    \* bound: orphaned handlers of one job at a time

ASSUME JobsAssumption ==
  /\ JobOf \in [Runs -> Jobs]
  /\ \A r, s \in Runs : JobOf[r] = JobOf[s] => WorkerOf[r] = WorkerOf[s]
ASSUME TriggersAssumption ==
  /\ Triggers \subseteq {"manual", "schedule", "pipeline", "event"}
  /\ Faults \subseteq {"missed", "boot", "deadline", "store"}
ASSUME BoundsAssumption == MaxAttempts \in Nat \ {0} /\ MaxOrphans \in Nat

VARIABLES
  stage,      \* where each trigger is
  trigger,    \* its kind, until it has claimed the job or given up
  attempt,    \* the attempt its run is at, 0 outside the attempts
  cache,      \* runtimeCache: the queued and running flag of each job
  abandoned,  \* abandonedJobRuns
  orphans     \* per job, the abandoned handlers that are still executing

runVars == <<stage, trigger, attempt, cache, abandoned, orphans>>
schedVars == <<poolVars, runVars>>

Stages == {"idle",
           "check",     \* awaits loadWorkerState
           "hasWork",   \* awaits the job's hasWork
           "mark",      \* claimed; awaits the writes of markJobQueued
           "pool",      \* in enqueueJobExecution, its work not begun
           "start",     \* running; awaits the writes of executeQueuedJob
           "handler",   \* awaits the handler or the deadline
           "backoff",   \* sleeps before the next attempt
           "record",    \* the last attempt is over; awaits its record
           "settled"}   \* flags cleared; awaits the last writes

SchedInit ==
  /\ PoolInit
  /\ stage = [r \in Runs |-> "idle"]
  /\ trigger = [r \in Runs |-> "none"]
  /\ attempt = [r \in Runs |-> 0]
  /\ cache = [j \in Jobs |-> [queued |-> FALSE, running |-> FALSE]]
  /\ abandoned = {}
  /\ orphans = [j \in Jobs |-> 0]

-----------------------------------------------------------------------------
Goto(r, s) == stage' = [stage EXCEPT ![r] = s]

(* The trigger is decided: it ends at s, claimed or not. *)
Decide(r, s) ==
  /\ Goto(r, s)
  /\ trigger' = [trigger EXCEPT ![r] = "none"]

(* buildJobState: an abandoned handler still counts as running.             *)
Running(j) == cache[j].running \/ j \in abandoned
Busy(j) == cache[j].queued \/ Running(j)

(* markJobQueued sets the flags before its first await. *)
Claim(r) ==
  /\ cache' = [cache EXCEPT ![JobOf[r]] = [queued |-> TRUE, running |-> FALSE]]
  /\ Decide(r, "mark")

(* A handler that settles, in time or not, lifts the guard of its job.       *)
Forget(j) == abandoned' = abandoned \ {j}

(* The loop over the attempts is left. *)
LastAttempt(r) ==
  /\ Goto(r, "record")
  /\ attempt' = [attempt EXCEPT ![r] = 0]

-----------------------------------------------------------------------------
(* Faulty variants of steps below, none of them part of the specification.  *)

\* no second look at the flags after the job was asked whether it has work
Bug_ClaimAfterHasWorkUnchecked(r) ==
  /\ stage[r] = "hasWork"
  /\ Claim(r)
  /\ UNCHANGED <<poolVars, attempt, abandoned, orphans>>

\* an error before the handler skips the finally blocks
Bug_ExecuteFailsKeepsSlot(r) ==
  /\ "store" \in Faults
  /\ stage[r] = "start"
  /\ Goto(r, "idle")
  /\ UNCHANGED <<poolVars, trigger, attempt, cache, abandoned, orphans>>

\* a retry does not count
Bug_BeginAttemptUncounted(r) ==
  /\ stage[r] \in {"start", "backoff"}
  /\ Goto(r, "handler")
  /\ attempt' = [attempt EXCEPT ![r] = 1]
  /\ UNCHANGED <<poolVars, trigger, cache, abandoned, orphans>>

\* a rejected orphan does not lift the guard
Bug_OrphanSettlesKeepsGuard(j) ==
  /\ orphans[j] > 0
  /\ orphans' = [orphans EXCEPT ![j] = @ - 1]
  /\ UNCHANGED <<poolVars, stage, trigger, attempt, cache, abandoned>>

-----------------------------------------------------------------------------
(* triggerJobNow or runJob is called. *)
Trigger(r, k) ==
  /\ stage[r] = "idle" /\ pc[r] = "out"
  /\ trigger' = [trigger EXCEPT ![r] = k]
  /\ Goto(r, "check")
  /\ UNCHANGED <<poolVars, attempt, cache, abandoned, orphans>>

(* recordBusySkippedRun records the slot and leaves the runtime alone.      *)
RecordOverlap == UNCHANGED cache

(* The job is in flight: JobBusyError, and a record of a scheduled slot.    *)
Coalesce(r) ==
  /\ stage[r] = "check"
  /\ Busy(JobOf[r])
  /\ RecordOverlap
  /\ Decide(r, "idle")
  /\ UNCHANGED <<poolVars, attempt, abandoned, orphans>>

(* Its worker is disabled. *)
Refuse(r) ==
  /\ stage[r] = "check"
  /\ ~Busy(JobOf[r])
  /\ Decide(r, "idle")
  /\ UNCHANGED <<poolVars, attempt, cache, abandoned, orphans>>

(* A manual trigger claims the job in the step that checked it. *)
ClaimManual(r) ==
  /\ stage[r] = "check" /\ trigger[r] = "manual"
  /\ ~Busy(JobOf[r])
  /\ Claim(r)
  /\ UNCHANGED <<poolVars, attempt, abandoned, orphans>>

(* Any other trigger asks the job whether it has work first ... *)
AskHasWork(r) ==
  /\ stage[r] = "check" /\ trigger[r] # "manual"
  /\ ~Busy(JobOf[r])
  /\ Goto(r, "hasWork")
  /\ UNCHANGED <<poolVars, trigger, attempt, cache, abandoned, orphans>>

(* ... and looks at the flags again when it has, or could not tell.         *)
ClaimAfterHasWork(r) ==
  /\ stage[r] = "hasWork"
  /\ ~Busy(JobOf[r])
  /\ Claim(r)
  /\ UNCHANGED <<poolVars, attempt, abandoned, orphans>>

CoalesceAfterHasWork(r) ==
  /\ stage[r] = "hasWork"
  /\ Busy(JobOf[r])
  /\ RecordOverlap
  /\ Decide(r, "idle")
  /\ UNCHANGED <<poolVars, attempt, abandoned, orphans>>

(* recordNoWorkSkippedRun: what a scheduled slot without work writes.       *)
NoWorkFlags(j) == [queued |-> cache[j].queued, running |-> FALSE]

HasNoWork(r) ==
  /\ stage[r] = "hasWork"
  /\ cache' = IF trigger[r] = "schedule"
              THEN [cache EXCEPT ![JobOf[r]] = NoWorkFlags(JobOf[r])]
              ELSE cache
  /\ Decide(r, "idle")
  /\ UNCHANGED <<poolVars, attempt, abandoned, orphans>>

-----------------------------------------------------------------------------
(* The writes of markJobQueued are done: enter the execution pool ...       *)
EnterPool(r) ==
  /\ stage[r] = "mark"
  /\ Enqueue(r)
  /\ Goto(r, "pool")
  /\ UNCHANGED <<trigger, attempt, cache, abandoned, orphans>>

(* ... or persistRuntime threw and the trigger ends there.                  *)
MarkFails(r) ==
  /\ "store" \in Faults
  /\ stage[r] = "mark"
  /\ Goto(r, "idle")
  /\ UNCHANGED <<poolVars, trigger, attempt, cache, abandoned, orphans>>

TakeSlot(r) ==
  /\ AcquireJobSlot(r)
  /\ UNCHANGED runVars

(* executeQueuedJob: the run leaves the queue. *)
Execute(r) ==
  /\ pc[r] = "work" /\ stage[r] = "pool"
  /\ cache' = [cache EXCEPT ![JobOf[r]] = [queued |-> FALSE, running |-> TRUE]]
  /\ Goto(r, "start")
  /\ UNCHANGED <<poolVars, trigger, attempt, abandoned, orphans>>

(* persistRuntime threw in executeQueuedJob: enqueueJobExecution logs it    *)
(* and gives slot and lock back.                                            *)
ExecuteFails(r) ==
  /\ "store" \in Faults
  /\ stage[r] = "start"
  /\ Finish(r)
  /\ Goto(r, "idle")
  /\ UNCHANGED <<trigger, attempt, cache, abandoned, orphans>>

-----------------------------------------------------------------------------
(* runJobWork: an attempt starts the handler and its deadline. *)
BeginAttempt(r) ==
  /\ stage[r] \in {"start", "backoff"}
  /\ attempt' = [attempt EXCEPT ![r] = @ + 1]
  /\ Goto(r, "handler")
  /\ UNCHANGED <<poolVars, trigger, cache, abandoned, orphans>>

HandlerSettles(r) ==
  /\ stage[r] = "handler"
  /\ Forget(JobOf[r])
  /\ \/ LastAttempt(r)             \* success, or an error not to be retried
     \/ /\ attempt[r] < MaxAttempts
        /\ Goto(r, "backoff")
        /\ UNCHANGED attempt
  /\ UNCHANGED <<poolVars, trigger, cache, orphans>>

(* The deadline fires: the run ends, the handler does not. *)
HandlerTimesOut(r) ==
  /\ "deadline" \in Faults
  /\ stage[r] = "handler"
  /\ orphans[JobOf[r]] < MaxOrphans
  /\ abandoned' = abandoned \union {JobOf[r]}
  /\ orphans' = [orphans EXCEPT ![JobOf[r]] = @ + 1]
  /\ LastAttempt(r)
  /\ UNCHANGED <<poolVars, trigger, cache>>

OrphanSettles(j) ==
  /\ orphans[j] > 0
  /\ orphans' = [orphans EXCEPT ![j] = @ - 1]
  /\ Forget(j)
  /\ UNCHANGED <<poolVars, stage, trigger, attempt, cache>>

(* The outcome of the run is written over the job's state. *)
RecordOutcome(r) ==
  /\ stage[r] = "record"
  /\ cache' = [cache EXCEPT ![JobOf[r]].running = FALSE]
  /\ Goto(r, "settled")
  /\ UNCHANGED <<poolVars, trigger, attempt, abandoned, orphans>>

(* The work has returned, or its last persistRuntime threw. *)
LeavePool(r) ==
  /\ stage[r] = "settled"
  /\ Finish(r)
  /\ Goto(r, "idle")
  /\ UNCHANGED <<trigger, attempt, cache, abandoned, orphans>>

-----------------------------------------------------------------------------
(* recordSkippedScheduleExecution: a slot missed while the timers were      *)
(* frozen, not recovered, is written over the job's derived state.          *)
RecordSkipped(j) ==
  /\ "missed" \in Faults
  /\ cache' = [cache EXCEPT ![j].running = Running(j)]
  /\ UNCHANGED <<poolVars, stage, trigger, attempt, abandoned, orphans>>

(* catchUpMissedRunsOnStartup, recovery disabled: the same record, written  *)
(* with running: false after an await in which the job may have started.    *)
RecordMissedAtBoot(j) ==
  /\ "boot" \in Faults
  /\ cache' = [cache EXCEPT ![j].running = FALSE]
  /\ UNCHANGED <<poolVars, stage, trigger, attempt, abandoned, orphans>>

Reconfigure(n) == SetLimit(n) /\ UNCHANGED runVars

(* What the scheduler does by itself once a trigger is under way. *)
Progress(r) ==
  \/ Coalesce(r) \/ Refuse(r) \/ ClaimManual(r) \/ AskHasWork(r)
  \/ ClaimAfterHasWork(r) \/ CoalesceAfterHasWork(r) \/ HasNoWork(r)
  \/ EnterPool(r) \/ MarkFails(r) \/ TakeSlot(r)
  \/ Execute(r) \/ ExecuteFails(r) \/ BeginAttempt(r)
  \/ HandlerSettles(r) \/ HandlerTimesOut(r)
  \/ RecordOutcome(r) \/ LeavePool(r)

SchedNext ==
  \/ \E r \in Runs : Progress(r) \/ \E k \in Triggers : Trigger(r, k)
  \/ \E j \in Jobs : OrphanSettles(j) \/ RecordSkipped(j) \/ RecordMissedAtBoot(j)
  \/ \E n \in Limits \ {limit} : Reconfigure(n)

SchedSpec == SchedInit /\ [][SchedNext]_schedVars

(* Awaits resume, timers fire and a handler settles or meets its deadline;  *)
(* nothing obliges an orphan to settle.                                     *)
FairSchedSpec == SchedSpec /\ \A r \in Runs : WF_schedVars(Progress(r))

-----------------------------------------------------------------------------
SchedTypeOK ==
  /\ stage \in [Runs -> Stages]
  /\ trigger \in [Runs -> {"none"} \union Triggers]
  /\ attempt \in [Runs -> 0..MaxAttempts]
  /\ cache \in [Jobs -> [queued : BOOLEAN, running : BOOLEAN]]
  /\ abandoned \subseteq Jobs
  /\ orphans \in [Jobs -> 0..MaxOrphans]

LiveHandlers(j) == {r \in Runs : JobOf[r] = j /\ stage[r] = "handler"}
Executing(j) == LiveHandlers(j) # {} \/ orphans[j] > 0

(* "A given job still never runs twice concurrently": counting the handlers *)
(* the scheduler has stopped waiting for.                                   *)
NeverTwice == \A j \in Jobs : Cardinality(LiveHandlers(j)) + orphans[j] <= 1

(* A job whose handler executes is reported in flight, so that every        *)
(* trigger coalesces into it.                                               *)
ExecutingIsBusy == \A j \in Jobs : Executing(j) => Busy(j)

(* No two claims of a job are under way at once: the check and the claim    *)
(* of one trigger are never split by those of another.                      *)
Claimed(r) == stage[r] \in {"mark", "pool", "start", "handler", "backoff", "record"}
OneClaim ==
  \A r, s \in Runs : Claimed(r) /\ Claimed(s) /\ JobOf[r] = JobOf[s] => r = s

(* "The job keeps reporting running until its abandoned handler actually    *)
(* settles", and not longer: a running job has a run or an orphan.          *)
RunningIsLive ==
  \A j \in Jobs : Running(j) =>
    Executing(j) \/ \E r \in Runs : JobOf[r] = j /\ Claimed(r)

(* "Accepted into the global FIFO but not executing yet": a queued job has  *)
(* a run on its way to the pool.                                            *)
QueuedIsLive ==
  \A j \in Jobs : cache[j].queued =>
    \E r \in Runs : JobOf[r] = j /\ stage[r] \in {"mark", "pool"}

(* The flags of a job, which guard it, never outlive what they stand for.   *)
FlagsAreLive == RunningIsLive /\ QueuedIsLive

(* "Serial within a worker": no two handlers of one worker execute at once  *)
(* while they keep their deadline, whatever happens to the flags.           *)
SerialHandlers ==
  \A r, s \in Runs :
    /\ stage[r] = "handler" /\ stage[s] = "handler"
    /\ WorkerOf[r] = WorkerOf[s]
    => r = s

(* A trigger that is over holds neither slot nor lock, whatever failed.     *)
NothingLeaked == \A r \in Runs : stage[r] = "idle" => pc[r] = "out"

(* Every accepted run gives its slot and lock back in the end, orphan or    *)
(* not: no runaway handler stalls the desk.                                 *)
EveryClaimEnds == \A r \in Runs : (stage[r] = "mark") ~> (stage[r] = "idle")
=============================================================================

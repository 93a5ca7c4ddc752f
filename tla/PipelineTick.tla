---------------------------- MODULE PipelineTick ----------------------------
(***************************************************************************)
(* The pipeline tick of the BFrost scheduler.  A tick asks every job, once, *)
(* whether it has work, dispatches those that have and waits for them.  A  *)
(* request during a tick queues one follow-up.  A run that produced items  *)
(* hands work to the next job of the chain and kicks a tick.               *)
(***************************************************************************)
EXTENDS Naturals, Sequences

CONSTANTS
  Jobs,      \* the jobs with hasWork, in the order of knownJobs
  NextOf,    \* the job a job's items open work for; itself for none
  Accidents, \* bound: arrivals of work from outside, ticks and starts that throw,
             \* stops, manual runs and runs that outrun their deadline
  Starts,    \* bound: calls of startScheduler that are in their awaits at a time
  Faults     \* "throw": a job is unregistered, or a read fails, in a tick or a start,
             \* "manual": jobs are triggered by hand,
             \* "deadline": handlers may outrun their time budget,
             \* "stop": the scheduler is stopped

JobSet == {Jobs[i] : i \in 1..Len(Jobs)}

ASSUME JobsAssumption == Jobs \in Seq(JobSet)
ASSUME NextOfAssumption == NextOf \in [JobSet -> JobSet]
ASSUME AccidentsAssumption == Accidents \in Nat
ASSUME StartsAssumption == Starts \in Nat \ {0}
ASSUME FaultsAssumption == Faults \subseteq {"throw", "manual", "deadline", "stop"}

VARIABLES
  work,        \* jobs whose hasWork would answer true
  handed,      \* those of them that a run of another job opened work for
  running,     \* jobs in flight
  orphans,     \* jobs whose abandoned handler still executes
  tick,        \* "none", "checking" or "settling": pipelineTickInFlight
  todo,        \* the jobs the tick has yet to check
  calls,       \* jobs whose runJob a tick called and that did not claim yet
  mine,        \* jobs whose call or run the tick in flight waits for
  queued,      \* pipelineTickQueued
  kick,        \* pipelineKickTimer
  sweep,       \* bootSweepTimer
  interval,    \* pipelineTickTimer
  started,     \* the scheduler is started
  starting,    \* calls of startScheduler that are in their awaits
  cutShort,    \* history: the last stop came during the awaits of a start
  accidents,     \* counts those
  calm           \* history: no tick threw, no run was manual or outran its time

jobVars == <<work, handed, running, orphans>>   \* the jobs and their runs
passVars == <<tick, todo, calls, mine>>         \* the tick in flight
timerVars == <<kick, sweep, interval>>
startVars == <<started, starting, cutShort>>    \* startScheduler and stopScheduler

tickVars == <<jobVars, passVars, timerVars, startVars, queued, accidents>>

TickInit ==
  /\ work \in SUBSET JobSet /\ handed = {}
  /\ running = {} /\ orphans = {}
  /\ tick = "none" /\ todo = <<>> /\ calls = {} /\ mine = {}
  /\ queued = FALSE /\ kick = FALSE /\ sweep = FALSE /\ interval = FALSE
  /\ started = FALSE /\ starting = 0 /\ cutShort = FALSE
  /\ accidents = 0
  /\ calm = TRUE

InFlight(j) == j \in running \union orphans

BeginTick ==
  /\ tick' = "checking"
  /\ todo' = Jobs
  /\ UNCHANGED <<calls, mine>>

-----------------------------------------------------------------------------
(* Faulty variants of steps below, none of them part of the specification.  *)

\* stopping leaves the queued follow-up
Bug_StopKeepsQueued ==
  /\ "stop" \in Faults
  /\ accidents < Accidents /\ accidents' = accidents + 1
  /\ started
  /\ started' = FALSE /\ UNCHANGED starting /\ cutShort' = (starting > 0)
  /\ kick' = FALSE /\ sweep' = FALSE /\ interval' = FALSE
  /\ UNCHANGED <<jobVars, passVars, queued>>

\* a run that produced items does not kick
Bug_KickMissing == UNCHANGED kick

\* an abandoned handler keeps its job in flight
Bug_OrphanSettlesKeepsGuard(j) == j \in orphans /\ UNCHANGED tickVars

-----------------------------------------------------------------------------
(* runPipelineTick: a request during a tick queues one follow-up.           *)
RunPipelineTick ==
  IF tick # "none"
  THEN queued' = TRUE /\ UNCHANGED <<tick, todo, calls, mine>>
  ELSE BeginTick /\ UNCHANGED queued

(* The interval timer; its callback does not look at started. *)
Interval ==
  /\ interval
  /\ RunPipelineTick
  /\ UNCHANGED <<jobVars, timerVars, startVars, accidents>>

(* scheduleBootPipelineSweep: one tick soon after startup. *)
BootSweep ==
  /\ sweep
  /\ sweep' = FALSE
  /\ IF started THEN RunPipelineTick ELSE UNCHANGED <<passVars, queued>>
  /\ UNCHANGED <<jobVars, kick, interval, startVars, accidents>>

KickFires ==
  /\ kick
  /\ kick' = FALSE
  /\ RunPipelineTick
  /\ UNCHANGED <<jobVars, sweep, interval, startVars, accidents>>

-----------------------------------------------------------------------------
(* doRunPipelineTick: the next job is asked whether it has work.            *)
CheckJob ==
  /\ tick = "checking" /\ todo # <<>>
  /\ todo' = Tail(todo)
  /\ LET j == Head(todo) IN
     IF j \in work /\ ~InFlight(j)
     THEN calls' = calls \union {j} /\ mine' = mine \union {j}
     ELSE UNCHANGED <<calls, mine>>
  /\ UNCHANGED <<jobVars, tick, queued, timerVars, startVars, accidents>>

AllChecked ==
  /\ tick = "checking" /\ todo = <<>>
  /\ tick' = "settling"
  /\ UNCHANGED <<jobVars, todo, calls, mine, queued, timerVars, startVars, accidents>>

(* The handler of j begins, and reads the work that is there. *)
Begin(j) ==
  /\ running' = running \union {j}
  /\ work' = work \ {j}
  /\ handed' = handed \ {j}

(* runJob, which the tick called, asks again and claims the job ...          *)
RunJobClaims(j) ==
  /\ j \in calls
  /\ j \in work /\ ~InFlight(j)
  /\ calls' = calls \ {j}
  /\ Begin(j)
  /\ UNCHANGED <<orphans, tick, todo, mine, queued, timerVars, startVars, accidents>>

(* ... or finds no work or the job in flight, which is no error. *)
RunJobDeclines(j) ==
  /\ j \in calls
  /\ j \notin work \/ InFlight(j)
  /\ calls' = calls \ {j} /\ mine' = mine \ {j}
  /\ UNCHANGED <<jobVars, tick, todo, queued, timerVars, startVars, accidents>>

(* Every run the tick called has settled.  The call that began the tick     *)
(* resumes before any timer can fire and begins the follow-up, if queued.   *)
TickEnds ==
  /\ tick = "settling" /\ mine = {}
  /\ queued' = FALSE
  /\ IF queued THEN BeginTick
     ELSE tick' = "none" /\ UNCHANGED <<todo, calls, mine>>
  /\ UNCHANGED <<jobVars, timerVars, startVars, accidents>>

(* The tick throws: getRegisteredWorkerJob of a job that is gone, settings  *)
(* that cannot be read.  What it called goes on; the call that began it     *)
(* throws as well.                                                          *)
TickThrows ==
  /\ "throw" \in Faults
  /\ tick = "checking" /\ accidents < Accidents
  /\ tick' = "none" /\ todo' = <<>> /\ mine' = {}
  /\ accidents' = accidents + 1
  /\ UNCHANGED <<jobVars, calls, queued, timerVars, startVars>>

-----------------------------------------------------------------------------
(* A run settles; the tick waits no longer, unless its own call of the job  *)
(* is still to come.                                                        *)
Leave(j) ==
  /\ running' = running \ {j}
  /\ mine' = IF j \in calls THEN mine ELSE mine \ {j}

Manual(j) ==
  /\ "manual" \in Faults
  /\ accidents < Accidents /\ accidents' = accidents + 1
  /\ ~InFlight(j)
  /\ Begin(j)
  /\ UNCHANGED <<orphans, passVars, queued, timerVars, startVars>>

(* schedulePipelineKick: one timer, and none once the scheduler is stopped. *)
SchedulePipelineKick == kick' = (kick \/ started)

(* A run succeeds with items and opens work for the next job of the chain.  *)
RunProduces(j) ==
  /\ j \in running /\ NextOf[j] # j
  /\ Leave(j)
  /\ work' = work \union {NextOf[j]}
  /\ handed' = handed \union {NextOf[j]}
  /\ SchedulePipelineKick
  /\ UNCHANGED <<orphans, tick, todo, calls, queued, sweep, interval, startVars, accidents>>

(* A run fails, or succeeds without items. *)
RunEnds(j) ==
  /\ j \in running
  /\ Leave(j)
  /\ UNCHANGED <<work, handed, orphans, tick, todo, calls, queued, timerVars, startVars,
                 accidents>>

RunTimesOut(j) ==
  /\ "deadline" \in Faults
  /\ accidents < Accidents /\ accidents' = accidents + 1
  /\ j \in running
  /\ Leave(j)
  /\ orphans' = orphans \union {j}
  /\ UNCHANGED <<work, handed, tick, todo, calls, queued, timerVars, startVars>>

OrphanSettles(j) ==
  /\ j \in orphans
  /\ orphans' = orphans \ {j}
  /\ UNCHANGED <<work, handed, running, passVars, queued, timerVars, startVars, accidents>>

(* Work that no run opened: a new day, a reply, an upload. *)
Arrive(j) ==
  /\ accidents < Accidents
  /\ accidents' = accidents + 1
  /\ work' = work \union {j}
  /\ UNCHANGED <<handed, running, orphans, passVars, queued, timerVars, startVars>>

(* startScheduler marks the scheduler started and begins its awaits: the    *)
(* runtime, the abandoned runs, the schedules, the expired items.           *)
StartScheduler ==
  /\ ~started /\ starting < Starts
  /\ started' = TRUE /\ starting' = starting + 1
  /\ UNCHANGED <<jobVars, passVars, queued, timerVars, cutShort, accidents>>

(* The awaits are over: the timers are set, on a scheduler stopped in the   *)
(* meantime as well.                                                        *)
StartTimers ==
  /\ starting > 0
  /\ starting' = starting - 1
  /\ interval' = TRUE /\ sweep' = TRUE
  /\ UNCHANGED <<jobVars, passVars, queued, kick, started, cutShort, accidents>>

(* stopScheduler clears the timers and the queued follow-up.                *)
StopScheduler ==
  /\ started' = FALSE
  /\ kick' = FALSE /\ sweep' = FALSE /\ interval' = FALSE
  /\ queued' = FALSE
  /\ cutShort' = (starting' > 0)

Stop ==
  /\ "stop" \in Faults
  /\ accidents < Accidents /\ accidents' = accidents + 1
  /\ started
  /\ UNCHANGED starting
  /\ StopScheduler
  /\ UNCHANGED <<jobVars, passVars>>

(* One of the awaits throws; main stops what is started before it exits.    *)
StartFails ==
  /\ "throw" \in Faults
  /\ accidents < Accidents /\ accidents' = accidents + 1
  /\ starting > 0
  /\ starting' = starting - 1
  /\ IF started THEN StopScheduler ELSE UNCHANGED <<timerVars, queued, started, cutShort>>
  /\ UNCHANGED <<jobVars, passVars>>

-----------------------------------------------------------------------------
TickProgress ==
  \/ BootSweep \/ KickFires \/ CheckJob \/ AllChecked \/ TickEnds
  \/ \E j \in JobSet : RunJobClaims(j) \/ RunJobDeclines(j)

RunProgress(j) == RunProduces(j) \/ RunEnds(j) \/ RunTimesOut(j)

Ordinary ==
  \/ StartScheduler \/ StartTimers \/ StartFails \/ Stop \/ TickProgress \/ Interval
  \/ \E j \in JobSet : RunProduces(j) \/ RunEnds(j) \/ OrphanSettles(j) \/ Arrive(j)

Disturbance == TickThrows \/ \E j \in JobSet : Manual(j) \/ RunTimesOut(j)

TickNext ==
  \/ Ordinary /\ UNCHANGED calm
  \/ Disturbance /\ calm' = FALSE

TickSpec == TickInit /\ [][TickNext]_<<tickVars, calm>>

(* Timers fire, awaits resume, and a run ends or times out.  The interval   *)
(* timer is left out: a property that needs it says so.                     *)
TickFairness ==
  /\ WF_tickVars(StartTimers \/ StartFails)
  /\ WF_tickVars(BootSweep) /\ WF_tickVars(KickFires)
  /\ WF_tickVars(CheckJob \/ AllChecked \/ TickEnds)
  /\ \A j \in JobSet : /\ WF_tickVars(RunJobClaims(j) \/ RunJobDeclines(j))
                       /\ WF_tickVars(RunProgress(j))

FairTickSpec == TickSpec /\ TickFairness

-----------------------------------------------------------------------------
TickTypeOK ==
  /\ handed \subseteq work /\ work \subseteq JobSet
  /\ running \subseteq JobSet /\ orphans \subseteq JobSet
  /\ tick \in {"none", "checking", "settling"}
  /\ todo \in Seq(JobSet) /\ (todo # <<>> => tick = "checking")
  /\ calls \subseteq JobSet /\ mine \subseteq running \union calls
  /\ {queued, kick, sweep, interval, started, cutShort} \subseteq BOOLEAN
  /\ starting \in 0..Starts
  /\ accidents \in 0..Accidents /\ calm \in BOOLEAN

(* "A follow-up tick requested during a tick that is still settling must    *)
(* not fire against a stopped scheduler", and no other tick may.  A stop    *)
(* during the awaits of a start is excepted: the start sets the interval    *)
(* afterwards, without a look at started, and it goes on ticking.           *)
NoTickAfterStop ==
  [][~started /\ ~cutShort => (todo' # Jobs \/ todo = Jobs)]_tickVars

(* "The chain cascades within seconds": work opened by a run is picked up   *)
(* without waiting for the interval, as long as nothing but ticks runs jobs.*)
Cascades ==
  []calm => \A j \in JobSet :
              (j \in handed /\ started) ~> (j \notin handed \/ ~started)

(* What the kicks miss, the interval picks up, if it goes on and abandoned  *)
(* handlers settle in the end.                                              *)
PickedUp ==
  /\ WF_tickVars(Interval)
  /\ \A j \in JobSet : WF_tickVars(OrphanSettles(j))
  => \A j \in JobSet : (j \in work /\ started) ~> (j \notin work \/ ~started)
=============================================================================

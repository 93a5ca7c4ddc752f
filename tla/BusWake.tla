------------------------------- MODULE BusWake -------------------------------
(***************************************************************************)
(* Event-driven wakes of one BFrost job: an item of a type the job         *)
(* declares in wakeOn raises a requested version, a debounce timer starts  *)
(* runBusWake, which runs the job and marks the version handled.  A wake   *)
(* that finds the job in flight leaves its version unhandled, and the end  *)
(* of the pass in flight is to schedule it again.                          *)
(***************************************************************************)
EXTENDS Naturals

CONSTANTS
  Wakes,         \* calls of runBusWake in progress at once (a bound)
  Others,        \* runs of the job that no wake started
  MaxPublished,  \* bound: items published
  WakeFaults         \* "deadline": a handler may outrun its time budget,
                 \* "store": the last write of a run may fail,
                 \* "disable": the operator disables and enables the job

ASSUME WakesAssumption == Wakes \cap Others = {}
ASSUME MaxPublishedAssumption == MaxPublished \in Nat
ASSUME WakeFaultsAssumption == WakeFaults \subseteq {"deadline", "store", "disable"}

VARIABLES
  waiting,    \* an item is on the bus that no pass of the job has read
  requested,  \* busWakeRequestedVersion
  handled,    \* busWakeHandledVersion
  timer,      \* busWakeTimers has a timer for the job
  version,    \* the version each wake read when it began
  stage,      \* where each wake or other run is
  orphan,     \* the job has an abandoned handler
  enabled,    \* the job and its worker are enabled
  unharmed        \* history: no deadline passed, no write failed, nothing was disabled

wakeVars == <<waiting, requested, handled, timer, version, stage, orphan, enabled>>

Procs == Wakes \union Others

WakeStages == {"idle",
               "settings",  \* awaits the settings
               "job",       \* awaits the state of the worker
               "runJob",    \* runJob awaits the state of the worker
               "hasWork",   \* awaits hasWork
               "yes",       \* hasWork saw work
               "no",        \* hasWork saw none
               "queued", "running",
               "over"}      \* flags cleared; awaits the last write

WakeInit ==
  /\ waiting = FALSE /\ timer = FALSE /\ orphan = FALSE /\ enabled = TRUE
  /\ requested = 0 /\ handled = 0
  /\ unharmed = TRUE
  /\ version = [p \in Procs |-> 0]
  /\ stage = [p \in Procs |-> "idle"]

Goto(p, s) == stage' = [stage EXCEPT ![p] = s]
Busy == orphan \/ \E p \in Procs : stage[p] \in {"queued", "running"}

(* schedulePendingBusWake: at most one timer, and none for a version that   *)
(* was handled.                                                             *)
Latch == timer' = (timer \/ requested > handled)

-----------------------------------------------------------------------------
(* Faulty variants of steps below, none of them part of the specification.  *)

\* a wake that finds the job in flight marks its version handled
Bug_LookAtJobHandles(p) ==
  /\ stage[p] = "job"
  /\ \/ /\ Busy
        /\ handled' = version[p]
        /\ Goto(p, "idle")
     \/ /\ ~Busy
        /\ Goto(p, "runJob")
        /\ UNCHANGED handled
  /\ UNCHANGED <<waiting, requested, timer, version, orphan, enabled>>

\* runJob refuses an enabled worker in place of a disabled one
Bug_RunJobThrowsEnabled(p) ==
  /\ stage[p] \in {"runJob", "yes"}
  /\ \/ Busy
     \/ stage[p] = "runJob" /\ enabled
  /\ Latch
  /\ Goto(p, "idle")
  /\ UNCHANGED <<waiting, requested, handled, version, orphan, enabled>>

\* the end of a pass does not look for a pending wake
Bug_RunSettlesWithoutLatch(p) ==
  /\ stage[p] = "over"
  /\ handled' = IF p \in Wakes THEN version[p] ELSE handled
  /\ Goto(p, "idle")
  /\ UNCHANGED <<waiting, requested, timer, version, orphan, enabled>>

\* a handler that rejects late leaves its job in flight
Bug_HandlerSettlesKeepsGuard == orphan /\ UNCHANGED wakeVars

-----------------------------------------------------------------------------
(* publishItem stores the item and emits; the subscription of startBusWake  *)
(* calls scheduleBusWake.                                                   *)
Publish ==
  /\ requested < MaxPublished
  /\ waiting' = TRUE
  /\ requested' = requested + 1
  /\ timer' = TRUE
  /\ UNCHANGED <<handled, version, stage, orphan, enabled>>

(* The debounce timer fires: runBusWake reads the version, or has nothing   *)
(* to do.                                                                   *)
WakeFires(p) ==
  /\ timer /\ stage[p] = "idle"
  /\ timer' = FALSE
  /\ \/ /\ requested > handled
        /\ version' = [version EXCEPT ![p] = requested]
        /\ Goto(p, "settings")
     \/ /\ requested <= handled
        /\ UNCHANGED <<version, stage>>
  /\ UNCHANGED <<waiting, requested, handled, orphan, enabled>>

(* A disabled job or worker: the version is done with. *)
LookAtSettings(p) ==
  /\ stage[p] = "settings"
  /\ \/ /\ ~enabled
        /\ handled' = version[p]
        /\ Goto(p, "idle")
     \/ /\ enabled
        /\ Goto(p, "job")
        /\ UNCHANGED handled
  /\ UNCHANGED <<waiting, requested, timer, version, orphan, enabled>>

(* The job is in flight: return, the version stays unhandled.               *)
LookAtJob(p) ==
  /\ stage[p] = "job"
  /\ \/ Busy /\ Goto(p, "idle")
     \/ ~Busy /\ Goto(p, "runJob")
  /\ UNCHANGED <<waiting, requested, handled, timer, version, orphan, enabled>>

(* JobBusyError, or the worker was disabled: the version stays unhandled    *)
(* and the finally block schedules it again.                                *)
RunJobThrows(p) ==
  /\ stage[p] \in {"runJob", "yes"}
  /\ \/ Busy
     \/ stage[p] = "runJob" /\ ~enabled
  /\ Latch
  /\ Goto(p, "idle")
  /\ UNCHANGED <<waiting, requested, handled, version, orphan, enabled>>

AskHasWork(p) ==
  /\ stage[p] = "runJob"
  /\ ~Busy /\ enabled
  /\ Goto(p, "hasWork")
  /\ UNCHANGED <<waiting, requested, handled, timer, version, orphan, enabled>>

(* hasWork looks at the bus; when it throws the job runs anyway.            *)
AnswerHasWork(p) ==
  /\ stage[p] = "hasWork"
  /\ Goto(p, "yes") \/ (~waiting /\ Goto(p, "no"))
  /\ UNCHANGED <<waiting, requested, handled, timer, version, orphan, enabled>>

(* runJob returned: the version is handled, whether or not the job ran, and *)
(* one requested meanwhile is scheduled.                                    *)
WakeDone(p) ==
  /\ handled' = version[p]
  /\ timer' = (timer \/ requested > version[p])
  /\ Goto(p, "idle")

NothingToDo(p) ==
  /\ stage[p] = "no"
  /\ WakeDone(p)
  /\ UNCHANGED <<waiting, requested, version, orphan, enabled>>

Claim(p) ==
  /\ stage[p] = "yes"
  /\ ~Busy
  /\ Goto(p, "queued")
  /\ UNCHANGED <<waiting, requested, handled, timer, version, orphan, enabled>>

-----------------------------------------------------------------------------
(* Another trigger runs the job: a manual one at any time ... *)
OtherClaims(p) ==
  /\ stage[p] = "idle"
  /\ ~Busy /\ enabled
  /\ Goto(p, "queued")
  /\ UNCHANGED <<waiting, requested, handled, timer, version, orphan, enabled>>

(* ... and the periodic pipeline tick when the job has work.                *)
TickClaims(p) == waiting /\ OtherClaims(p)

(* The run gets the lock of its worker; the handler reads what is there.    *)
Start(p) ==
  /\ stage[p] = "queued"
  /\ \A q \in Procs : stage[q] \notin {"running", "over"}
  /\ waiting' = FALSE
  /\ Goto(p, "running")
  /\ UNCHANGED <<requested, handled, timer, version, orphan, enabled>>

WorkEnds(p) ==
  /\ stage[p] = "running"
  /\ Goto(p, "over")
  /\ UNCHANGED <<waiting, requested, handled, timer, version, orphan, enabled>>

(* The deadline abandons the handler; the job stays in flight.              *)
WorkTimesOut(p) ==
  /\ "deadline" \in WakeFaults
  /\ stage[p] = "running"
  /\ Goto(p, "over")
  /\ orphan' = TRUE
  /\ UNCHANGED <<waiting, requested, handled, timer, version, enabled>>

(* The abandoned handler settles: forget() lifts the guard.                 *)
HandlerSettles ==
  /\ orphan
  /\ orphan' = FALSE
  /\ UNCHANGED <<waiting, requested, handled, timer, version, stage, enabled>>

(* The end of runJobWork looks for a pending wake; a wake's own call then   *)
(* returns from runJob.                                                     *)
WorkSettles(p) ==
  /\ stage[p] = "over"
  /\ Latch
  /\ handled' = IF p \in Wakes THEN version[p] ELSE handled
  /\ Goto(p, "idle")
  /\ UNCHANGED <<waiting, requested, version, orphan, enabled>>

(* persistRuntime threw: enqueueJobExecution swallows it, so that a wake    *)
(* still sees its run as done.                                              *)
WorkSettlesUnsaved(p) ==
  /\ "store" \in WakeFaults
  /\ stage[p] = "over"
  /\ IF p \in Wakes THEN WakeDone(p) ELSE Goto(p, "idle") /\ UNCHANGED <<handled, timer>>
  /\ UNCHANGED <<waiting, requested, version, orphan, enabled>>

SetEnabled ==
  /\ "disable" \in WakeFaults
  /\ enabled' = ~enabled
  /\ UNCHANGED <<waiting, requested, handled, timer, version, stage, orphan>>

-----------------------------------------------------------------------------
WakeProgress(p) ==
  \/ LookAtSettings(p) \/ LookAtJob(p) \/ RunJobThrows(p) \/ AskHasWork(p)
  \/ AnswerHasWork(p) \/ NothingToDo(p) \/ Claim(p)

WorkProgress(p) ==
  Start(p) \/ WorkEnds(p) \/ WorkTimesOut(p) \/ WorkSettles(p) \/ WorkSettlesUnsaved(p)

UsualStep ==
  \/ Publish \/ HandlerSettles
  \/ \E p \in Wakes : WakeFires(p) \/ WakeProgress(p)
  \/ \E p \in Others : OtherClaims(p)
  \/ \E p \in Procs : Start(p) \/ WorkEnds(p) \/ WorkSettles(p)

Accident == SetEnabled \/ \E p \in Procs : WorkTimesOut(p) \/ WorkSettlesUnsaved(p)

WakeNext ==
  \/ UsualStep /\ UNCHANGED unharmed
  \/ Accident /\ unharmed' = FALSE

WakeSpec == WakeInit /\ [][WakeNext]_<<wakeVars, unharmed>>

(* Timers fire, awaits resume, a run ends or times out.                     *)
WakeFairness ==
  /\ WF_wakeVars(\E p \in Wakes : WakeFires(p))
  /\ \A p \in Wakes : WF_wakeVars(WakeProgress(p))
  /\ \A p \in Procs : WF_wakeVars(WorkProgress(p))

FairWakeSpec == WakeSpec /\ WakeFairness

-----------------------------------------------------------------------------
WakeTypeOK ==
  /\ waiting \in BOOLEAN /\ timer \in BOOLEAN /\ orphan \in BOOLEAN
  /\ enabled \in BOOLEAN /\ unharmed \in BOOLEAN
  /\ requested \in 0..MaxPublished /\ handled \in 0..MaxPublished
  /\ version \in [Procs -> 0..MaxPublished]
  /\ stage \in [Procs -> WakeStages]

(* "An item published during the pass cannot be lost": while an item waits, *)
(* a timer, a wake or a run is there that will look at the job again.  This *)
(* needs a job that nothing went wrong for: an abandoned handler, a failed  *)
(* write or a job disabled for a moment can leave an item to the tick.      *)
ItemNotForgotten == unharmed => (waiting => timer \/ \E p \in Procs : stage[p] # "idle")

(* The wakes alone get an item read: without the tick, and without a run of *)
(* another trigger.                                                         *)
WakesDeliver == []unharmed => (waiting ~> ~waiting)

(* With the interval timer of the tick, which never stops, an item is read  *)
(* after every accident, unless the job stays disabled or its abandoned     *)
(* handler never settles.                                                   *)
TickDelivers ==
  /\ WF_wakeVars(HandlerSettles)
  /\ WF_wakeVars(\E p \in Others : TickClaims(p))
  /\ <>[]enabled
  => (waiting ~> ~waiting)
=============================================================================

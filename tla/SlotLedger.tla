------------------------------ MODULE SlotLedger ------------------------------
(***************************************************************************)
(* Which scheduled slots of a job are run, and which are recorded as       *)
(* missed.  A slot comes up while the process is up, while the machine     *)
(* sleeps (the timers are frozen and node-cron reports it afterwards) or   *)
(* while the process is down (the next start looks back).  All three paths *)
(* claim the slot in the table scheduler_execution_locks before they act.  *)
(***************************************************************************)
EXTENDS Naturals

CONSTANTS
  Slots,      \* the times at which the cron expression of the job matches
  Horizon,    \* bound: the last point in time
  Lookback,   \* DEFAULT_LOOKBACK_MS
  Base,       \* CATCHUP_WINDOW_MS
  MaxWindow,  \* MAX_CATCHUP_WINDOW_MS
  Retention,  \* LOCK_RETENTION_MS
  Patience,   \* bound: time a handler takes to settle its slot, sleep included
  Handlers,   \* bound: slots being handled at a time
  Recovery,   \* values of automaticMissedRunRecovery that occur: "on", "off"
  Faults      \* "crash": the process may be killed

ASSUME TimesAssumption ==
  /\ Horizon \in Nat /\ Slots \subseteq Nat \ {0}
  /\ \A t \in 0..Horizon : \E s \in Slots : s > t
ASSUME WindowsAssumption ==
  /\ {Lookback, Base, MaxWindow, Retention, Patience} \subseteq Nat
  /\ MaxWindow + Patience <= Retention
ASSUME ChoicesAssumption == Recovery \subseteq {"on", "off"} /\ Faults \subseteq {"crash"}

VARIABLES
  now,
  process,   \* "down", "starting" (schedules loaded) or "up"
  expected,  \* the slot that the job's task waits for
  loaded,    \* when that task was created
  locks,     \* scheduler_execution_locks: the slots in it
  handler,   \* the slots being handled
  ran,       \* how often each slot was handed to runJob: "no", "once", "twice"
  missed,    \* the slots recorded as missed
  lost       \* history: slots claimed by a process that died before it saw to them

slotVars == <<now, process, expected, loaded, locks, handler, ran, missed, lost>>

NoSlot == 0
Idle == [stage |-> "idle", kind |-> "fire", slot |-> NoSlot, since |-> 0]

SlotInit ==
  /\ now = 0 /\ process = "down" /\ expected = NoSlot /\ loaded = 0
  /\ locks = {} /\ handler = [h \in Handlers |-> Idle]
  /\ ran = [s \in Slots |-> "no"] /\ missed = {} /\ lost = {}

-----------------------------------------------------------------------------
(* getNextCronMatch: the first match after t.                               *)
IsNext(s, t) == s > t /\ \A r \in Slots : r > t => s <= r

(* The slot that elapsed last.                                              *)
IsLast(s, t) == s < t /\ \A r \in Slots : r < t => r <= s

(* getPreviousCronMatch: the last match before t, unless the lookback ends  *)
(* after it.                                                                *)
Bug_PreviousMatchFirst(s, t) ==
  s < t /\ s + Lookback > t /\ \A r \in Slots : r < t /\ r + Lookback > t => s <= r

PreviousMatch(s, t) == IsLast(s, t) /\ s + Lookback > t

(* The lookback from the next slot reaches the slot.                        *)
Near(s) == \E n \in Slots : IsNext(n, s) /\ n < s + Lookback

NoMatchBefore(t) == \A s \in Slots : s < t => s + Lookback <= t

(* isRecoverableSlotAge: not older than half the interval to the next slot, *)
(* clamped to Base and MaxWindow.                                           *)
Recoverable(s, t) ==
  /\ s < t /\ t <= s + MaxWindow
  /\ \/ t <= s + Base
     \/ \E n \in Slots : IsNext(n, s) /\ 2 * (t - s) <= n - s

Handle(h, kind, s) ==
  handler' = [handler EXCEPT ![h] =
                [stage |-> "claim", kind |-> kind, slot |-> s, since |-> now]]

(* The task of the job waits for the next slot.                             *)
Load == loaded' = now /\ \E s \in Slots : IsNext(s, now) /\ expected' = s

-----------------------------------------------------------------------------
(* Time passes, whether or not the machine is awake.                        *)
Tick ==
  /\ now < Horizon
  /\ \A h \in Handlers : handler[h].stage # "idle" => now < handler[h].since + Patience
  /\ now' = now + 1
  /\ UNCHANGED <<process, expected, loaded, locks, handler, ran, missed, lost>>

(* startScheduler loads the schedules ...                                   *)
Start ==
  /\ process = "down"
  /\ process' = "starting"
  /\ Load
  /\ UNCHANGED <<now, locks, handler, ran, missed, lost>>

(* ... and once the channels are up, catchUpMissedRunsOnStartup looks back. *)
CatchUp(h) ==
  /\ process = "starting" /\ handler[h].stage = "idle"
  /\ process' = "up"
  /\ \/ \E s \in Slots : PreviousMatch(s, now) /\ Recoverable(s, now) /\ Handle(h, "boot", s)
     \/ /\ ~ \E s \in Slots : PreviousMatch(s, now) /\ Recoverable(s, now)
        /\ UNCHANGED handler
  /\ UNCHANGED <<now, expected, loaded, locks, ran, missed, lost>>

(* reloadSchedules destroys the task and creates another one.               *)
Reload ==
  /\ process # "down"
  /\ Load
  /\ UNCHANGED <<now, process, locks, handler, ran, missed, lost>>

(* node-cron calls the task at its slot ...                                 *)
Fire(h) ==
  /\ process # "down" /\ expected = now /\ handler[h].stage = "idle"
  /\ Handle(h, "fire", expected)
  /\ \E next \in Slots : IsNext(next, expected) /\ expected' = next
  /\ UNCHANGED <<now, process, loaded, locks, ran, missed, lost>>

\* the date of the report is taken for the missed slot
Bug_MissedTakesDate(h) ==
  /\ process # "down" /\ expected < now /\ handler[h].stage = "idle"
  /\ \E next \in Slots :
       IsNext(next, expected) /\ expected' = next /\ Handle(h, "missed", next)
  /\ UNCHANGED <<now, process, loaded, locks, ran, missed, lost>>

(* ... or reports, later, that it was missed, with the date of the next     *)
(* slot.  recordSkippedScheduleExecution looks back from there for the slot *)
(* that was missed, and ignores the report when there is none and the date  *)
(* is yet to come.                                                          *)
Missed(h) ==
  /\ process # "down" /\ expected < now /\ handler[h].stage = "idle"
  /\ \E next \in Slots :
       /\ IsNext(next, expected) /\ expected' = next
       /\ \/ \E s \in Slots : PreviousMatch(s, next) /\ Handle(h, "missed", s)
          \/ NoMatchBefore(next) /\ next <= now /\ Handle(h, "missed", next)
          \/ NoMatchBefore(next) /\ next > now /\ UNCHANGED handler
  /\ UNCHANGED <<now, process, loaded, locks, ran, missed, lost>>

-----------------------------------------------------------------------------
(* acquireSchedulerExecutionLock: drops what is older than the retention,   *)
(* then INSERT OR IGNORE.                                                   *)
Kept == {s \in locks : s + Retention >= now}

\* INSERT OR REPLACE, which always changes a row
Bug_ClaimReplaces(h) ==
  /\ handler[h].stage = "claim"
  /\ locks' = Kept \union {handler[h].slot}
  /\ handler' = [handler EXCEPT ![h].stage = "claimed"]
  /\ UNCHANGED <<now, process, expected, loaded, ran, missed, lost>>

Claim(h) ==
  /\ handler[h].stage = "claim"
  /\ locks' = Kept \union {handler[h].slot}
  /\ handler' = [handler EXCEPT ![h] =
                   IF handler[h].slot \in Kept THEN Idle ELSE [@ EXCEPT !.stage = "claimed"]]
  /\ UNCHANGED <<now, process, expected, loaded, ran, missed, lost>>

Bound(h) == handler[h].kind = "fire"  \* runs whatever the settings are
MayRun(h) == Bound(h) \/ Recoverable(handler[h].slot, handler[h].since)

(* The slot is handed to runJob ...                                         *)
Run(h) ==
  /\ handler[h].stage = "claimed" /\ MayRun(h)
  /\ Bound(h) \/ "on" \in Recovery
  /\ ran' = [ran EXCEPT ![handler[h].slot] = IF @ = "no" THEN "once" ELSE "twice"]
  /\ handler' = [handler EXCEPT ![h] = Idle]
  /\ UNCHANGED <<now, process, expected, loaded, locks, missed, lost>>

(* ... or recorded as missed.                                               *)
\* only the report of a slot that could have been run is recorded
Bug_RecordForgetsStale(h) ==
  /\ handler[h].stage = "claimed" /\ ~Bound(h)
  /\ missed' = IF MayRun(h) THEN missed \union {handler[h].slot} ELSE missed
  /\ handler' = [handler EXCEPT ![h] = Idle]
  /\ UNCHANGED <<now, process, expected, loaded, locks, ran, lost>>

Record(h) ==
  /\ handler[h].stage = "claimed" /\ ~Bound(h)
  /\ ~MayRun(h) \/ "off" \in Recovery
  /\ missed' = missed \union {handler[h].slot}
  /\ handler' = [handler EXCEPT ![h] = Idle]
  /\ UNCHANGED <<now, process, expected, loaded, locks, ran, lost>>

(* The process dies, and with it whatever it was doing about a slot.        *)
Crash ==
  /\ "crash" \in Faults /\ process # "down"
  /\ process' = "down" /\ expected' = NoSlot
  /\ handler' = [h \in Handlers |-> Idle]
  /\ lost' = lost \union {handler[h].slot : h \in {g \in Handlers : handler[g].stage = "claimed"}}
  /\ UNCHANGED <<now, loaded, locks, ran, missed>>

SlotNext ==
  \/ Tick \/ Start \/ Reload \/ Crash
  \/ \E h \in Handlers :
       CatchUp(h) \/ Fire(h) \/ Missed(h) \/ Claim(h) \/ Run(h) \/ Record(h)

SlotSpec == SlotInit /\ [][SlotNext]_slotVars

-----------------------------------------------------------------------------
HandlerStates ==
  [stage : {"idle", "claim", "claimed"}, kind : {"fire", "missed", "boot"},
   slot : Slots \union {NoSlot}, since : Nat]

SlotTypeOK ==
  /\ now \in 0..Horizon
  /\ process \in {"down", "starting", "up"}
  /\ expected \in (IF process = "down" THEN {NoSlot} ELSE Slots) /\ loaded \in 0..Horizon
  /\ locks \subseteq Slots /\ missed \subseteq Slots /\ lost \subseteq Slots
  /\ handler \in [Handlers -> HandlerStates]
  /\ \A h \in Handlers : handler[h].stage # "idle" =>
       process # "down" /\ handler[h].slot \in Slots /\ handler[h].since <= now
  /\ ran \in [Slots -> {"no", "once", "twice"}]

(* "The per-slot execution lock makes this idempotent and mutually          *)
(* exclusive with the normal scheduled and node-cron missed paths, so a     *)
(* slot is never run twice."                                                *)
NeverRunTwice == \A s \in Slots : ran[s] # "twice"

(* A slot in the table "already ran (or was recorded as skipped)", or the   *)
(* process that claimed it is about to see to it, or died before it could.  *)
ClaimAccounted ==
  \A s \in locks \ lost :
    \/ ran[s] # "no" \/ s \in missed
    \/ \E h \in Handlers : handler[h].stage = "claimed" /\ handler[h].slot = s

(* "Always record the event first for full observability": no slot that     *)
(* comes up between the loading of the schedule and its next slot is passed *)
(* over, unless the schedule is loaded again, or the lookback of 48 hours   *)
(* is no longer than the gap to its next slot.                              *)
NoSlotDropped ==
  process # "down" =>
    \A s \in Slots : loaded < s /\ s < expected /\ Near(s) =>
      \/ ran[s] # "no" \/ s \in missed
      \/ \E h \in Handlers : handler[h].stage # "idle" /\ handler[h].slot = s

(* "we look at the single most recent scheduled slot and, if it elapsed     *)
(* within that job's catch-up window and was never executed, run it now":   *)
(* so it is within the 26 hours of every job, and within the wider window   *)
(* of a job whose slots are no further apart than the lookback reaches; it  *)
(* does not reach through the window of a weekly job.                       *)
BootRecovers ==
  [][process = "starting" /\ process' = "up" =>
       \A s \in Slots :
         /\ IsLast(s, now) /\ Recoverable(s, now) /\ s \notin locks
         /\ now <= s + Base \/ Near(s)
         => \E h \in Handlers : handler'[h].stage # "idle" /\ handler'[h].slot = s]_slotVars
=============================================================================

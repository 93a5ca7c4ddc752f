----------------------------- MODULE EventProofs -----------------------------
(***************************************************************************)
(* The two ways in which work reaches a job: an item that waits is not     *)
(* forgotten by the wakes (BusWake), and no tick begins once the scheduler *)
(* is stopped (PipelineTick).                                              *)
(***************************************************************************)
EXTENDS BusWake, PipelineTick, TLAPS

(* Versions only grow, and no wake has read one that was not requested.     *)
Versions ==
  /\ requested \in Nat /\ handled \in Nat /\ handled <= requested
  /\ version \in [Procs -> Nat] /\ \A p \in Procs : version[p] <= requested
  /\ stage \in [Procs -> WakeStages]
  /\ waiting \in BOOLEAN /\ timer \in BOOLEAN

(* An item that waits was published after whatever has handled a version    *)
(* read it, or is about to: so its own version is still to be handled.      *)
Unread(p) == p \in Wakes /\ stage[p] \in {"no", "running", "over"} => version[p] < requested

WakeInv ==
  /\ Versions
  /\ unharmed =>
       /\ enabled /\ ~orphan
       /\ waiting => handled < requested /\ \A p \in Procs : Unread(p)
       /\ waiting => timer \/ \E p \in Procs : stage[p] # "idle"

LEMMA VersionsStep == Versions /\ [WakeNext]_<<wakeVars, unharmed>> => Versions'
<1> SUFFICES ASSUME Versions, [WakeNext]_<<wakeVars, unharmed>> PROVE Versions'
  OBVIOUS
<1> USE DEF Versions
<1>1. ASSUME NEW p \in Procs, NEW s \in WakeStages, Goto(p, s) PROVE stage' \in [Procs -> WakeStages]
  BY <1>1 DEF Goto
<1>2. Wakes \subseteq Procs /\ Others \subseteq Procs
  BY DEF Procs
<1>3. {"idle", "settings", "job", "runJob", "hasWork", "yes", "no", "queued", "running",
        "over"} = WakeStages
  BY DEF WakeStages
<1> HIDE DEF Versions
<1>4. ASSUME NEW p \in Procs, NEW s \in WakeStages, Goto(p, s), requested' = requested,
             handled' \in {handled, version[p]}, version' \in {version,
               [version EXCEPT ![p] = requested]},
             waiting' \in BOOLEAN, timer' \in BOOLEAN
      PROVE  Versions'
  BY <1>1, <1>4 DEF Versions
<1>5. CASE Publish
  BY <1>5 DEF Publish, Versions
<1>6. CASE UNCHANGED wakeVars \/ HandlerSettles \/ SetEnabled
  BY <1>6 DEF wakeVars, HandlerSettles, SetEnabled, Versions
<1>7. Versions
  OBVIOUS
<1>8. waiting \in BOOLEAN /\ timer \in BOOLEAN /\ (Latch => timer' \in BOOLEAN)
  BY DEF Versions, Latch
<1>9. ASSUME NEW p \in Wakes, WakeFires(p) PROVE Versions'
  <2>1. CASE Goto(p, "settings")
    BY <1>2, <1>3, <1>4, <1>8, <1>9, <2>1 DEF WakeFires
  <2>2. CASE UNCHANGED <<version, stage>>
    BY <1>7, <1>9, <2>2 DEF WakeFires, Versions
  <2> QED
    BY <1>9, <2>1, <2>2 DEF WakeFires
<1>10. ASSUME NEW p \in Wakes, WakeProgress(p) PROVE Versions'
  BY <1>2, <1>3, <1>4, <1>8, <1>10
     DEF WakeProgress, LookAtSettings, LookAtJob, RunJobThrows, AskHasWork, AnswerHasWork, NothingToDo,
         WakeDone, Claim
<1>11. ASSUME NEW p \in Procs, OtherClaims(p) \/ WorkProgress(p) PROVE Versions'
  BY <1>3, <1>4, <1>8, <1>11
     DEF OtherClaims, WorkProgress, Start, WorkEnds, WorkTimesOut, WorkSettles, WorkSettlesUnsaved,
           WakeDone
<1> QED
  BY <1>2, <1>5, <1>6, <1>9, <1>10, <1>11 DEF WakeNext, UsualStep, Accident, WorkProgress, wakeVars

LEMMA VersionsInit == WakeInit => Versions
<1> SUFFICES ASSUME WakeInit PROVE Versions
  OBVIOUS
<1>1. /\ stage \in [Procs -> WakeStages]
      /\ version \in [Procs -> Nat] /\ \A p \in Procs : version[p] = 0
  BY DEF WakeInit, WakeStages
<1>2. requested \in Nat /\ handled \in Nat /\ handled <= requested /\ requested = 0
  BY DEF WakeInit
<1>3. waiting \in BOOLEAN /\ timer \in BOOLEAN
  BY Zenon DEF WakeInit
<1> QED
  BY <1>1, <1>2, <1>3 DEF Versions

LEMMA UnharmedStep ==
  ASSUME WakeInv, UsualStep, unharmed
  PROVE  /\ enabled' /\ ~orphan'
         /\ waiting' => handled' < requested' /\ \A p \in Procs : Unread(p)'
         /\ waiting' => timer' \/ \E p \in Procs : stage'[p] # "idle"
<1> DEFINE Goal ==
      /\ enabled' /\ ~orphan'
      /\ waiting' => handled' < requested' /\ \A p \in Procs : Unread(p)'
      /\ waiting' => timer' \/ \E p \in Procs : stage'[p] # "idle"
<1>1. /\ Versions /\ enabled /\ ~orphan
      /\ waiting => handled < requested /\ \A p \in Procs : Unread(p)
      /\ waiting => timer \/ \E p \in Procs : stage[p] # "idle"
  BY DEF WakeInv
<1>2. /\ stage \in [Procs -> WakeStages] /\ requested \in Nat /\ handled \in Nat
      /\ version \in [Procs -> Nat] /\ Wakes \subseteq Procs /\ Others \subseteq Procs
      /\ handled <= requested /\ \A p \in Procs : version[p] <= requested
  BY <1>1 DEF Versions, Procs
<1>3. ASSUME NEW p \in Procs, NEW s \in {"settings", "job", "runJob", "hasWork", "yes", "queued"},
               Goto(p, s),
             UNCHANGED <<requested, handled, waiting, enabled, orphan>>,
             version' \in {version, [version EXCEPT ![p] = requested]}
      PROVE  Goal
  BY <1>1, <1>2, <1>3 DEF Goto, Unread
<1>4. ASSUME NEW p \in Procs, Goto(p, "idle"), UNCHANGED <<requested, version, waiting, enabled,
               orphan>>,
             waiting => handled' < requested /\ (timer' \/ \E q \in Procs : q # p /\ stage[q] # "idle")
      PROVE  Goal
  <2>1. \A q \in Procs : q # p => stage'[q] = stage[q]
    BY <1>2, <1>4 DEF Goto
  <2>2. stage'[p] = "idle"
    BY <1>2, <1>4 DEF Goto
  <2> QED
    BY <1>1, <1>2, <1>4, <2>1, <2>2 DEF Unread
<1>5. ASSUME NEW p \in Procs, stage[p] \notin {"queued", "running"}, Busy
      PROVE  \E q \in Procs : q # p /\ stage[q] # "idle"
  BY <1>1, <1>5 DEF Busy
<1>6. CASE Publish
  <2>1. \A p \in Procs : version[p] < requested + 1
    BY <1>2
  <2> QED
    BY <1>1, <1>2, <1>6, <2>1 DEF Publish, Unread
<1>7. CASE HandlerSettles
  BY <1>1, <1>7 DEF HandlerSettles
<1>8. ASSUME NEW p \in Wakes, WakeFires(p) PROVE Goal
  <2>1. CASE requested > handled
    BY <1>2, <1>3, <1>8, <2>1 DEF WakeFires
  <2>2. CASE ~(requested > handled)
    BY <1>1, <1>2, <1>8, <2>2 DEF WakeFires
  <2> QED
    BY <2>1, <2>2
<1>9. ASSUME NEW p \in Wakes, WakeProgress(p) PROVE Goal
  <2>1. p \in Procs
    BY <1>2
  <2>2. CASE LookAtSettings(p)
    BY <1>1, <1>3, <2>1, <2>2 DEF LookAtSettings
  <2>3. CASE LookAtJob(p)
    BY <1>1, <1>3, <1>4, <1>5, <2>1, <2>3 DEF LookAtJob
  <2>4. CASE RunJobThrows(p)
    BY <1>1, <1>4, <1>5, <2>1, <2>4 DEF RunJobThrows
  <2>5. CASE AskHasWork(p) \/ Claim(p)
    BY <1>3, <2>1, <2>5 DEF AskHasWork, Claim
  <2>6. CASE AnswerHasWork(p)
    <3>1. CASE Goto(p, "yes")
      BY <1>3, <2>1, <2>6, <3>1 DEF AnswerHasWork
    <3>2. CASE ~waiting
      BY <1>1, <2>6, <3>2 DEF AnswerHasWork
    <3> QED
      BY <2>6, <3>1, <3>2 DEF AnswerHasWork
  <2>7. CASE NothingToDo(p)
    <3>1. waiting => version[p] < requested
      BY <1>1, <2>1, <2>7 DEF NothingToDo, Unread
    <3> QED
      BY <1>2, <1>4, <2>1, <2>7, <3>1 DEF NothingToDo, WakeDone
  <2> QED
    BY <1>9, <2>2, <2>3, <2>4, <2>5, <2>6, <2>7 DEF WakeProgress
<1>10. ASSUME NEW p \in Others, OtherClaims(p) PROVE Goal
  BY <1>2, <1>3, <1>10 DEF OtherClaims
<1>11. ASSUME NEW p \in Procs, Start(p) PROVE Goal
  BY <1>1, <1>11 DEF Start
<1>12. ASSUME NEW p \in Procs, WorkEnds(p) PROVE Goal
  <2>1. waiting => Unread(p)
    BY <1>1
  <2> QED
    BY <1>1, <1>2, <1>12, <2>1 DEF WorkEnds, Goto, Unread
<1>13. ASSUME NEW p \in Procs, WorkSettles(p) PROVE Goal
  <2>1. waiting /\ p \in Wakes => version[p] < requested
    BY <1>1, <1>13 DEF WorkSettles, Unread
  <2>2. waiting => timer'
    BY <1>1, <1>2, <1>13 DEF WorkSettles, Latch
  <2> QED
    BY <1>1, <1>4, <1>13, <2>1, <2>2 DEF WorkSettles
<1> QED
  BY <1>6, <1>7, <1>8, <1>9, <1>10, <1>11, <1>12, <1>13 DEF UsualStep

LEMMA WakeInvStep == WakeInv /\ [WakeNext]_<<wakeVars, unharmed>> => WakeInv'
<1> SUFFICES ASSUME WakeInv, [WakeNext]_<<wakeVars, unharmed>> PROVE WakeInv'
  OBVIOUS
<1>1. Versions'
  BY VersionsStep DEF WakeInv
<1>2. CASE UNCHANGED <<wakeVars, unharmed>>
  BY <1>2 DEF WakeInv, Versions, Unread, wakeVars
<1>3. CASE UsualStep /\ UNCHANGED unharmed
  BY <1>1, <1>3, UnharmedStep DEF WakeInv
<1>4. CASE Accident /\ unharmed' = FALSE
  BY <1>1, <1>4 DEF WakeInv
<1> QED
  BY <1>2, <1>3, <1>4 DEF WakeNext

(* "An item published during the pass cannot be lost": while nothing goes   *)
(* wrong with the job, an item that waits has a timer, a wake or a run that *)
(* will look at it, however wakes and other runs overlap                    *)
(* (scheduler.ts:1470).                                                     *)
THEOREM ItemsAreNotForgotten == WakeSpec => []ItemNotForgotten
<1>1. ASSUME WakeInit PROVE WakeInv
  <2>1. ~waiting /\ enabled /\ ~orphan
    BY <1>1, Zenon DEF WakeInit
  <2> QED
    BY <1>1, <2>1, VersionsInit, Zenon DEF WakeInv
<1>2. WakeInv => ItemNotForgotten
  BY DEF WakeInv, ItemNotForgotten
<1> QED
  BY <1>1, <1>2, WakeInvStep, PTL DEF WakeSpec

(* Types, and that a wake handles no version that was not published.        *)
WakeTypeInv == Versions /\ orphan \in BOOLEAN /\ enabled \in BOOLEAN /\ unharmed \in BOOLEAN
                        /\ requested <= MaxPublished

LEMMA WakeTypeStep == WakeTypeInv /\ [WakeNext]_<<wakeVars, unharmed>> => WakeTypeInv'
<1> SUFFICES ASSUME WakeTypeInv, [WakeNext]_<<wakeVars, unharmed>> PROVE WakeTypeInv'
  OBVIOUS
<1>1. Versions'
  BY VersionsStep DEF WakeTypeInv
<1>2. (unharmed \in BOOLEAN)'
  BY DEF WakeTypeInv, WakeNext
<1>3. UNCHANGED <<requested, orphan, enabled>> => WakeTypeInv'
  BY <1>1, <1>2, Zenon DEF WakeTypeInv
<1>4. CASE Publish
  <2>1. (requested <= MaxPublished)'
    BY <1>4, MaxPublishedAssumption DEF Publish, WakeTypeInv, Versions
  <2> QED
    BY <1>1, <1>2, <1>4, <2>1, Zenon DEF Publish, WakeTypeInv
<1>5. CASE HandlerSettles
  BY <1>1, <1>2, <1>5, Zenon DEF HandlerSettles, WakeTypeInv
<1>6. CASE SetEnabled
  <2>1. enabled' \in BOOLEAN
    BY <1>6, Zenon DEF SetEnabled
  <2> QED
    BY <1>1, <1>2, <1>6, <2>1, Zenon DEF SetEnabled, WakeTypeInv
<1>7. ASSUME NEW p \in Procs, WorkTimesOut(p) PROVE WakeTypeInv'
  BY <1>1, <1>2, <1>7, Zenon DEF WorkTimesOut, WakeTypeInv
<1>8. ASSUME NEW p, \/ WakeFires(p) \/ WakeProgress(p) \/ OtherClaims(p) \/ Start(p)
                    \/ WorkEnds(p) \/ WorkSettles(p) \/ WorkSettlesUnsaved(p)
      PROVE  WakeTypeInv'
  BY <1>3, <1>8, Zenon
     DEF WakeFires, WakeProgress, LookAtSettings, LookAtJob, RunJobThrows, AskHasWork, AnswerHasWork,
         NothingToDo, Claim, OtherClaims, Start, WorkEnds, WorkSettles, WorkSettlesUnsaved
<1>9. CASE UNCHANGED <<wakeVars, unharmed>>
  BY <1>3, <1>9, Zenon DEF wakeVars
<1> QED
  BY <1>4, <1>5, <1>6, <1>7, <1>8, <1>9, Zenon DEF WakeNext, UsualStep, Accident

(* Types, of the wakes.                                                     *)
THEOREM WakeTypeCorrect == WakeSpec => []WakeTypeOK
<1>1. ASSUME WakeInit PROVE WakeTypeInv
  <2>1. orphan \in BOOLEAN /\ enabled \in BOOLEAN /\ unharmed \in BOOLEAN
    BY <1>1, Zenon DEF WakeInit
  <2>2. requested <= MaxPublished
    BY <1>1, MaxPublishedAssumption DEF WakeInit
  <2> QED
    BY <1>1, <2>1, <2>2, VersionsInit, Zenon DEF WakeTypeInv
<1>2. ASSUME WakeTypeInv PROVE WakeTypeOK
  <2>1. \A n \in Nat : n <= requested => n \in 0..MaxPublished
    BY <1>2, MaxPublishedAssumption DEF WakeTypeInv, Versions
  <2> QED
    BY <1>2, <2>1 DEF WakeTypeInv, Versions, WakeTypeOK
<1> QED
  BY <1>1, <1>2, WakeTypeStep, PTL DEF WakeSpec

-----------------------------------------------------------------------------
(* What may begin a tick is there only while the scheduler is started, or   *)
(* after a stop that cut a start short, and a tick has no more jobs to      *)
(* check than there are.                                                    *)
Stopped == ~started /\ ~cutShort

StoppedInv ==
  /\ kick \in BOOLEAN /\ queued \in BOOLEAN /\ started \in BOOLEAN
  /\ starting \in Nat
  /\ kick => started
  /\ Stopped => ~queued /\ ~interval /\ starting = 0
  /\ todo \in Seq(JobSet) /\ Len(todo) <= Len(Jobs)

LEMMA TodoShrinks ==
  ASSUME NEW S, NEW t \in Seq(S), t # <<>>
  PROVE  Tail(t) \in Seq(S) /\ Len(Tail(t)) < Len(t)
OBVIOUS

LEMMA StoppedStep ==
  ASSUME StoppedInv, [TickNext]_<<tickVars, calm>>
  PROVE  StoppedInv' /\ (Stopped => todo' # Jobs \/ todo = Jobs)
<1> DEFINE Goal == StoppedInv' /\ (Stopped => todo' # Jobs \/ todo = Jobs)
<1>1. /\ Jobs \in Seq(JobSet) /\ Len(Jobs) \in Nat /\ todo \in Seq(JobSet) /\ Len(todo) <= Len(Jobs)
      /\ <<>> \in Seq(JobSet) /\ Len(<<>>) = 0
  BY JobsAssumption DEF StoppedInv
<1>2. todo' \in {todo, Jobs, <<>>} => todo' \in Seq(JobSet) /\ Len(todo') <= Len(Jobs)
  <2>1. CASE todo' = todo
    BY <1>1, <2>1
  <2>2. CASE todo' = Jobs
    BY <1>1, <2>2
  <2>3. CASE todo' = <<>>
    BY <1>1, <2>3
  <2> QED
    BY <2>1, <2>2, <2>3
<1>3. ASSUME ~Stopped, UNCHANGED <<started, cutShort, starting>>, queued' \in BOOLEAN,
             kick' \in {kick, FALSE}, todo' \in {todo, Jobs}
      PROVE  Goal
  <2>1. kick' \in BOOLEAN /\ (kick' => started')
    <3>1. kick \in BOOLEAN /\ (kick => started) /\ started' = started
      BY <1>3 DEF StoppedInv
    <3>2. CASE kick' = kick
      BY <3>1, <3>2, Zenon
    <3>3. CASE kick' = FALSE
      BY <3>3
    <3> QED
      BY <1>3, <3>2, <3>3
  <2>2. ~Stopped' /\ started' \in BOOLEAN /\ starting' \in Nat
    BY <1>3 DEF StoppedInv, Stopped
  <2> QED
    BY <1>2, <1>3, <2>1, <2>2 DEF StoppedInv
<1>4. RunPipelineTick => queued' \in BOOLEAN /\ todo' \in {todo, Jobs}
  BY DEF RunPipelineTick, BeginTick, StoppedInv
<1>5. CASE Interval
  BY <1>3, <1>4, <1>5 DEF Interval, startVars, timerVars, StoppedInv
<1>6. CASE KickFires
  BY <1>3, <1>4, <1>6 DEF KickFires, startVars, StoppedInv, Stopped
<1>7. ASSUME UNCHANGED <<todo, queued, interval, startVars>>, kick' \in {kick, kick \/ started}
      PROVE Goal
  BY <1>7 DEF StoppedInv, Stopped, startVars
<1>8. CASE BootSweep
  <2>1. CASE started
    BY <1>3, <1>4, <1>8, <2>1 DEF BootSweep, startVars, Stopped
  <2>2. CASE ~started
    BY <1>7, <1>8, <2>2 DEF BootSweep, passVars
  <2> QED
    BY <2>1, <2>2
<1>9. CASE CheckJob
  <2>1. Tail(todo) \in Seq(JobSet) /\ Len(Tail(todo)) < Len(todo) /\ Len(todo) \in Nat
    BY <1>1, <1>9, TodoShrinks DEF CheckJob
  <2>2. todo' = Tail(todo) /\ UNCHANGED <<kick, queued, interval, started, starting, cutShort>>
    BY <1>9 DEF CheckJob, timerVars, startVars
  <2>3. Tail(todo) # Jobs
    BY <1>1, <2>1
  <2> QED
    BY <1>1, <2>1, <2>2, <2>3 DEF StoppedInv, Stopped
<1>10. CASE TickEnds
  <2>1. UNCHANGED <<kick, interval, started, starting, cutShort>> /\ queued' = FALSE
    BY <1>10 DEF TickEnds, timerVars, startVars
  <2>2. CASE queued
    <3>1. todo' = Jobs /\ ~Stopped
      BY <1>10, <2>2 DEF TickEnds, BeginTick, StoppedInv
    <3> QED
      BY <1>3, <2>1, <3>1
  <2>3. CASE ~queued
    <3>1. todo' = todo
      BY <1>10, <2>3 DEF TickEnds
    <3> QED
      BY <1>1, <2>1, <3>1 DEF StoppedInv, Stopped
  <2> QED
    BY <2>2, <2>3
<1>11. CASE TickThrows
  <2>1. todo' = <<>> /\ UNCHANGED <<kick, queued, interval, started, starting, cutShort>>
    BY <1>11 DEF TickThrows, timerVars, startVars
  <2>2. <<>> = Jobs => todo = <<>>
    BY <1>1
  <2>3. StoppedInv'
    BY <1>2, <2>1 DEF StoppedInv, Stopped
  <2> QED
    BY <2>1, <2>2, <2>3
<1>12. ASSUME starting' \in Nat, StopScheduler, todo' = todo PROVE Goal
  <2>1. (starting' > 0) \/ starting' = 0
    BY <1>12
  <2>2. Stopped' => starting' = 0
    BY <1>12, <2>1, Zenon DEF StopScheduler, Stopped
  <2> QED
    BY <1>2, <1>12, <2>2 DEF StopScheduler, StoppedInv
<1>13. CASE StartScheduler
  BY <1>2, <1>13 DEF StartScheduler, StoppedInv, Stopped, passVars, timerVars
<1>14. CASE StartTimers
  BY <1>2, <1>14 DEF StartTimers, StoppedInv, Stopped, passVars
<1>15. CASE Stop
  BY <1>12, <1>15 DEF Stop, passVars, StoppedInv
<1>16. CASE StartFails
  <2>1. starting' \in Nat /\ starting > 0 /\ starting' = starting - 1 /\ todo' = todo
    BY <1>16 DEF StartFails, StoppedInv, passVars
  <2>2. CASE started
    BY <1>12, <1>16, <2>1, <2>2 DEF StartFails
  <2>3. CASE ~started
    <3>1. UNCHANGED <<kick, queued, interval, started, cutShort>>
      BY <1>16, <2>3 DEF StartFails, timerVars
    <3> QED
      BY <1>2, <2>1, <3>1 DEF StoppedInv, Stopped
  <2> QED
    BY <2>2, <2>3
<1>17. ASSUME NEW j \in JobSet,
              \/ RunJobClaims(j) \/ RunJobDeclines(j) \/ RunProduces(j) \/ RunEnds(j) \/ OrphanSettles(j)
              \/ Arrive(j) \/ Manual(j) \/ RunTimesOut(j)
       PROVE  Goal
  BY <1>7, <1>17 DEF RunJobClaims, RunJobDeclines, RunProduces, SchedulePipelineKick, RunEnds,
     OrphanSettles, Arrive, Manual, RunTimesOut, passVars, timerVars
<1>18. CASE AllChecked \/ UNCHANGED <<tickVars, calm>>
  BY <1>7, <1>18 DEF AllChecked, tickVars, passVars, timerVars
<1> QED
  BY <1>5, <1>6, <1>8, <1>9, <1>10, <1>11, <1>13, <1>14, <1>15, <1>16, <1>17, <1>18
     DEF TickNext, Ordinary, Disturbance, TickProgress

(* "A follow-up tick requested during a tick that is still settling must    *)
(* not fire against a stopped scheduler": nor does any other, unless the    *)
(* stop fell into the awaits of a start (scheduler.ts:393).                 *)
THEOREM NoTickOnceStopped == TickSpec => NoTickAfterStop
<1>1. ASSUME TickInit PROVE StoppedInv
  <2>1. Len(Jobs) \in Nat /\ <<>> \in Seq(JobSet) /\ Len(<<>>) = 0
    BY JobsAssumption
  <2>2. todo \in Seq(JobSet) /\ Len(todo) <= Len(Jobs) /\ starting = 0
    BY <1>1, <2>1 DEF TickInit
  <2>3. /\ kick \in BOOLEAN /\ queued \in BOOLEAN /\ started \in BOOLEAN
        /\ ~kick /\ ~queued /\ ~interval
    BY <1>1, Zenon DEF TickInit
  <2> QED
    BY <2>2, <2>3 DEF StoppedInv
<1>2. StoppedInv /\ [TickNext]_<<tickVars, calm>> =>
        StoppedInv' /\ [~started /\ ~cutShort => (todo' # Jobs \/ todo = Jobs)]_tickVars
  BY StoppedStep DEF Stopped
<1> QED
  BY <1>1, <1>2, PTL DEF TickSpec, NoTickAfterStop
-----------------------------------------------------------------------------
(* Types, and that a tick waits only for calls and runs that are there.     *)
LEMMA TickTypeStep == TickTypeOK /\ [TickNext]_<<tickVars, calm>> => TickTypeOK'
<1> SUFFICES ASSUME TickTypeOK, [TickNext]_<<tickVars, calm>> PROVE TickTypeOK'
  OBVIOUS
<1> DEFINE Flags == /\ queued \in BOOLEAN /\ kick \in BOOLEAN /\ sweep \in BOOLEAN
                    /\ interval \in BOOLEAN /\ started \in BOOLEAN /\ cutShort \in BOOLEAN
                    /\ calm \in BOOLEAN
           Jobs1 == /\ handed \subseteq work /\ work \subseteq JobSet
                    /\ running \subseteq JobSet /\ orphans \subseteq JobSet
                    /\ calls \subseteq JobSet /\ mine \subseteq running \union calls
           Pass == /\ tick \in {"none", "checking", "settling"}
                   /\ todo \in Seq(JobSet) /\ (todo # <<>> => tick = "checking")
<1>1. TickTypeOK <=> (Flags /\ Jobs1 /\ Pass /\ starting \in 0..Starts /\ accidents \in 0..Accidents)
  BY Zenon DEF TickTypeOK
<1>2. TickTypeOK' <=> (Flags' /\ Jobs1' /\ Pass' /\ (starting \in 0..Starts)' /\ (accidents \in 0..Accidents)')
  BY Zenon DEF TickTypeOK
<1>3. Flags /\ Jobs1 /\ Pass /\ starting \in 0..Starts /\ accidents \in 0..Accidents
  BY <1>1
<1>4. Flags'
  <2>1. UNCHANGED <<queued, kick, sweep, interval, startVars>> => Flags'
    BY <1>3 DEF startVars, TickNext, Ordinary, Disturbance
  <2>2. calm' \in BOOLEAN
    BY <1>3 DEF TickNext
  <2>3. Interval \/ BootSweep \/ KickFires \/ TickEnds => Flags'
    BY <1>3, <2>2 DEF Interval, BootSweep, KickFires, TickEnds, RunPipelineTick, timerVars, startVars
  <2>4. StartScheduler \/ StartTimers \/ StartFails \/ Stop => Flags'
    <3>1. (starting' > 0) \in BOOLEAN
      OBVIOUS
    <3>2. StopScheduler => Flags'
      BY <2>2, <3>1 DEF StopScheduler
    <3> QED
      BY <1>3, <2>2, <3>2, Zenon DEF StartScheduler, StartTimers, StartFails, Stop, timerVars
  <2>5. ASSUME NEW j \in JobSet, RunProduces(j) PROVE Flags'
    BY <1>3, <2>2, <2>5 DEF RunProduces, SchedulePipelineKick, startVars
  <2> HIDE DEF Flags
  <2> QED
    BY <2>1, <2>3, <2>4, <2>5, Zenon
       DEF TickNext, Ordinary, Disturbance, TickProgress, CheckJob, AllChecked, RunJobClaims,
           RunJobDeclines, TickThrows, Manual, RunEnds, RunTimesOut, OrphanSettles, Arrive,
           tickVars, timerVars
<1>5. Pass'
  <2>1. Jobs \in Seq(JobSet) /\ <<>> \in Seq(JobSet)
    BY JobsAssumption
  <2>2. BeginTick => Pass'
    BY <2>1 DEF BeginTick
  <2>3. UNCHANGED <<tick, todo>> => Pass'
    BY <1>3
  <2>4. RunPipelineTick => Pass'
    BY <2>2, <2>3 DEF RunPipelineTick
  <2>5. CheckJob => Pass'
    BY <1>3, TodoShrinks DEF CheckJob
  <2>6. AllChecked \/ TickThrows => Pass'
    BY <1>3, <2>1 DEF AllChecked, TickThrows
  <2>7. TickEnds => Pass'
    <3>1. tick = "settling" => todo = <<>>
      BY <1>3
    <3> QED
      BY <1>3, <2>2, <3>1 DEF TickEnds
  <2> HIDE DEF Pass
  <2>8. Interval \/ BootSweep \/ KickFires => Pass'
    BY <2>3, <2>4 DEF Interval, BootSweep, KickFires, passVars
  <2> QED
    BY <2>3, <2>5, <2>6, <2>7, <2>8, Zenon
       DEF TickNext, Ordinary, Disturbance, TickProgress, RunJobClaims, RunJobDeclines, Manual,
           RunProduces, RunEnds, RunTimesOut, OrphanSettles, Arrive, StartScheduler, StartTimers,
           StartFails, Stop, tickVars, passVars
<1>6. Jobs1'
  <2>1. UNCHANGED <<jobVars, calls, mine>> => Jobs1'
    BY <1>3 DEF jobVars
  <2>2. UNCHANGED jobVars /\ (RunPipelineTick \/ BeginTick) => Jobs1'
    BY <1>3 DEF RunPipelineTick, BeginTick, jobVars
  <2>3. CheckJob => Jobs1'
    <3>1. todo \in Seq(JobSet) /\ todo # <<>> => Head(todo) \in JobSet
      OBVIOUS
    <3> QED
      BY <1>3, <3>1 DEF CheckJob, jobVars
  <2>4. TickThrows => Jobs1'
    BY <1>3 DEF TickThrows, jobVars
  <2>5. ASSUME NEW j \in JobSet, RunJobClaims(j) \/ RunJobDeclines(j) PROVE Jobs1'
    BY <1>3, <2>5 DEF RunJobClaims, RunJobDeclines, Begin, jobVars
  <2>6. ASSUME NEW j \in JobSet, Manual(j) \/ Arrive(j) \/ OrphanSettles(j) PROVE Jobs1'
    BY <1>3, <2>6 DEF Manual, Arrive, OrphanSettles, Begin, passVars
  <2>7. ASSUME NEW j \in JobSet, RunProduces(j) \/ RunEnds(j) \/ RunTimesOut(j) PROVE Jobs1'
    BY <1>3, <2>7, NextOfAssumption DEF RunProduces, RunEnds, RunTimesOut, Leave
  <2> HIDE DEF Jobs1
  <2>8. Interval \/ BootSweep \/ KickFires \/ TickEnds => Jobs1'
    BY <2>1, <2>2, Zenon DEF Interval, BootSweep, KickFires, TickEnds, passVars
  <2>9. AllChecked \/ StartScheduler \/ StartTimers \/ StartFails \/ Stop \/ UNCHANGED <<tickVars, calm>> => Jobs1'
    BY <2>1, Zenon DEF AllChecked, StartScheduler, StartTimers, StartFails, Stop, tickVars, passVars
  <2> QED
    BY <2>3, <2>4, <2>5, <2>6, <2>7, <2>8, <2>9, Zenon
       DEF TickNext, Ordinary, Disturbance, TickProgress
<1>7. (accidents \in 0..Accidents)'
  <2>1. accidents \in 0..Accidents /\ (accidents < Accidents => accidents + 1 \in 0..Accidents)
    BY <1>3, AccidentsAssumption
  <2> QED
    BY <2>1, Zenon
       DEF TickNext, Ordinary, Disturbance, TickProgress, Interval, BootSweep, KickFires, CheckJob,
           AllChecked, RunJobClaims, RunJobDeclines, TickEnds, TickThrows, Manual, RunProduces,
           RunEnds, RunTimesOut, OrphanSettles, Arrive, StartScheduler, StartTimers, StartFails, Stop, tickVars
<1>8. (starting \in 0..Starts)'
  <2>1. starting \in 0..Starts /\ (starting < Starts => starting + 1 \in 0..Starts)
    BY <1>3, StartsAssumption
  <2>2. starting > 0 => starting - 1 \in 0..Starts
    BY <1>3, StartsAssumption
  <2> QED
    BY <2>1, <2>2, Zenon
       DEF TickNext, Ordinary, Disturbance, TickProgress, Interval, BootSweep, KickFires, CheckJob,
           AllChecked, RunJobClaims, RunJobDeclines, TickEnds, TickThrows, Manual, RunProduces,
           RunEnds, RunTimesOut, OrphanSettles, Arrive, StartScheduler, StartTimers, StartFails, Stop,
           tickVars, startVars
<1> QED
  BY <1>2, <1>4, <1>5, <1>6, <1>7, <1>8

(* Types, of the tick: what it waits for is a call or a run that is there,  *)
(* so that it ends once those have.                                         *)
THEOREM TickTypeCorrect == TickSpec => []TickTypeOK
<1>1. ASSUME TickInit PROVE TickTypeOK
  <2>1. {queued, kick, sweep, interval, started, cutShort} \subseteq BOOLEAN /\ calm \in BOOLEAN
    BY <1>1, Zenon DEF TickInit
  <2>2. accidents \in 0..Accidents /\ starting \in 0..Starts /\ todo \in Seq(JobSet)
    BY <1>1, AccidentsAssumption, StartsAssumption DEF TickInit
  <2> QED
    BY <1>1, <2>1, <2>2 DEF TickInit, TickTypeOK
<1> QED
  BY <1>1, TickTypeStep, PTL DEF TickSpec
=============================================================================

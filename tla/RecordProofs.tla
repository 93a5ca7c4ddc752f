---------------------------- MODULE RecordProofs -----------------------------
(***************************************************************************)
(* What runs leave behind.  A claimed slot is not run twice, and none is   *)
(* passed over (SlotLedger); the list in which the operator dismisses what *)
(* was missed says what was and what is under way (RunLedger); an article  *)
(* is filed once (NewsDigest).  For any schedule, and any windows that the *)
(* retention of the claims covers.                                         *)
(***************************************************************************)
EXTENDS SlotLedger, RunLedger, NewsDigest, FiniteSetTheorems, WellFoundedInduction, TLAPS

-----------------------------------------------------------------------------
(*                                The slots                                *)

(* A handler that will run its slot took it up while the slot was recent.   *)
Fires == \A h \in Handlers : handler[h].stage # "idle" /\ Bound(h) =>
           handler[h].slot = handler[h].since
InTime == \A h \in Handlers : handler[h].stage # "idle" => now <= handler[h].since + Patience

(* A slot that was run is still in the table, or too old to be claimed by   *)
(* anybody who would run it; one that is about to be run was not run yet,   *)
(* and has one handler.                                                     *)
RanIsLocked == \A s \in Slots : ran[s] # "no" => s \in locks \/ s + Retention < now
ToRun(h) == handler[h].stage = "claimed" /\ MayRun(h)
ToRunIsLocked == \A h \in Handlers : ToRun(h) => handler[h].slot \in locks
  /\ ran[handler[h].slot] = "no"
OneToRun ==
  \A g, h \in Handlers : ToRun(g) /\ ToRun(h) /\ handler[g].slot = handler[h].slot => g = h

SlotInv ==
  /\ SlotTypeOK /\ Fires /\ InTime
  /\ RanIsLocked /\ ToRunIsLocked /\ OneToRun /\ NeverRunTwice

LEMMA SlotInitInv == SlotInit => SlotInv
BY TimesAssumption, SMT
   DEF SlotInit, SlotInv, SlotTypeOK, Fires, InTime, RanIsLocked, ToRunIsLocked, OneToRun, ToRun,
       NeverRunTwice, Idle, NoSlot, HandlerStates

LEMMA Times == Horizon \in Nat /\ Slots \subseteq Nat \ {0}
BY TimesAssumption

(* The states of a handler.                                                 *)
LEMMA HandlerFields ==
  ASSUME SlotTypeOK, NEW h \in Handlers
  PROVE  /\ handler[h].stage \in {"idle", "claim", "claimed"}
         /\ handler[h].kind \in {"fire", "missed", "boot"}
         /\ handler[h].slot \in Nat /\ handler[h].since \in Nat
         /\ Idle \in HandlerStates
         /\ [handler[h] EXCEPT !.stage = "claimed"] \in HandlerStates
<1>1. handler[h] \in HandlerStates
  BY DEF SlotTypeOK
<1> QED BY <1>1, Times, SMT DEF HandlerStates, Idle, NoSlot

LEMMA SlotTypeStep == SlotTypeOK /\ [SlotNext]_slotVars => SlotTypeOK'
<1> SUFFICES ASSUME SlotTypeOK, [SlotNext]_slotVars PROVE SlotTypeOK'
  OBVIOUS
<1>0. \A h \in Handlers : handler[h].since \in Nat
  BY HandlerFields
<1> USE Times DEF SlotTypeOK
<1>1. CASE UNCHANGED slotVars
  BY <1>1 DEF slotVars
<1>2. CASE Tick
  <2>1. now' \in 0..Horizon /\ \A h \in Handlers : handler[h].since <= now => handler[h].since <= now'
    BY <1>0, <1>2 DEF Tick
  <2> QED BY <1>2, <2>1 DEF Tick
<1>3. CASE Start \/ Reload
  BY <1>3 DEF Start, Reload, Load
<1>4. CASE Crash
  <2>1. lost' \subseteq Slots
    BY <1>4 DEF Crash
  <2>2. Idle \in HandlerStates
    BY SMT DEF Idle, HandlerStates, NoSlot
  <2>3. handler' = [h \in Handlers |-> Idle] /\ Idle.stage = "idle"
    BY <1>4 DEF Crash, Idle
  <2> QED BY <1>4, <2>1, <2>2, <2>3 DEF Crash
<1>5. ASSUME NEW h \in Handlers, NEW k \in {"fire", "missed", "boot"}, NEW s \in Slots,
             Handle(h, k, s), process' # "down", now' = now
      PROVE  /\ handler' \in [Handlers -> HandlerStates]
             /\ \A g \in Handlers : handler'[g].stage # "idle" =>
                  process' # "down" /\ handler'[g].slot \in Slots /\ handler'[g].since <= now'
  <2>1. [stage |-> "claim", kind |-> k, slot |-> s, since |-> now] \in HandlerStates
    BY DEF HandlerStates
  <2> QED BY <1>5, <2>1 DEF Handle
<1>6. ASSUME NEW h \in Handlers, CatchUp(h) PROVE SlotTypeOK'
  BY <1>5, <1>6, SMT DEF CatchUp
<1>7. ASSUME NEW h \in Handlers, Fire(h) PROVE SlotTypeOK'
  <2>1. expected \in Slots
    BY <1>7 DEF Fire
  <2> QED BY <1>5, <1>7, <2>1 DEF Fire
<1>8. ASSUME NEW h \in Handlers, Missed(h) PROVE SlotTypeOK'
  BY <1>5, <1>8 DEF Missed
<1>9. ASSUME NEW h \in Handlers, Claim(h) PROVE SlotTypeOK'
  <2>1. locks' \subseteq Slots
    BY <1>9 DEF Claim, Kept
  <2>2. \E r \in {Idle, [handler[h] EXCEPT !.stage = "claimed"]} : handler' = [handler EXCEPT ![h] = r]
    BY <1>9 DEF Claim
  <2>3. handler' \in [Handlers -> HandlerStates]
    <3>1. Idle \in HandlerStates /\ [handler[h] EXCEPT !.stage = "claimed"] \in HandlerStates
      BY HandlerFields
    <3> QED BY <2>2, <3>1
  <2>4. \A g \in Handlers : handler'[g].stage # "idle" =>
          handler[g].stage # "idle" /\ handler'[g].slot = handler[g].slot
          /\ handler'[g].since = handler[g].since
    BY <1>9, <2>2 DEF Claim, Idle
  <2> QED BY <1>9, <2>1, <2>3, <2>4 DEF Claim
<1>10. ASSUME NEW h \in Handlers, Run(h) \/ Record(h) PROVE SlotTypeOK'
  <2>1. handler' = [handler EXCEPT ![h] = Idle] /\ handler[h].slot \in Slots
    BY <1>10 DEF Run, Record
  <2>2. handler' \in [Handlers -> HandlerStates]
    BY <2>1, HandlerFields
  <2>3. ran' \in [Slots -> {"no", "once", "twice"}] /\ missed' \subseteq Slots
    BY <1>10, <2>1 DEF Run, Record
  <2> QED BY <1>10, <2>1, <2>2, <2>3 DEF Run, Record, Idle
<1> QED BY <1>1, <1>2, <1>3, <1>4, <1>6, <1>7, <1>8, <1>9, <1>10 DEF SlotNext

(* How long a handler is at it.                                             *)
LEMMA TimeStep ==
  SlotTypeOK /\ Fires /\ InTime /\ [SlotNext]_slotVars => Fires' /\ InTime'
<1> SUFFICES ASSUME SlotTypeOK, Fires, InTime, [SlotNext]_slotVars PROVE Fires' /\ InTime'
  OBVIOUS
<1>0. /\ handler \in [Handlers -> HandlerStates] /\ now \in Nat
      /\ Patience \in Nat
      /\ \A h \in Handlers : handler[h].since \in Nat
  <2>1. handler \in [Handlers -> HandlerStates] /\ now \in Nat
    BY Times DEF SlotTypeOK
  <2>2. Patience \in Nat
    BY WindowsAssumption
  <2> QED BY <2>1, <2>2, HandlerFields
<1> USE DEF Fires, InTime, Bound
<1>1. CASE UNCHANGED slotVars
  BY <1>1 DEF slotVars
<1>2. CASE Tick
  <2>1. \A h \in Handlers : handler[h].stage # "idle" => now + 1 <= handler[h].since + Patience
    BY <1>0, <1>2 DEF Tick
  <2> QED BY <1>2, <2>1 DEF Tick
<1>3. CASE Start \/ Reload
  BY <1>3 DEF Start, Reload
<1>4. CASE Crash
  BY <1>4 DEF Crash, Idle
<1>5. ASSUME NEW h \in Handlers, NEW k, NEW s,
             Handle(h, k, s), now' = now, k = "fire" => s = now
      PROVE  Fires' /\ InTime'
  <2>1. now <= now + Patience
    BY <1>0
  <2> QED BY <1>0, <1>5, <2>1 DEF Handle
<1>6. ASSUME NEW h \in Handlers, CatchUp(h) PROVE Fires' /\ InTime'
  BY <1>5, <1>6 DEF CatchUp
<1>7. ASSUME NEW h \in Handlers, Fire(h) PROVE Fires' /\ InTime'
  BY <1>5, <1>7 DEF Fire
<1>8. ASSUME NEW h \in Handlers, Missed(h) PROVE Fires' /\ InTime'
  BY <1>5, <1>8 DEF Missed
<1>9. ASSUME NEW h \in Handlers, Claim(h) \/ Run(h) \/ Record(h) PROVE Fires' /\ InTime'
  <2>1. \E r \in {Idle, [handler[h] EXCEPT !.stage = "claimed"]} : handler' = [handler EXCEPT ![h] = r]
    BY <1>9 DEF Claim, Run, Record
  <2>2. handler[h].stage # "idle" /\ now' = now
    BY <1>9 DEF Claim, Run, Record
  <2>3. \A g \in Handlers : handler'[g].stage # "idle" =>
          /\ handler[g].stage # "idle" /\ handler'[g].kind = handler[g].kind
          /\ handler'[g].slot = handler[g].slot /\ handler'[g].since = handler[g].since
    BY <1>0, <2>1, <2>2 DEF Idle, HandlerStates
  <2> QED BY <2>2, <2>3
<1> QED BY <1>1, <1>2, <1>3, <1>4, <1>6, <1>7, <1>8, <1>9 DEF SlotNext

(* Whoever will run a slot is at it while its claim would be kept.          *)
LEMMA RunsInRetention ==
  ASSUME SlotTypeOK, Fires, InTime, NEW h \in Handlers, handler[h].stage # "idle", MayRun(h)
  PROVE  now <= handler[h].slot + Retention
<1> DEFINE s == handler[h].slot
<1>0. now \in Nat
  BY Times DEF SlotTypeOK
<1>1. /\ s \in Nat /\ handler[h].since \in Nat
      /\ now <= handler[h].since + Patience
  BY HandlerFields DEF InTime
<1>2. handler[h].since <= s + MaxWindow
  <2>1. CASE Bound(h)
    BY <2>1, <1>1, WindowsAssumption, SMT DEF Fires
  <2>2. CASE Recoverable(s, handler[h].since)
    BY <2>2 DEF Recoverable
  <2> QED BY <2>1, <2>2 DEF MayRun
<1> HIDE DEF s
<1>3. now <= s + Retention
  BY <1>0, <1>1, <1>2, WindowsAssumption, SMT
<1> QED BY <1>3 DEF s

LEMMA LedgerStep ==
  ASSUME SlotInv, [SlotNext]_slotVars, SlotTypeOK'
  PROVE  (RanIsLocked /\ ToRunIsLocked /\ OneToRun /\ NeverRunTwice)'
<1> DEFINE Ledger == RanIsLocked /\ ToRunIsLocked /\ OneToRun /\ NeverRunTwice
<1>0. /\ SlotTypeOK /\ Fires /\ InTime /\ Ledger
      /\ handler \in [Handlers -> HandlerStates] /\ now \in Nat /\ Retention \in Nat
      /\ ran \in [Slots -> {"no", "once", "twice"}] /\ Slots \subseteq Nat
  <2>1. now \in Nat /\ Slots \subseteq Nat
    BY Times DEF SlotInv, SlotTypeOK
  <2>2. Retention \in Nat
    BY WindowsAssumption
  <2> QED BY <2>1, <2>2 DEF SlotInv, SlotTypeOK
<1> USE DEF RanIsLocked, ToRunIsLocked, OneToRun, NeverRunTwice
<1>1. ASSUME UNCHANGED <<locks, handler, ran>>, now' = now PROVE Ledger'
  BY <1>0, <1>1 DEF ToRun, MayRun, Bound, Recoverable
<1>2. CASE Tick
  <2>1. \A s \in Slots : s + Retention < now => s + Retention < now + 1
    BY <1>0
  <2> QED BY <1>0, <1>2, <2>1 DEF Tick, ToRun, MayRun, Bound, Recoverable
<1>3. ASSUME NEW h \in Handlers, NEW k, NEW s,
             Handle(h, k, s), UNCHANGED <<locks, ran, now>>
      PROVE  Ledger'
  <2>1. \A g \in Handlers : ToRun(g)' => ToRun(g) /\ handler'[g] = handler[g]
    BY <1>0, <1>3 DEF Handle, ToRun, MayRun, Bound, Recoverable
  <2> QED BY <1>0, <1>3, <2>1
<1>4. CASE Crash
  <2>1. \A g \in Handlers : ~ToRun(g)'
    BY <1>4 DEF Crash, ToRun, Idle
  <2> QED BY <1>0, <1>4, <2>1 DEF Crash
<1>5. ASSUME NEW h \in Handlers, CatchUp(h) \/ Fire(h) \/ Missed(h) PROVE Ledger'
  BY <1>1, <1>3, <1>5 DEF CatchUp, Fire, Missed
<1>6. ASSUME NEW h \in Handlers, Claim(h) PROVE Ledger'
  <2> DEFINE s == handler[h].slot
  <2>1. /\ now' = now /\ ran' = ran /\ s \in Slots
        /\ locks' = {r \in locks : r + Retention >= now} \union {s}
    BY <1>6 DEF Claim, Kept, SlotInv, SlotTypeOK
  <2>2. \A g \in Handlers : ToRun(g)' /\ g # h => ToRun(g) /\ handler'[g] = handler[g]
    BY <1>0, <1>6 DEF Claim, ToRun, MayRun, Bound, Recoverable
  <2>3. \A g \in Handlers : ToRun(g) => handler[g].slot \in locks'
    <3> SUFFICES ASSUME NEW g \in Handlers, ToRun(g) PROVE handler[g].slot \in locks'
      OBVIOUS
    <3>1. now <= handler[g].slot + Retention
      BY <1>0, RunsInRetention DEF ToRun
    <3>2. handler[g].slot \in Nat
      BY <1>0, HandlerFields
    <3> QED BY <1>0, <2>1, <3>1, <3>2
  <2>4. RanIsLocked'
    BY <1>0, <2>1
  <2>5. ASSUME ToRun(h)'
        PROVE  /\ handler'[h].slot = s /\ ran[s] = "no"
               /\ \A g \in Handlers : ToRun(g) => handler[g].slot # s
    <3>1. /\ s \notin {r \in locks : r + Retention >= now}
          /\ handler' = [handler EXCEPT ![h] = [@ EXCEPT !.stage = "claimed"]]
      BY <1>0, <1>6, <2>5 DEF Claim, Kept, ToRun, Idle
    <3>2. handler'[h].slot = s /\ handler'[h].kind = handler[h].kind
          /\ handler'[h].since = handler[h].since
      BY <1>0, <3>1 DEF HandlerStates
    <3>3. MayRun(h) /\ handler[h].stage # "idle"
      BY <1>6, <2>5, <3>2 DEF ToRun, MayRun, Bound, Recoverable, Claim
    <3>4. now <= s + Retention /\ s \in Nat
      BY <1>0, <3>3, RunsInRetention, HandlerFields
    <3>5. s \notin locks /\ ~(s + Retention < now)
      BY <1>0, <3>1, <3>4
    <3> QED BY <1>0, <2>1, <3>2, <3>5
  <2> HIDE DEF s
  <2>6. ToRunIsLocked'
    BY <1>0, <2>1, <2>2, <2>3, <2>5
  <2>7. OneToRun'
    BY <1>0, <2>2, <2>5
  <2> QED BY <1>0, <2>1, <2>4, <2>6, <2>7
<1>7. ASSUME NEW h \in Handlers, Run(h) PROVE Ledger'
  <2>1. /\ ToRun(h) /\ now' = now /\ locks' = locks
        /\ handler' = [handler EXCEPT ![h] = Idle]
        /\ ran' = [ran EXCEPT ![handler[h].slot] = IF @ = "no" THEN "once" ELSE "twice"]
    BY <1>7 DEF Run, ToRun
  <2>2. handler[h].slot \in locks /\ ran[handler[h].slot] = "no"
    BY <1>0, <2>1
  <2>3. \A g \in Handlers : ToRun(g)' => ToRun(g) /\ g # h /\ handler'[g] = handler[g]
    BY <1>0, <2>1 DEF ToRun, MayRun, Bound, Recoverable, Idle
  <2>4. \A g \in Handlers : ToRun(g)' => handler'[g].slot # handler[h].slot
    BY <1>0, <2>1, <2>3
  <2> QED BY <1>0, <2>1, <2>2, <2>3, <2>4
<1>8. ASSUME NEW h \in Handlers, Record(h) PROVE Ledger'
  <2>1. UNCHANGED <<locks, ran, now>> /\ handler' = [handler EXCEPT ![h] = Idle]
    BY <1>8 DEF Record
  <2>2. \A g \in Handlers : ToRun(g)' => ToRun(g) /\ handler'[g] = handler[g]
    BY <1>0, <2>1 DEF ToRun, MayRun, Bound, Recoverable, Idle
  <2> QED BY <1>0, <2>1, <2>2
<1> QED BY <1>1, <1>2, <1>4, <1>5, <1>6, <1>7, <1>8 DEF SlotNext, slotVars, Start, Reload

THEOREM SlotInvariant == SlotSpec => []SlotInv
<1>1. SlotInv /\ [SlotNext]_slotVars => SlotInv'
  BY SlotTypeStep, TimeStep, LedgerStep DEF SlotInv
<1> QED BY <1>1, SlotInitInv, PTL DEF SlotSpec

(* Types, of the ledger and of the handlers that are under way.             *)
THEOREM SlotTypeCorrect == SlotSpec => []SlotTypeOK
<1>1. SlotInv => SlotTypeOK
  BY DEF SlotInv
<1> QED BY <1>1, SlotInvariant, PTL

(* acquireSchedulerExecutionLock keeps its promise to runJob: no slot is    *)
(* run twice, also when it is fired, found missed and caught up at a start. *)
THEOREM SlotNeverRunTwice == SlotSpec => []NeverRunTwice
<1>1. SlotInv => NeverRunTwice
  BY DEF SlotInv
<1> QED BY <1>1, SlotInvariant, PTL

-----------------------------------------------------------------------------
(* A claimed slot has been seen to, or will be unless the process dies.     *)
AccountedInv == SlotTypeOK /\ ClaimAccounted

LEMMA AccountedStep ==
  AccountedInv /\ [SlotNext]_slotVars => AccountedInv'
<1> SUFFICES ASSUME AccountedInv, [SlotNext]_slotVars PROVE ClaimAccounted'
  BY SlotTypeStep DEF AccountedInv
<1>0. /\ SlotTypeOK /\ ClaimAccounted /\ handler \in [Handlers -> HandlerStates]
      /\ ran \in [Slots -> {"no", "once", "twice"}] /\ locks \subseteq Slots
  BY DEF AccountedInv, SlotTypeOK
<1> USE DEF ClaimAccounted
<1>1. ASSUME UNCHANGED <<locks, handler, ran, missed, lost>> PROVE ClaimAccounted'
  BY <1>0, <1>1
<1>2. ASSUME NEW h \in Handlers, NEW k, NEW s, handler[h].stage # "claimed",
             Handle(h, k, s), UNCHANGED <<locks, ran, missed, lost>>
      PROVE  ClaimAccounted'
  BY <1>0, <1>2 DEF Handle
<1>3. ASSUME NEW h \in Handlers, CatchUp(h) \/ Fire(h) \/ Missed(h) PROVE ClaimAccounted'
  BY <1>1, <1>2, <1>3 DEF CatchUp, Fire, Missed
<1>4. ASSUME NEW h \in Handlers, Claim(h) PROVE ClaimAccounted'
  <2>1. UNCHANGED <<ran, missed, lost>> /\ locks' = Kept \union {handler[h].slot}
          /\ Kept \subseteq locks
    BY <1>4 DEF Claim, Kept
  <2>2. \A g \in Handlers : handler[g].stage = "claimed" => handler'[g] = handler[g]
    BY <1>0, <1>4 DEF Claim
  <2>3. CASE handler[h].slot \in Kept
    BY <1>0, <2>1, <2>2, <2>3
  <2>4. CASE handler[h].slot \notin Kept
    <3>1. handler'[h].stage = "claimed" /\ handler'[h].slot = handler[h].slot
      BY <1>0, <1>4, <2>4 DEF Claim, HandlerStates
    <3> QED BY <1>0, <2>1, <2>2, <3>1
  <2> QED BY <2>3, <2>4
<1>5. ASSUME NEW h \in Handlers, Run(h) \/ Record(h) PROVE ClaimAccounted'
  <2>1. locks' = locks /\ lost' = lost /\ handler' = [handler EXCEPT ![h] = Idle]
    BY <1>5 DEF Run, Record
  <2>2. \A g \in Handlers : g # h => handler'[g] = handler[g]
    BY <1>0, <2>1
  <2>3. ran'[handler[h].slot] # "no" \/ handler[h].slot \in missed'
    BY <1>0, <1>5 DEF Run, Record, SlotTypeOK
  <2>4. \A s \in Slots : ran[s] # "no" \/ s \in missed => ran'[s] # "no" \/ s \in missed'
    BY <1>0, <1>5 DEF Run, Record
  <2> QED BY <1>0, <2>1, <2>2, <2>3, <2>4
<1>6. CASE Crash
  <2>1. /\ UNCHANGED <<locks, ran, missed>> /\ lost \subseteq lost'
        /\ \A h \in Handlers : handler[h].stage = "claimed" => handler[h].slot \in lost'
    BY <1>6 DEF Crash
  <2> QED BY <1>0, <2>1
<1> QED BY <1>1, <1>3, <1>4, <1>5, <1>6 DEF SlotNext, slotVars, Tick, Start, Reload

(* catchUpMissedRunsOnStartup and its siblings may pass over a slot that is *)
(* claimed, unless its process died between the claim and the run.          *)
THEOREM ClaimsAreAccounted == SlotSpec => []ClaimAccounted
<1>1. SlotInit => AccountedInv
  BY SlotInitInv DEF SlotInit, SlotInv, AccountedInv, ClaimAccounted
<1>2. AccountedInv /\ [SlotNext]_slotVars => AccountedInv'
  BY AccountedStep
<1>3. AccountedInv => ClaimAccounted
  BY DEF AccountedInv
<1> QED BY <1>1, <1>2, <1>3, PTL DEF SlotSpec

-----------------------------------------------------------------------------
(* A slot is seen to once it is run, recorded or in hand.                   *)
SeenTo(s) ==
  \/ ran[s] # "no" \/ s \in missed
  \/ \E h \in Handlers : handler[h].stage # "idle" /\ handler[h].slot = s

(* No slot is in hand before its time, so that what died with a process is  *)
(* older than the schedule that the next one loads.                         *)
InTheirTime ==
  /\ \A h \in Handlers : handler[h].stage # "idle" => handler[h].slot <= now
  /\ \A s \in lost : s <= now /\ (process # "down" => s <= loaded)

NothingDropped ==
  process # "down" => \A s \in Slots : loaded < s /\ s < expected /\ Near(s) => SeenTo(s)

DropInv == AccountedInv /\ InTheirTime /\ NothingDropped

LEMMA SlotNumbers ==
  ASSUME SlotTypeOK
  PROVE  /\ now \in Nat /\ loaded \in Nat /\ expected \in Nat /\ Slots \subseteq Nat /\ Lookback \in Nat
         /\ lost \subseteq Nat
<1>1. Slots \subseteq Nat /\ Lookback \in Nat /\ Horizon \in Nat
  BY Times, WindowsAssumption
<1>2. expected \in Slots \union {NoSlot} /\ NoSlot \in Nat
  BY DEF SlotTypeOK, NoSlot
<1> QED
  BY <1>1, <1>2 DEF SlotTypeOK

LEMMA TheirTimeStep ==
  ASSUME SlotTypeOK, SlotTypeOK', InTheirTime, [SlotNext]_slotVars
  PROVE  InTheirTime'
<1>0. /\ now \in Nat /\ loaded \in Nat /\ Slots \subseteq Nat /\ lost \subseteq Nat
      /\ handler \in [Handlers -> HandlerStates]
  BY SlotNumbers DEF SlotTypeOK
<1> USE DEF InTheirTime
<1>1. CASE UNCHANGED slotVars
  BY <1>1 DEF slotVars
<1>2. CASE Tick
  <2>1. now' = now + 1 /\ \A s \in Nat : s <= now => s <= now + 1
    BY <1>0, <1>2 DEF Tick
  <2>2. \A h \in Handlers : handler[h].slot \in Nat
    BY HandlerFields
  <2> QED
    BY <1>0, <1>2, <2>1, <2>2 DEF Tick
<1>3. CASE Start \/ Reload
  <2>1. loaded' = now /\ UNCHANGED <<now, handler, lost>>
    BY <1>3 DEF Start, Reload, Load
  <2> QED
    BY <2>1
<1>4. CASE Crash
  <2>1. /\ process' = "down" /\ now' = now /\ \A h \in Handlers : handler'[h] = Idle
        /\ \A s \in lost' : s \in lost \/ \E h \in Handlers : handler[h].stage = "claimed"
             /\ handler[h].slot = s
    BY <1>4 DEF Crash
  <2>2. \A h \in Handlers : handler'[h].stage = "idle"
    BY <2>1 DEF Idle
  <2>3. \A s \in lost' : s <= now'
    BY <2>1
  <2> QED
    BY <2>1, <2>2, <2>3
<1>5. ASSUME NEW h \in Handlers, NEW k, NEW s \in Slots, s <= now, Handle(h, k, s),
             UNCHANGED <<now, loaded, lost>>, process' # "down" => process # "down"
      PROVE  InTheirTime'
  BY <1>0, <1>5 DEF Handle
<1>6. ASSUME UNCHANGED <<now, loaded, lost, handler>>, process' # "down" => process # "down"
      PROVE  InTheirTime'
  BY <1>6
<1>7. ASSUME NEW h \in Handlers, CatchUp(h) PROVE InTheirTime'
  <2>1. \A s \in Slots : PreviousMatch(s, now) => s <= now
    BY <1>0 DEF PreviousMatch, IsLast
  <2> QED
    BY <1>5, <1>6, <1>7, <2>1 DEF CatchUp
<1>8. ASSUME NEW h \in Handlers, Fire(h) PROVE InTheirTime'
  <2>1. expected \in Slots /\ expected <= now
    BY <1>0, <1>8 DEF Fire, SlotTypeOK
  <2> QED
    BY <1>5, <1>8, <2>1 DEF Fire
<1>9. ASSUME NEW h \in Handlers, Missed(h) PROVE InTheirTime'
  <2>1. PICK next \in Slots :
          /\ IsNext(next, expected)
          /\ \/ \E s \in Slots : PreviousMatch(s, next) /\ Handle(h, "missed", s)
             \/ NoMatchBefore(next) /\ next <= now /\ Handle(h, "missed", next)
             \/ NoMatchBefore(next) /\ next > now /\ UNCHANGED handler
    BY <1>9 DEF Missed
  <2>2. UNCHANGED <<now, loaded, lost, process>> /\ expected < now /\ expected \in Slots
    BY <1>9 DEF Missed, SlotTypeOK
  <2>3. \A s \in Slots : PreviousMatch(s, next) => s <= now
    BY <1>0, <2>1, <2>2 DEF PreviousMatch, IsLast, IsNext
  <2> QED
    BY <1>5, <1>6, <2>1, <2>2, <2>3
<1>10. ASSUME NEW h \in Handlers, Claim(h) \/ Run(h) \/ Record(h) PROVE InTheirTime'
  <2>1. \E r \in {Idle, [handler[h] EXCEPT !.stage = "claimed"]} : handler' = [handler EXCEPT ![h] = r]
    BY <1>10 DEF Claim, Run, Record
  <2>2. handler[h].stage # "idle" /\ UNCHANGED <<now, loaded, lost, process>>
    BY <1>10 DEF Claim, Run, Record
  <2>3. \A g \in Handlers : handler'[g].stage # "idle" =>
          handler[g].stage # "idle" /\ handler'[g].slot = handler[g].slot
    BY <1>0, <2>1, <2>2 DEF Idle, HandlerStates
  <2> QED
    BY <2>2, <2>3
<1> QED
  BY <1>1, <1>2, <1>3, <1>4, <1>7, <1>8, <1>9, <1>10 DEF SlotNext

(* What is seen to stays so while the process lives: whoever finds its slot *)
(* claimed leaves it to one that is run, recorded or in hand.               *)
LEMMA SeenToStays ==
  ASSUME DropInv, [SlotNext]_slotVars, process' # "down",
         NEW s \in Slots, loaded < s, SeenTo(s)
  PROVE  SeenTo(s)' \/ Start
<1>0. /\ SlotTypeOK /\ ClaimAccounted /\ handler \in [Handlers -> HandlerStates]
      /\ ran \in [Slots -> {"no", "once", "twice"}] /\ locks \subseteq Slots
  BY DEF DropInv, AccountedInv, SlotTypeOK
<1>1. ASSUME NEW h \in Handlers, NEW k, NEW t, handler[h].stage = "idle", Handle(h, k, t),
             UNCHANGED <<ran, missed>>
      PROVE  SeenTo(s)'
  BY <1>0, <1>1 DEF Handle, SeenTo
<1>2. ASSUME UNCHANGED <<handler, ran, missed>> PROVE SeenTo(s)'
  BY <1>2 DEF SeenTo
<1>3. ASSUME NEW h \in Handlers, CatchUp(h) \/ Fire(h) \/ Missed(h) PROVE SeenTo(s)'
  BY <1>1, <1>2, <1>3 DEF CatchUp, Fire, Missed
<1>4. ASSUME NEW h \in Handlers, Claim(h) PROVE SeenTo(s)'
  <2>1. UNCHANGED <<ran, missed, process>> /\ handler[h].stage = "claim"
    BY <1>4 DEF Claim
  <2>2. \A g \in Handlers : g # h => handler'[g] = handler[g]
    BY <1>0, <1>4 DEF Claim
  <2>3. CASE handler[h].slot = s /\ s \in Kept
    <3>1. s \in locks /\ s \notin lost
      <4>1. s \in locks
        BY <2>3 DEF Kept
      <4>2. ASSUME s \in lost PROVE FALSE
        <5>1. s <= loaded
          BY <2>1, <4>2 DEF DropInv, InTheirTime
        <5> QED
          BY <1>0, <5>1, SlotNumbers
      <4> QED
        BY <4>1, <4>2
    <3>2. \/ ran[s] # "no" \/ s \in missed
          \/ \E g \in Handlers : handler[g].stage = "claimed" /\ handler[g].slot = s
      BY <1>0, <3>1 DEF ClaimAccounted
    <3> QED
      BY <2>1, <2>2, <3>2 DEF SeenTo
  <2>4. CASE handler[h].slot = s /\ s \notin Kept
    <3>1. handler'[h].stage = "claimed" /\ handler'[h].slot = s
      BY <1>0, <1>4, <2>4 DEF Claim, HandlerStates
    <3> QED
      BY <3>1 DEF SeenTo
  <2>5. CASE handler[h].slot # s
    BY <2>1, <2>2, <2>5 DEF SeenTo
  <2> QED
    BY <2>3, <2>4, <2>5
<1>5. ASSUME NEW h \in Handlers, Run(h) \/ Record(h) PROVE SeenTo(s)'
  <2>1. handler' = [handler EXCEPT ![h] = Idle] /\ handler[h].stage = "claimed"
    BY <1>5 DEF Run, Record
  <2>2. \A g \in Handlers : g # h => handler'[g] = handler[g]
    BY <1>0, <2>1
  <2>3. ran'[handler[h].slot] # "no" \/ handler[h].slot \in missed'
    BY <1>0, <1>5 DEF Run, Record, SlotTypeOK
  <2>4. ran[s] # "no" \/ s \in missed => ran'[s] # "no" \/ s \in missed'
    BY <1>0, <1>5 DEF Run, Record
  <2> QED
    BY <2>2, <2>3, <2>4 DEF SeenTo
<1>6. CASE UNCHANGED slotVars \/ Tick \/ Reload
  BY <1>2, <1>6 DEF slotVars, Tick, Reload
<1>7. ~Crash
  BY DEF Crash
<1> QED
  BY <1>3, <1>4, <1>5, <1>6, <1>7 DEF SlotNext

(* The task goes on to the next slot only with the one it leaves in hand.   *)
LEMMA ExpectedSeenTo ==
  ASSUME SlotTypeOK, NEW h \in Handlers, Fire(h) \/ Missed(h), NEW e, e = expected, Near(e)
  PROVE  SeenTo(e)'
<1>0. handler \in [Handlers -> HandlerStates] /\ Slots \subseteq Nat /\ expected \in Nat
        /\ Lookback \in Nat
  BY SlotNumbers DEF SlotTypeOK
<1>1. ASSUME NEW k, Handle(h, k, e) PROVE SeenTo(e)'
  <2>1. handler'[h].stage # "idle" /\ handler'[h].slot = e
    BY <1>0, <1>1 DEF Handle
  <2> QED
    BY <2>1 DEF SeenTo
<1>2. CASE Fire(h)
  BY <1>1, <1>2 DEF Fire
<1>3. CASE Missed(h)
  <2>1. PICK next \in Slots :
          /\ IsNext(next, expected)
          /\ \/ \E s \in Slots : PreviousMatch(s, next) /\ Handle(h, "missed", s)
             \/ NoMatchBefore(next) /\ next <= now /\ Handle(h, "missed", next)
             \/ NoMatchBefore(next) /\ next > now /\ UNCHANGED handler
    BY <1>3 DEF Missed
  <2>2. expected \in Slots
    BY <1>3 DEF Missed, SlotTypeOK
  <2>3. expected < next /\ next < expected + Lookback
    <3>1. PICK n \in Slots : IsNext(n, expected) /\ n < expected + Lookback
      BY DEF Near
    <3>2. n = next
      BY <1>0, <2>1, <3>1 DEF IsNext
    <3> QED
      BY <2>1, <3>1, <3>2 DEF IsNext
  <2>4. ~NoMatchBefore(next)
    BY <1>0, <2>2, <2>3 DEF NoMatchBefore
  <2>5. \A s \in Slots : PreviousMatch(s, next) => s = expected
    BY <1>0, <2>1, <2>2, <2>3 DEF PreviousMatch, IsLast, IsNext
  <2> QED
    BY <1>1, <2>1, <2>4, <2>5
<1> QED
  BY <1>2, <1>3

LEMMA DropInvStep == DropInv /\ [SlotNext]_slotVars => DropInv'
<1> SUFFICES ASSUME DropInv, [SlotNext]_slotVars PROVE DropInv'
  OBVIOUS
<1>1. AccountedInv' /\ SlotTypeOK /\ SlotTypeOK'
  BY AccountedStep DEF DropInv, AccountedInv
<1>2. InTheirTime'
  BY <1>1, TheirTimeStep DEF DropInv
<1>3. ASSUME process' # "down", NEW s \in Slots, loaded' < s, s < expected', Near(s) PROVE SeenTo(s)'
  <2>1. now \in Nat /\ loaded \in Nat /\ expected \in Nat /\ Slots \subseteq Nat
    BY <1>1, SlotNumbers
  <2>2. ~(Start \/ Reload)
    BY <1>3, <2>1 DEF Start, Reload, Load, IsNext
  <2>3. process # "down" /\ loaded' = loaded
    BY <1>3, <2>2
       DEF SlotNext, Tick, Crash, CatchUp, Fire, Missed, Claim, Run, Record, slotVars
  <2>4. CASE s < expected
    <3>1. SeenTo(s)
      BY <1>3, <2>3, <2>4 DEF DropInv, NothingDropped
    <3> QED
      BY <1>3, <2>2, <2>3, <3>1, SeenToStays
  <2>5. CASE ~(s < expected)
    <3>1. PICK h \in Handlers : Fire(h) \/ Missed(h)
      BY <1>3, <2>2, <2>5 DEF SlotNext, Tick, Crash, CatchUp, Claim, Run, Record, slotVars
    <3>2. \E next \in Slots : IsNext(next, expected) /\ expected' = next
      BY <3>1 DEF Fire, Missed
    <3>3. s = expected
      BY <1>3, <2>1, <2>5, <3>2 DEF IsNext
    <3> QED
      BY <1>1, <1>3, <3>1, <3>3, ExpectedSeenTo
  <2> QED
    BY <2>4, <2>5
<1> QED
  BY <1>1, <1>2, <1>3 DEF DropInv, NothingDropped

LEMMA DropInit == SlotInit => DropInv
<1> SUFFICES ASSUME SlotInit PROVE DropInv
  OBVIOUS
<1>1. AccountedInv
  BY SlotInitInv DEF SlotInit, SlotInv, AccountedInv, ClaimAccounted
<1>2. \A h \in Handlers : handler[h].stage = "idle"
  BY DEF SlotInit, Idle
<1>3. process = "down" /\ lost = {}
  BY DEF SlotInit
<1> QED
  BY <1>1, <1>2, <1>3 DEF DropInv, InTheirTime, NothingDropped

(* recordSkippedScheduleExecution passes no slot over that the lookback     *)
(* reaches from the next one, whenever node-cron reports it: between the    *)
(* loading of a schedule and the slot its task waits for, each is run,      *)
(* recorded or in hand (scheduler.ts:891, cron-internals.ts:59).            *)
THEOREM NoSlotPassedOver == SlotSpec => []NoSlotDropped
<1>1. DropInv => NoSlotDropped
  BY DEF DropInv, NothingDropped, NoSlotDropped, SeenTo
<1> QED
  BY <1>1, DropInit, DropInvStep, PTL DEF SlotSpec

(* catchUpMissedRunsOnStartup takes up the slot that elapsed last if it is  *)
(* recent enough to be recovered (scheduler.ts:1045): within the window of  *)
(* every job, which the lookback covers, or within a wider one if it        *)
(* reaches from the next slot.                                              *)
THEOREM BootCatchesUp == ASSUME Base < Lookback PROVE SlotSpec => BootRecovers
<1> DEFINE Recovers ==
      process = "starting" /\ process' = "up" =>
        \A s \in Slots :
          /\ IsLast(s, now) /\ Recoverable(s, now) /\ s \notin locks
          /\ now <= s + Base \/ Near(s)
          => \E h \in Handlers : handler'[h].stage # "idle" /\ handler'[h].slot = s
<1>1. SlotInv /\ [SlotNext]_slotVars => [Recovers]_slotVars
  <2> SUFFICES ASSUME SlotInv, SlotNext, process = "starting", process' = "up",
                      NEW s \in Slots, IsLast(s, now), Recoverable(s, now),
                      now <= s + Base \/ Near(s)
               PROVE  \E h \in Handlers : handler'[h].stage # "idle" /\ handler'[h].slot = s
    OBVIOUS
  <2>1. PICK h \in Handlers : CatchUp(h)
    BY DEF SlotNext, Tick, Start, Reload, Crash, Fire, Missed, Claim, Run, Record
  <2>2. /\ now \in Nat /\ Slots \subseteq Nat /\ Lookback \in Nat /\ Base \in Nat
        /\ handler \in [Handlers -> HandlerStates]
    BY SlotNumbers, WindowsAssumption DEF SlotInv, SlotTypeOK
  <2>3. now < s + Lookback
    <3>1. CASE now <= s + Base
      BY <2>2, <3>1
    <3>2. CASE Near(s)
      <4>1. PICK n \in Slots : IsNext(n, s) /\ n < s + Lookback
        BY <3>2 DEF Near
      <4>2. ~(n < now)
        BY <2>2, <4>1 DEF IsNext, IsLast
      <4> QED
        BY <2>2, <4>1, <4>2
    <3> QED
      BY <3>1, <3>2
  <2>4. PreviousMatch(s, now)
    BY <2>2, <2>3 DEF PreviousMatch
  <2>5. PICK t \in Slots : PreviousMatch(t, now) /\ Handle(h, "boot", t)
    BY <2>1, <2>4 DEF CatchUp
  <2>6. t = s
    BY <2>2, <2>4, <2>5 DEF PreviousMatch, IsLast
  <2>7. handler'[h].stage # "idle" /\ handler'[h].slot = s
    BY <2>2, <2>5, <2>6 DEF Handle
  <2> QED
    BY <2>7
<1> QED
  BY <1>1, SlotInvariant, PTL DEF SlotSpec, BootRecovers

-----------------------------------------------------------------------------
(*                              The run ledger                             *)

Statuses == {"none", "missed", "running", "ended", "abandoned"}
Records == [id : Nat, job : Jobs \union {"none"}, status : Statuses, at : Nat]
Ops == {"start", "attempt", "finish", "miss", "skip", "close", "dismiss", "list", "clear", "abandon"}
StoreCalls == [op : Ops, id : Nat, job : Jobs \union {"none"}, jobs : SUBSET Jobs,
               read : SUBSET Records]

(* An operation that enters a record enters it under the id that it brings. *)
Enters(call) == call.op \in {"start", "miss", "skip"}
OneMiss(records) ==
  \A r, s \in records : IsMissed(r) /\ IsMissed(s) /\ r.job = s.job => r = s

(* The callers of the store, whose values go into the calls.                *)
CallersOK ==
  /\ runs \in [Jobs -> [doing : {"none", "queued", "opening", "working", "noting", "closing"},
                        id : Nat]]
  /\ recovery \in [step : {"idle", "listing", "triggering", "clearing"},
                   jobs : SUBSET (Jobs \union {"none"}), queued : SUBSET Jobs]
  /\ skips \subseteq Nat

(* Only the call at the head has loaded the document, and since then nobody *)
(* has saved it; ids that are still to be entered are new ones.             *)
NewId(n) == n <= time /\ n \notin Ids(ledger) /\ n \notin dismissed

StoreInv ==
  /\ time \in Nat /\ ledger \subseteq Records /\ dismissed \subseteq Nat
  /\ calls \in Seq(StoreCalls)
  /\ late \subseteq [job : Jobs, at : Nat]
  /\ \A i \in 1..Len(calls) : calls[i].read # Unread => i = 1 /\ calls[i].read = ledger
  /\ OneMiss(ledger)
  /\ \A n \in Ids(ledger) \union dismissed : n <= time
  /\ StaysDismissed
  /\ \A i \in 1..Len(calls) : Enters(calls[i]) => NewId(calls[i].id)
  /\ \A i, j \in 1..Len(calls) :
       Enters(calls[i]) /\ Enters(calls[j]) /\ calls[i].id = calls[j].id => i = j
  /\ \A slot \in late :
       /\ NewId(slot.at)
       /\ \A i \in 1..Len(calls) : Enters(calls[i]) => calls[i].id # slot.at
       /\ \A other \in late : other.at = slot.at => other = slot

(* What an operation makes of the records: no id but its own is new, and a  *)
(* job keeps at most one entry of what it missed.                           *)
LEMMA Rewriting ==
  ASSUME NEW R \in SUBSET Records, OneMiss(R), NEW call \in StoreCalls
  PROVE  /\ Rewritten(call, R) \subseteq Records
         /\ OneMiss(Rewritten(call, R))
         /\ \A n \in Ids(Rewritten(call, R)) : n \in Ids(R) \/ (Enters(call) /\ n = call.id)
<1> USE DEF OneMiss, Ids, IsMissed, Records, Statuses
<1>1. CASE call.op \in {"start", "skip"}
  <2>1. Rewritten(call, R) = R \union
          {[id |-> call.id, job |-> call.job, status |-> "running", at |-> call.id]}
    BY <1>1 DEF Rewritten
  <2> QED
    BY <1>1, <2>1 DEF Enters, StoreCalls
<1>2. CASE call.op \in {"finish", "close"}
  <2>1. Rewritten(call, R) =
          {IF r.id = call.id THEN [r EXCEPT !.status = "ended"] ELSE r : r \in R}
    BY <1>2 DEF Rewritten
  <2> QED
    BY <2>1
<1>3. CASE call.op = "miss"
  <2> DEFINE mine == {r \in R : IsMissed(r) /\ r.job = call.job}
             head == CHOOSE r \in mine : \A s \in mine : s.at <= r.at
  <2>1. Rewritten(call, R) = Collapse(call, R)
    BY <1>3 DEF Rewritten
  <2>2. CASE mine = {}
    <3>1. Rewritten(call, R) = R \union
            {[id |-> call.id, job |-> call.job, status |-> "missed", at |-> call.id]}
      BY <2>1, <2>2 DEF Collapse
    <3> QED
      BY <1>3, <2>2, <3>1 DEF Enters, StoreCalls
  <2>3. CASE mine # {}
    <3>1. PICK m \in mine : mine = {m}
      BY <2>3
    <3>2. head = m
      BY <3>1
    <3>3. Rewritten(call, R) =
            (R \ mine) \union {[head EXCEPT !.at = IF call.id > @ THEN call.id ELSE @]}
      BY <2>1, <2>3 DEF Collapse
    <3>4. Rewritten(call, R) =
            (R \ {m}) \union {[m EXCEPT !.at = IF call.id > @ THEN call.id ELSE @]}
      BY <3>1, <3>2, <3>3
    <3>5. m \in R /\ call.id \in Nat /\ m.job = call.job /\ IsMissed(m)
      BY <3>1 DEF StoreCalls
    <3> HIDE DEF mine, head
    <3>6. \A r \in R \ {m} : ~(IsMissed(r) /\ r.job = m.job)
      BY <3>5
    <3> QED
      BY <3>4, <3>5, <3>6
  <2> QED
    BY <2>2, <2>3
<1>4. CASE call.op = "dismiss"
  BY <1>4 DEF Rewritten
<1>5. CASE call.op = "clear"
  BY <1>5 DEF Rewritten, Cleared
<1>6. CASE call.op = "abandon"
  <2>1. Rewritten(call, R) =
          {IF r.status = "running" THEN [r EXCEPT !.status = "abandoned"] ELSE r : r \in R}
    BY <1>6 DEF Rewritten, Abandoned
  <2> QED
    BY <2>1
<1>7. CASE call.op \in {"attempt", "list"}
  BY <1>7 DEF Rewritten
<1> QED
  BY <1>1, <1>2, <1>3, <1>4, <1>5, <1>6, <1>7 DEF StoreCalls, Ops

(* A call joins the chain: it has not loaded, and enters a new id, if any.  *)
LEMMA CallJoins ==
  ASSUME StoreInv, NEW c \in StoreCalls, c.read = Unread,
         calls' = Append(calls, c), ledger' = ledger, dismissed' = dismissed,
         time' \in Nat, time <= time', late' \subseteq late,
         Enters(c) => /\ c.id <= time' /\ c.id \notin Ids(ledger) /\ c.id \notin dismissed
                      /\ \A i \in 1..Len(calls) : Enters(calls[i]) => calls[i].id # c.id
                      /\ \A slot \in late' : slot.at # c.id
  PROVE  StoreInv'
<1> DEFINE n == Len(calls)
           Later(m) == m <= time' /\ m \notin Ids(ledger') /\ m \notin dismissed'
<1>1. /\ calls' \in Seq(StoreCalls) /\ Len(calls') = n + 1 /\ n \in Nat
      /\ \A i \in 1..n : calls'[i] = calls[i]
      /\ calls'[n + 1] = c
  BY DEF StoreInv
<1>2. \A i \in 1..Len(calls') : i \in 1..n \/ i = n + 1
  BY <1>1
<1>3. Ids(ledger)' = Ids(ledger)
  BY DEF Ids
<1>4. \A m \in Nat : m <= time => m <= time'
  BY DEF StoreInv
<1>5. \A m \in Nat : NewId(m) => Later(m)
  BY <1>4 DEF NewId
<1>6. \A i \in 1..n : calls[i].id \in Nat
  <2>1. \A i \in 1..n : calls[i] \in StoreCalls
    BY DEF StoreInv
  <2> QED
    BY <2>1 DEF StoreCalls
<1>7. \A m \in Ids(ledger) \union dismissed : m \in Nat
  BY DEF StoreInv, Ids, Records
<1>8. \A i \in 1..Len(calls') : calls'[i].read # Unread => i = 1 /\ calls'[i].read = ledger'
  BY <1>1, <1>2 DEF StoreInv
<1>9. \A i \in 1..Len(calls') : Enters(calls'[i]) => Later(calls'[i].id)
  <2>1. Enters(c) => Later(c.id)
    OBVIOUS
  <2> QED
    BY <1>1, <1>2, <1>5, <1>6, <2>1 DEF StoreInv
<1>10. \A i, j \in 1..Len(calls') :
         Enters(calls'[i]) /\ Enters(calls'[j]) /\ calls'[i].id = calls'[j].id => i = j
  BY <1>1, <1>2 DEF StoreInv
<1>11. \A slot \in late' :
         /\ Later(slot.at)
         /\ \A i \in 1..Len(calls') : Enters(calls'[i]) => calls'[i].id # slot.at
         /\ \A other \in late' : other.at = slot.at => other = slot
  BY <1>1, <1>2, <1>5 DEF StoreInv
<1>12. OneMiss(ledger)' /\ StaysDismissed'
  BY <1>3 DEF StoreInv, OneMiss, StaysDismissed
<1> QED
  BY <1>1, <1>3, <1>4, <1>7, <1>8, <1>9, <1>10, <1>11, <1>12 DEF StoreInv, NewId

(* The call at the head leaves the chain, and may have saved.               *)
LEMMA HeadLeaves ==
  ASSUME StoreInv, calls # <<>>, calls' = Tail(calls), time' = time, late' = late,
         ledger' \subseteq Records, OneMiss(ledger'),
         dismissed' \subseteq dismissed \union Ids(ledger),
         \A m \in Ids(ledger') : m \in Ids(ledger) \/ (Enters(calls[1]) /\ m = calls[1].id),
         dismissed' \intersect Ids(ledger') = {}
  PROVE  StoreInv'
<1> DEFINE n == Len(calls)
           Later(m) == m <= time' /\ m \notin Ids(ledger') /\ m \notin dismissed'
<1>1. /\ n \in Nat /\ n >= 1 /\ Len(calls') = n - 1 /\ calls' \in Seq(StoreCalls)
      /\ \A i \in 1..n - 1 : calls'[i] = calls[i + 1] /\ i + 1 \in 1..n /\ i + 1 # 1
  BY DEF StoreInv
<1>2. Ids(ledger)' = Ids(ledger')
  BY DEF Ids
<1>3. calls[1] \in StoreCalls /\ 1 \in 1..n
  BY <1>1 DEF StoreInv
<1>4. \A m \in Ids(ledger') \union dismissed' : m <= time /\ m \in Nat
  <2>1. \A m \in Ids(ledger) \union dismissed : m <= time /\ m \in Nat
    BY DEF StoreInv, Ids, Records
  <2>2. Enters(calls[1]) => calls[1].id <= time /\ calls[1].id \in Nat
    BY <1>3 DEF StoreInv, NewId, StoreCalls
  <2> QED
    BY <2>1, <2>2
<1>5. \A m : NewId(m) /\ (Enters(calls[1]) => m # calls[1].id) => Later(m)
  BY DEF NewId
<1>6. \A i \in 1..n - 1 : calls'[i].read = Unread
  BY <1>1 DEF StoreInv
<1>7. \A i \in 1..n - 1 : Enters(calls'[i]) => Later(calls'[i].id)
  <2> TAKE i \in 1..n - 1
  <2>1. calls'[i] = calls[i + 1] /\ i + 1 \in 1..n /\ i + 1 # 1
    BY <1>1
  <2>2. Enters(calls[i + 1]) => NewId(calls[i + 1].id)
    BY <2>1 DEF StoreInv
  <2>3. Enters(calls[i + 1]) /\ Enters(calls[1]) => calls[i + 1].id # calls[1].id
    BY <1>3, <2>1 DEF StoreInv
  <2> QED
    BY <1>5, <2>1, <2>2, <2>3
<1>8. \A i, j \in 1..n - 1 :
        Enters(calls'[i]) /\ Enters(calls'[j]) /\ calls'[i].id = calls'[j].id => i = j
  <2> TAKE i, j \in 1..n - 1
  <2>1. /\ calls'[i] = calls[i + 1] /\ i + 1 \in 1..n
        /\ calls'[j] = calls[j + 1] /\ j + 1 \in 1..n
    BY <1>1
  <2>2. Enters(calls[i + 1]) /\ Enters(calls[j + 1]) /\ calls[i + 1].id = calls[j + 1].id
          => i + 1 = j + 1
    BY <2>1 DEF StoreInv
  <2> QED
    BY <2>1, <2>2
<1>9. \A slot \in late' :
        /\ Later(slot.at)
        /\ \A i \in 1..n - 1 : Enters(calls'[i]) => calls'[i].id # slot.at
        /\ \A other \in late' : other.at = slot.at => other = slot
  <2> TAKE slot \in late'
  <2>1. /\ NewId(slot.at)
        /\ \A i \in 1..n : Enters(calls[i]) => calls[i].id # slot.at
        /\ \A other \in late : other.at = slot.at => other = slot
    BY DEF StoreInv
  <2> QED
    BY <1>1, <1>3, <1>5, <2>1
<1>10. dismissed' \subseteq Nat
  BY <1>4
<1> QED
  BY <1>1, <1>2, <1>4, <1>6, <1>7, <1>8, <1>9, <1>10
  DEF StoreInv, OneMiss, StaysDismissed, NewId

LEMMA CallLoads == ASSUME StoreInv, NEW k, ReadCall(k) PROVE StoreInv'
<1> DEFINE n == Len(calls)
<1>1. /\ n \in Nat /\ 1 \in 1..n /\ calls' = [calls EXCEPT ![1].read = ledger]
      /\ UNCHANGED <<time, ledger, late, dismissed>>
  BY DEF ReadCall, StoreInv
<1>2. \A i \in 1..n : calls[i] \in StoreCalls
  BY DEF StoreInv
<1>3. /\ calls' \in Seq(StoreCalls) /\ Len(calls') = n
      /\ \A i \in 1..n : calls'[i] = IF i = 1 THEN [calls[1] EXCEPT !.read = ledger]
                                              ELSE calls[i]
  <2>1. [calls[1] EXCEPT !.read = ledger] \in StoreCalls
    BY <1>1, <1>2, ZenonT(30) DEF StoreInv, StoreCalls
  <2> QED
    BY <1>1, <2>1 DEF StoreInv
<1>4. \A i \in 1..n : /\ calls'[i].op = calls[i].op /\ calls'[i].id = calls[i].id
                      /\ calls'[i].read = IF i = 1 THEN ledger ELSE calls[i].read
  BY <1>1, <1>2, <1>3 DEF StoreCalls
<1>5. \A i \in 1..n : Enters(calls'[i]) <=> Enters(calls[i])
  BY <1>4 DEF Enters
<1> QED
  BY <1>1, <1>3, <1>4, <1>5 DEF StoreInv, NewId, OneMiss, StaysDismissed, Ids

LEMMA SlotPasses == ASSUME StoreInv, NEW j \in Jobs, PassSlot(j) PROVE StoreInv'
<1>1. /\ time' = time + 1 /\ time \in Nat
      /\ late' = late \union {[job |-> j, at |-> time + 1]}
      /\ UNCHANGED <<calls, ledger, dismissed>>
  BY DEF PassSlot, StoreInv
<1>2. \A i \in 1..Len(calls) : Enters(calls[i]) => calls[i].id <= time
  BY DEF StoreInv, NewId
<1>3. \A slot \in late : slot.at <= time /\ slot.at \in Nat
  BY DEF StoreInv, NewId
<1>4. \A i \in 1..Len(calls) : calls[i].id \in Nat
  <2>1. \A i \in 1..Len(calls) : calls[i] \in StoreCalls
    BY DEF StoreInv
  <2> QED
    BY <2>1 DEF StoreCalls
<1>5. \A m \in Ids(ledger) \union dismissed : m <= time /\ m \in Nat
  BY DEF StoreInv, Ids, Records
<1>6. \A m \in Nat : m <= time => m <= time' /\ m # time + 1
  BY <1>1
<1>7. \A slot \in late' :
        /\ slot.at <= time' /\ slot.at \notin Ids(ledger) /\ slot.at \notin dismissed
        /\ \A i \in 1..Len(calls) : Enters(calls[i]) => calls[i].id # slot.at
        /\ \A other \in late' : other.at = slot.at => other = slot
  <2> TAKE slot \in late'
  <2>1. CASE slot \in late
    BY <1>1, <1>3, <1>6, <2>1 DEF StoreInv, NewId
  <2>2. CASE slot = [job |-> j, at |-> time + 1]
    BY <1>1, <1>2, <1>3, <1>4, <1>5, <1>6, <2>2
  <2> QED
    BY <1>1, <2>1, <2>2
<1>8. \A i \in 1..Len(calls) : Enters(calls[i]) => calls[i].id <= time'
  BY <1>2, <1>4, <1>6
<1>9. \A m \in Ids(ledger) \union dismissed : m <= time'
  BY <1>5, <1>6
<1>10. late' \subseteq [job : Jobs, at : Nat]
  BY <1>1 DEF StoreInv
<1> QED
  BY <1>1, <1>7, <1>8, <1>9, <1>10 DEF StoreInv, NewId, OneMiss, StaysDismissed, Ids

(* Steps that touch neither the chain nor what is entered.                  *)
LEMMA ElsewhereStep ==
  ASSUME StoreInv, UNCHANGED <<time, calls, ledger, late, dismissed>> PROVE StoreInv'
BY DEF StoreInv, NewId, OneMiss, StaysDismissed, Ids, IsMissed

LEMMA ChainIsLost ==
  ASSUME StoreInv, calls' = <<>>, UNCHANGED <<time, ledger, late, dismissed>> PROVE StoreInv'
BY DEF StoreInv, NewId, OneMiss, StaysDismissed, Ids, IsMissed

LEMMA CallSaves == ASSUME StoreInv, SaveCall PROVE StoreInv'
<1> DEFINE c == calls[1]
           made == Rewritten(c, ledger)
<1>1. /\ calls # <<>> /\ calls' = Tail(calls) /\ UNCHANGED <<time, late>>
      /\ c.read # Unread /\ ledger' = Newest(Rewritten(c, c.read))
      /\ dismissed' = IF c.op = "dismiss"
                      THEN dismissed \union (Ids(c.read) \ Ids(Rewritten(c, c.read)))
                      ELSE dismissed
  BY DEF SaveCall
<1>2. c \in StoreCalls /\ 1 \in 1..Len(calls)
  BY <1>1 DEF StoreInv
<1>3. c.read = ledger
  BY <1>1, <1>2 DEF StoreInv
<1>4. ledger \in SUBSET Records /\ OneMiss(ledger)
  BY DEF StoreInv
<1>5. /\ made \subseteq Records /\ OneMiss(made)
      /\ \A m \in Ids(made) : m \in Ids(ledger) \/ (Enters(c) /\ m = c.id)
  BY <1>2, <1>4, Rewriting
<1>6. ledger' \subseteq made
  BY <1>1, <1>3 DEF Newest
<1>7. Ids(ledger') \subseteq Ids(made)
  BY <1>6 DEF Ids
<1>8. ledger' \subseteq Records /\ OneMiss(ledger')
  BY <1>5, <1>6 DEF OneMiss
<1>9. dismissed' \subseteq dismissed \union Ids(ledger)
  BY <1>1, <1>3
<1>10. dismissed' \intersect Ids(ledger') = {}
  <2>1. dismissed \intersect Ids(made) = {}
    <3>1. dismissed \intersect Ids(ledger) = {}
      BY DEF StoreInv, StaysDismissed
    <3>2. Enters(c) => c.id \notin dismissed
      BY <1>2 DEF StoreInv, NewId
    <3> QED
      BY <1>5, <3>1, <3>2
  <2>2. dismissed' \subseteq dismissed \union (Ids(ledger) \ Ids(made))
    BY <1>1, <1>3
  <2> QED
    BY <1>7, <2>1, <2>2
<1>11. \A m \in Ids(ledger') : m \in Ids(ledger) \/ (Enters(c) /\ m = c.id)
  BY <1>5, <1>7
<1> QED
  BY <1>1, <1>8, <1>9, <1>10, <1>11, HeadLeaves

LEMMA CallIsLost == ASSUME StoreInv, CallFails PROVE StoreInv'
<1>1. /\ calls # <<>> /\ calls' = Tail(calls) /\ UNCHANGED <<time, ledger, late, dismissed>>
  BY DEF CallFails
<1>2. /\ ledger' \subseteq Records /\ OneMiss(ledger')
      /\ dismissed' \subseteq dismissed \union Ids(ledger)
      /\ \A m \in Ids(ledger') : m \in Ids(ledger)
      /\ dismissed' \intersect Ids(ledger') = {}
  BY <1>1 DEF StoreInv, StaysDismissed
<1> QED
  BY <1>1, <1>2, HeadLeaves

(* What the caller makes of an answer.                                      *)
LEMMA AnswersOK ==
  ASSUME StoreInv, CallersOK, calls # <<>>, NEW ok \in BOOLEAN, Answer(calls[1], ok),
         skips' \subseteq skips \union {calls[1].id}
  PROVE  CallersOK'
<1> DEFINE c == calls[1]
<1>1. c \in StoreCalls
  BY DEF StoreInv
<1>2. c.op \in Ops /\ c.id \in Nat /\ c.read \subseteq Records
  BY <1>1 DEF StoreCalls
<1> HIDE DEF c
<1> USE DEF CallersOK
<1>3. CASE c.op = "start"
  BY <1>2, <1>3 DEF Answer, c
<1>10. skips' \subseteq Nat
  BY <1>2 DEF c
<1>4. CASE c.op = "attempt"
  <2>1. runs' = [runs EXCEPT ![c.job].doing = "working"] /\ recovery' = recovery
    BY <1>4 DEF Answer, Does, c
  <2> QED
    BY ONLY CallersOK, <1>10, <2>1 DEF CallersOK
<1>5. CASE c.op = "finish"
  BY <1>2, <1>5 DEF Answer, Resting, c
<1>6. CASE c.op = "list"
  <2>1. {r.job : r \in {s \in c.read : IsMissed(s)}} \subseteq Jobs \union {"none"}
    BY <1>2 DEF Records
  <2>2. /\ recovery' = IF ok THEN [step |-> "triggering", queued |-> {},
                                   jobs |-> {r.job : r \in {s \in c.read : IsMissed(s)}}]
                             ELSE Closed
        /\ runs' = runs
    BY <1>6 DEF Answer, c
  <2> QED
    BY <1>2, <2>1, <2>2 DEF Closed, c
<1>7. CASE c.op = "clear"
  BY <1>2, <1>7 DEF Answer, Closed, c
<1>8. CASE c.op = "abandon"
  BY <1>2, <1>8 DEF Answer, c
<1>9. CASE c.op \in {"miss", "skip", "close", "dismiss"}
  BY <1>2, <1>9 DEF Answer, c
<1> QED
  BY <1>2, <1>3, <1>4, <1>5, <1>6, <1>7, <1>8, <1>9 DEF Ops

(* A step of a run, or of the operator, that only asks the store for a      *)
(* call: the call fits, and enters nothing.                                 *)
LEMMA AskedOnly ==
  ASSUME StoreInv, NEW op \in Ops \ {"start", "miss", "skip"}, NEW id \in Nat,
         NEW job \in Jobs \union {"none"}, NEW jobs \in SUBSET Jobs, Append1(op, id, job, jobs),
         UNCHANGED <<time, ledger, late, dismissed>>
  PROVE  StoreInv'
<1> DEFINE c == [op |-> op, id |-> id, job |-> job, jobs |-> jobs, read |-> Unread]
<1>1. c \in StoreCalls /\ c.read = Unread /\ ~Enters(c)
  BY DEF StoreCalls, Unread, Records, Statuses, Enters
<1>2. calls' = Append(calls, c)
  BY DEF Append1
<1>3. time' \in Nat /\ time <= time'
  BY DEF StoreInv
<1> HIDE DEF c
<1> QED
  BY <1>1, <1>2, <1>3, CallJoins

LEMMA RecordOpens == ASSUME StoreInv, NEW j \in Jobs, OpenRecord(j) PROVE StoreInv'
<1> DEFINE c == [op |-> "start", id |-> time + 1, job |-> j, jobs |-> {}, read |-> Unread]
<1>1. /\ time \in Nat /\ time' = time + 1 /\ calls' = Append(calls, c)
      /\ UNCHANGED <<ledger, late, dismissed>>
  BY DEF OpenRecord, Append1, StoreInv
<1>2. c \in StoreCalls /\ c.read = Unread /\ c.id = time + 1
  BY <1>1 DEF StoreCalls, Unread, Records, Statuses, Ops
<1>3. \A i \in 1..Len(calls) : Enters(calls[i]) => calls[i].id <= time
  BY DEF StoreInv, NewId
<1>4. \A slot \in late : slot.at <= time
  BY DEF StoreInv, NewId
<1>5. \A m \in Ids(ledger) \union dismissed : m <= time
  BY DEF StoreInv
<1>6. ~(time + 1 <= time)
  BY <1>1
<1> HIDE DEF c
<1> QED
  BY <1>1, <1>2, <1>3, <1>4, <1>5, <1>6, CallJoins

(* A slot is entered, as missed or as skipped.                              *)
LEMMA SlotEntered ==
  ASSUME StoreInv, NEW op \in {"miss", "skip"}, NEW slot \in late, late' = late \ {slot},
         Append1(op, slot.at, slot.job, {}), UNCHANGED <<time, ledger, dismissed>>
  PROVE  StoreInv'
<1> DEFINE c == [op |-> op, id |-> slot.at, job |-> slot.job, jobs |-> {}, read |-> Unread]
<1>2. calls' = Append(calls, c)
  BY DEF Append1
<1>3. slot \in [job : Jobs, at : Nat] /\ time \in Nat
  BY DEF StoreInv
<1>4. c \in StoreCalls /\ c.read = Unread /\ c.id = slot.at
  BY <1>3 DEF StoreCalls, Unread, Records, Statuses, Ops
<1>5. /\ NewId(slot.at)
      /\ \A i \in 1..Len(calls) : Enters(calls[i]) => calls[i].id # slot.at
      /\ \A other \in late' : other.at # slot.at
  BY DEF StoreInv
<1> HIDE DEF c
<1> QED
  BY <1>2, <1>3, <1>4, <1>5, CallJoins DEF NewId

LEMMA StoreInvStep == StoreInv /\ CallersOK /\ [LedgerNext]_ledgerVars => StoreInv' /\ CallersOK'
<1> SUFFICES ASSUME StoreInv, CallersOK, [LedgerNext]_ledgerVars
             PROVE StoreInv' /\ CallersOK'
  OBVIOUS
<1> USE DEF CallersOK
<1>1. ASSUME NEW i \in 1..MaxCalls, ReadCall(i) PROVE StoreInv' /\ CallersOK'
  BY <1>1, CallLoads DEF ReadCall
<1>2. CASE SaveCall
  BY <1>2, CallSaves, AnswersOK DEF SaveCall
<1>3. CASE CallFails
  BY <1>3, CallIsLost, AnswersOK DEF CallFails
<1>4. ASSUME NEW j \in Jobs, Trigger(j) PROVE StoreInv' /\ CallersOK'
  BY <1>4, ElsewhereStep DEF Trigger, Does
<1>5. ASSUME NEW j \in Jobs, OpenRecord(j) PROVE StoreInv' /\ CallersOK'
  BY <1>5, RecordOpens DEF OpenRecord, Does
<1>6. ASSUME NEW j \in Jobs, NoteAttempt(j) PROVE StoreInv' /\ CallersOK'
  BY <1>6, AskedOnly DEF NoteAttempt, Does, Ops
<1>7. ASSUME NEW j \in Jobs, End(j) PROVE StoreInv' /\ CallersOK'
  <2>1. CallersOK'
    BY <1>7 DEF End, Does, Resting
  <2>2. UNCHANGED <<time, ledger, late, dismissed>> /\ runs[j].id \in Nat
    BY <1>7 DEF End
  <2>3. ASSUME Append1("finish", runs[j].id, j, {}) PROVE StoreInv'
    BY <2>2, <2>3, AskedOnly DEF Ops
  <2>4. ASSUME UNCHANGED calls PROVE StoreInv'
    BY <2>2, <2>4, ElsewhereStep
  <2> QED
    BY <1>7, <2>1, <2>3, <2>4 DEF End
<1>8. ASSUME NEW j \in Jobs, PassSlot(j) PROVE StoreInv' /\ CallersOK'
  BY <1>8, SlotPasses DEF PassSlot
<1>9. ASSUME NEW j \in Jobs, RecoverJob(j) PROVE StoreInv' /\ CallersOK'
  <2>1. StoreInv'
    BY <1>9, ElsewhereStep DEF RecoverJob
  <2>2. runs' = runs \/ runs' = [runs EXCEPT ![j].doing = "queued"]
    BY <1>9 DEF RecoverJob, Does
  <2>3. \/ recovery' = [recovery EXCEPT !.jobs = @ \ {j}, !.queued = @ \cup {j}]
        \/ recovery' = [recovery EXCEPT !.jobs = @ \ {j}]
    BY <1>9 DEF RecoverJob
  <2>4. recovery' \in [step : {"idle", "listing", "triggering", "clearing"},
                       jobs : SUBSET (Jobs \union {"none"}), queued : SUBSET Jobs]
    <3> DEFINE q1 == recovery.queued \union {j}
               j1 == recovery.jobs \ {j}
    <3>1. q1 \in SUBSET Jobs /\ j1 \in SUBSET (Jobs \union {"none"})
      OBVIOUS
    <3>2. \/ recovery' = [recovery EXCEPT !.jobs = j1, !.queued = q1]
          \/ recovery' = [recovery EXCEPT !.jobs = j1]
      BY <2>3
    <3> HIDE DEF q1, j1
    <3> QED
      BY <3>1, <3>2
  <2>5. skips' = skips
    BY <1>9 DEF RecoverJob
  <2> QED
    BY <2>1, <2>2, <2>4, <2>5
<1>10. CASE ReportMiss
  BY <1>10, SlotEntered DEF ReportMiss
<1>17. CASE SkipSlot
  BY <1>17, SlotEntered DEF SkipSlot
<1>18. ASSUME NEW n \in skips, CloseSkip(n) PROVE StoreInv' /\ CallersOK'
  BY <1>18, AskedOnly, SMTT(30) DEF CloseSkip, Ops
<1>11. CASE Dismiss
  <2>1. PICK r \in ledger : Append1("dismiss", r.id, r.job, {})
    BY <1>11 DEF Dismiss
  <2>2. r \in Records
    BY DEF StoreInv
  <2>3. r.id \in Nat /\ r.job \in Jobs \union {"none"}
    BY <2>2 DEF Records
  <2>4. UNCHANGED <<time, ledger, late, dismissed, runs, skips, recovery>>
    BY <1>11 DEF Dismiss
  <2>5. StoreInv'
    BY <2>1, <2>3, <2>4, AskedOnly DEF Ops
  <2> QED
    BY <2>4, <2>5
<1>12. CASE Recover
  BY <1>12, AskedOnly DEF Recover, Closed, Ops
<1>13. CASE RecoverClears
  <2>1. CallersOK'
    BY <1>13 DEF RecoverClears, Closed
  <2>2. UNCHANGED <<time, ledger, late, dismissed>> /\ recovery.queued \in SUBSET Jobs
    BY <1>13 DEF RecoverClears
  <2>3. ASSUME Append1("clear", 0, "none", recovery.queued) PROVE StoreInv'
    BY <2>2, <2>3, AskedOnly DEF Ops
  <2>4. ASSUME UNCHANGED calls PROVE StoreInv'
    BY <2>2, <2>4, ElsewhereStep
  <2> QED
    BY <1>13, <2>1, <2>3, <2>4 DEF RecoverClears
<1>14. CASE Reconcile
  BY <1>14, AskedOnly DEF Reconcile, Ops
<1>15. CASE Killed
  <2>1. CallersOK'
    BY <1>15 DEF Killed, Resting, Closed
  <2> QED
    BY <1>15, <2>1, ChainIsLost DEF Killed
<1>16. CASE UNCHANGED ledgerVars
  BY <1>16, ElsewhereStep DEF ledgerVars
<1> QED
  BY <1>1, <1>2, <1>3, <1>4, <1>5, <1>6, <1>7, <1>8, <1>9, <1>10, <1>11, <1>12, <1>13, <1>14,
     <1>15, <1>16, <1>17, <1>18 DEF LedgerNext

(* An entry that the operator dismissed stays away, whatever is reported,   *)
(* opened, cleared or reconciled at the time, fails or is cut off by a      *)
(* crash: the chain of scheduler-runs.ts:16 keeps the operations apart.     *)
THEOREM DismissedStaysAway == LedgerSpec => []StaysDismissed
<1>1. LedgerInit => StoreInv /\ CallersOK
  BY DEF LedgerInit, StoreInv, CallersOK, Resting, Closed, OneMiss, StaysDismissed, Ids, NewId
<1>2. StoreInv => StaysDismissed
  BY DEF StoreInv
<1> QED
  BY <1>1, <1>2, StoreInvStep, PTL DEF LedgerSpec

-----------------------------------------------------------------------------
(* A call about the record of a run is that of the run, which waits for it. *)
Waiting(call) ==
  /\ call.op = "start" => /\ call.job \in Jobs /\ call.id # 0
                          /\ runs[call.job].doing = "opening"
  /\ call.op = "attempt" => call.job \in Jobs /\ runs[call.job].doing = "noting"
  /\ call.op = "finish" => /\ call.job \in Jobs /\ runs[call.job].doing = "closing"
                           /\ runs[call.job].id = call.id

AboutRun(call) == call.op \in {"start", "attempt", "finish"}

(* A process that is not up has no runs; one that starts has only asked to  *)
(* reconcile the records.  Later a record that says "running" is of a run,  *)
(* or of a skipped slot in hand, and a run without a record has no id.      *)
Reconciling == Len(calls) = 1 /\ calls[1].op = "abandon"

OwnedRecords ==
  \A r \in ledger : r.status = "running" =>
    Skipping(r.id) \/ (r.id # 0 /\ \E j \in Jobs : runs[j].id = r.id)

WaitingCalls ==
  /\ \A i \in 1..Len(calls) : Waiting(calls[i]) /\ calls[i].op # "abandon"
  /\ \A i, k \in 1..Len(calls) :
       AboutRun(calls[i]) /\ AboutRun(calls[k]) /\ calls[i].job = calls[k].job => i = k

LiveInv ==
  /\ troubled \in BOOLEAN /\ backend \in {"down", "starting", "up"}
  /\ \A j \in Jobs : runs[j].doing \in {"none", "queued", "opening"} => runs[j].id = 0
  /\ backend # "up" => recovery = Closed /\ skips = {} /\ \A j \in Jobs : runs[j] = Resting
  /\ backend = "down" => calls = <<>>
  /\ backend = "starting" => Reconciling
  /\ backend = "up" /\ ~troubled => OwnedRecords /\ WaitingCalls

(* What an operation makes of the records that say "running".               *)
LEMMA RunningAfter ==
  ASSUME NEW R \in SUBSET Records, OneMiss(R), NEW call \in StoreCalls, NEW r \in Rewritten(call, R),
         r.status = "running"
  PROVE  /\ call.op # "abandon"
         /\ \/ r \in R /\ (call.op \in {"finish", "close"} => r.id # call.id)
            \/ call.op \in {"start", "skip"} /\ r.id = call.id
<1> USE DEF Records, Statuses, IsMissed
<1>1. CASE call.op \in {"start", "skip"}
  BY <1>1 DEF Rewritten
<1>2. CASE call.op \in {"finish", "close"}
  BY <1>2 DEF Rewritten
<1>3. CASE call.op = "miss"
  <2> DEFINE mine == {m \in R : IsMissed(m) /\ m.job = call.job}
             head == CHOOSE m \in mine : \A s \in mine : s.at <= m.at
  <2>1. Rewritten(call, R) = Collapse(call, R)
    BY <1>3 DEF Rewritten
  <2>2. CASE mine = {}
    BY <1>3, <2>1, <2>2 DEF Collapse
  <2>3. CASE mine # {}
    <3>1. PICK m \in mine : mine = {m}
      BY <2>3 DEF OneMiss
    <3>2. head = m
      BY <3>1
    <3>3. r \in (R \ mine) \union {[head EXCEPT !.at = IF call.id > @ THEN call.id ELSE @]}
      BY <2>1, <2>3 DEF Collapse
    <3> QED
      BY <1>3, <3>1, <3>2, <3>3
  <2> QED
    BY <2>2, <2>3
<1>4. CASE call.op = "dismiss"
  BY <1>4 DEF Rewritten
<1>5. CASE call.op = "clear"
  BY <1>5 DEF Rewritten, Cleared
<1>6. CASE call.op = "abandon"
  BY <1>6 DEF Rewritten, Abandoned
<1>7. CASE call.op \in {"attempt", "list"}
  BY <1>7 DEF Rewritten
<1> QED
  BY <1>1, <1>2, <1>3, <1>4, <1>5, <1>6, <1>7 DEF StoreCalls, Ops

(* A call joins the others: a run asks for one at a time.                   *)
LEMMA RunAsks ==
  ASSUME StoreInv, WaitingCalls, NEW j \in Jobs, NEW c \in StoreCalls, calls' = Append(calls, c),
         c.op # "abandon", Waiting(c)', AboutRun(c) => c.job = j,
         runs[j].doing \notin {"opening", "noting", "closing"},
         \A k \in Jobs \ {j} : runs'[k] = runs[k]
  PROVE  WaitingCalls'
<1> DEFINE n == Len(calls)
<1>1. /\ n \in Nat /\ Len(calls') = n + 1 /\ calls'[n + 1] = c
      /\ \A i \in 1..n : calls'[i] = calls[i]
  BY DEF StoreInv
<1>2. ASSUME NEW i \in 1..n PROVE Waiting(calls[i])' /\ (AboutRun(calls[i]) => calls[i].job # j)
  <2>1. Waiting(calls[i])
    BY DEF WaitingCalls
  <2>2. AboutRun(calls[i]) => calls[i].job \in Jobs \ {j}
    BY <2>1 DEF Waiting, AboutRun
  <2>3. calls'[i] = calls[i]
    BY <1>1
  <2> QED
    BY <2>1, <2>2, <2>3 DEF Waiting, AboutRun
<1> QED
  BY <1>1, <1>2 DEF WaitingCalls

LEMMA OthersAsk ==
  ASSUME StoreInv, WaitingCalls, NEW c \in StoreCalls, calls' = Append(calls, c),
         c.op # "abandon", ~AboutRun(c), runs' = runs
  PROVE  WaitingCalls'
<1> DEFINE n == Len(calls)
<1>1. /\ n \in Nat /\ Len(calls') = n + 1 /\ calls'[n + 1] = c
      /\ \A i \in 1..n : calls'[i] = calls[i]
  BY DEF StoreInv
<1>2. Waiting(c)'
  BY DEF AboutRun, Waiting
<1> QED
  BY <1>1, <1>2 DEF WaitingCalls, Waiting

(* What an answer does to the process and to the runs.                      *)
LEMMA AnswerMoves ==
  ASSUME CallersOK, NEW c \in StoreCalls, NEW ok \in BOOLEAN, Answer(c, ok)
  PROVE  /\ backend' = IF c.op = "abandon" THEN "up" ELSE backend
         /\ ~AboutRun(c) => runs' = runs
         /\ AboutRun(c) => \A k \in Jobs \ {c.job} : runs'[k] = runs[k]
         /\ c.job \in Jobs =>
              /\ c.op = "start" =>
                   runs'[c.job] = [doing |-> "working", id |-> IF ok THEN c.id ELSE 0]
              /\ c.op = "attempt" => runs'[c.job] = [doing |-> "working", id |-> runs[c.job].id]
              /\ c.op = "finish" => runs'[c.job] = Resting
<1> USE DEF CallersOK, Answer, AboutRun
<1>0. c.op \in Ops
  BY DEF StoreCalls
<1>1. CASE c.op = "start"
  BY <1>1
<1>2. CASE c.op = "attempt"
  BY <1>2 DEF Does
<1>3. CASE c.op = "finish"
  BY <1>3
<1>4. CASE c.op = "list"
  BY <1>4
<1>5. CASE c.op = "clear"
  BY <1>5
<1>6. CASE c.op = "abandon"
  BY <1>6
<1>7. CASE c.op \in {"miss", "skip", "close", "dismiss"}
  BY <1>7
<1> QED
  BY <1>0, <1>1, <1>2, <1>3, <1>4, <1>5, <1>6, <1>7 DEF Ops

(* The head leaves the chain, and its run goes on.                          *)
LEMMA HeadAnswered ==
  ASSUME StoreInv, CallersOK, WaitingCalls, calls # <<>>, calls' = Tail(calls),
         NEW ok \in BOOLEAN, Answer(calls[1], ok)
  PROVE  WaitingCalls'
<1> DEFINE n == Len(calls)
           c == calls[1]
<1>1. /\ n \in Nat /\ n >= 1 /\ Len(calls') = n - 1
      /\ \A i \in 1..n - 1 : calls'[i] = calls[i + 1] /\ i + 1 \in 1..n /\ i + 1 # 1
  BY DEF StoreInv
<1>2. c \in StoreCalls /\ 1 \in 1..n
  BY <1>1 DEF StoreInv
<1>3. Answer(c, ok)
  OBVIOUS
<1> HIDE DEF c
<1>4. /\ ~AboutRun(c) => runs' = runs
      /\ AboutRun(c) => \A k \in Jobs \ {c.job} : runs'[k] = runs[k]
  BY <1>2, <1>3, AnswerMoves
<1>5. ASSUME NEW i \in 1..n - 1, NEW d, d = calls[i + 1]
      PROVE  Waiting(d)' /\ d.op # "abandon"
  <2>1. Waiting(d) /\ d.op # "abandon" /\ (AboutRun(c) /\ AboutRun(d) => d.job # c.job)
    BY <1>1, <1>2, <1>5 DEF WaitingCalls, c
  <2>2. AboutRun(d) => d.job \in Jobs /\ runs'[d.job] = runs[d.job]
    BY <1>4, <2>1 DEF Waiting, AboutRun
  <2> QED
    BY <2>1, <2>2 DEF Waiting, AboutRun
<1>6. \A i, k \in 1..n - 1 :
        AboutRun(calls'[i]) /\ AboutRun(calls'[k]) /\ calls'[i].job = calls'[k].job => i = k
  <2> TAKE i, k \in 1..n - 1
  <2>1. AboutRun(calls[i + 1]) /\ AboutRun(calls[k + 1]) /\ calls[i + 1].job = calls[k + 1].job
        => i + 1 = k + 1
    BY <1>1 DEF WaitingCalls
  <2> QED
    BY <1>1, <2>1
<1> QED
  BY <1>1, <1>5, <1>6 DEF WaitingCalls

(* A skipped slot stays in hand until the operation that closes it is over. *)
LEMMA SkippingBehindHead ==
  ASSUME StoreInv, calls # <<>>, calls' = Tail(calls), skips \subseteq skips', NEW n, Skipping(n),
         ~(calls[1].op = "close" /\ calls[1].id = n)
  PROVE  Skipping(n)'
<1>1. CASE n \in skips
  BY <1>1 DEF Skipping
<1>2. CASE \E i \in DOMAIN calls : calls[i].op = "close" /\ calls[i].id = n
  <2>1. PICK i \in 1..Len(calls) : calls[i].op = "close" /\ calls[i].id = n
    BY <1>2 DEF StoreInv
  <2>2. /\ i # 1 /\ Len(calls) \in Nat /\ Len(calls') = Len(calls) - 1 /\ calls' \in Seq(StoreCalls)
        /\ \A k \in 1..Len(calls) - 1 : calls'[k] = calls[k + 1]
    BY <2>1 DEF StoreInv
  <2>3. i - 1 \in DOMAIN calls' /\ calls'[i - 1] = calls[i]
    BY <2>1, <2>2
  <2> QED
    BY <2>1, <2>3 DEF Skipping
<1> QED
  BY <1>1, <1>2 DEF Skipping

LEMMA SkippingInFront ==
  ASSUME StoreInv, NEW c \in StoreCalls, calls' = Append(calls, c), NEW n, Skipping(n),
         n \in skips => n \in skips' \/ (c.op = "close" /\ c.id = n)
  PROVE  Skipping(n)'
<1>1. /\ calls' \in Seq(StoreCalls) /\ Len(calls) \in Nat /\ Len(calls') = Len(calls) + 1
      /\ calls'[Len(calls) + 1] = c /\ \A i \in 1..Len(calls) : calls'[i] = calls[i]
  BY DEF StoreInv
<1>2. CASE n \in skips
  <2>1. Len(calls) + 1 \in DOMAIN calls'
    BY <1>1
  <2> QED
    BY <1>1, <1>2, <2>1 DEF Skipping
<1>3. CASE \E i \in DOMAIN calls : calls[i].op = "close" /\ calls[i].id = n
  <2>1. PICK i \in 1..Len(calls) : calls[i].op = "close" /\ calls[i].id = n
    BY <1>3 DEF StoreInv
  <2>2. i \in DOMAIN calls' /\ calls'[i] = calls[i]
    BY <1>1
  <2> QED
    BY <2>1, <2>2 DEF Skipping
<1> QED
  BY <1>2, <1>3 DEF Skipping

(* A step of a process that is up, on which no record and no id depends.    *)
LEMMA UpAsBefore ==
  ASSUME LiveInv, backend = "up", backend' = backend, ledger' = ledger, troubled' = troubled,
         \A j \in Jobs : runs'[j].id = runs[j].id, \A n : Skipping(n) => Skipping(n)',
         \A j \in Jobs : runs'[j].doing \in {"none", "queued", "opening"} => runs'[j].id = 0,
         ~troubled => WaitingCalls'
  PROVE  LiveInv'
BY DEF LiveInv, OwnedRecords

LEMMA RunMoves ==
  ASSUME CallersOK, NEW j \in Jobs, NEW doing, Does(j, doing)
  PROVE  /\ \A k \in Jobs : runs'[k].id = runs[k].id
         /\ \A k \in Jobs \ {j} : runs'[k] = runs[k]
         /\ runs'[j].doing = doing
BY DEF CallersOK, Does

LEMMA SaveLive == ASSUME StoreInv, CallersOK, LiveInv, SaveCall PROVE LiveInv'
<1> DEFINE c == calls[1]
<1>1. /\ calls # <<>> /\ calls' = Tail(calls) /\ troubled' = troubled
      /\ c.read # Unread /\ ledger' = Newest(Rewritten(c, c.read)) /\ Answer(c, TRUE)
  BY DEF SaveCall
<1>2. c \in StoreCalls /\ 1 \in 1..Len(calls)
  BY <1>1 DEF StoreInv
<1>3. c.read = ledger
  BY <1>1, <1>2 DEF StoreInv
<1>4. ledger \in SUBSET Records /\ OneMiss(ledger)
  BY DEF StoreInv
<1>5. ledger' \subseteq Rewritten(c, ledger)
  BY <1>1, <1>3 DEF Newest
<1>6. /\ backend' = IF c.op = "abandon" THEN "up" ELSE backend
      /\ ~AboutRun(c) => runs' = runs
      /\ AboutRun(c) => \A k \in Jobs \ {c.job} : runs'[k] = runs[k]
      /\ c.job \in Jobs =>
           /\ c.op = "start" => runs'[c.job] = [doing |-> "working", id |-> c.id]
           /\ c.op = "attempt" => runs'[c.job] = [doing |-> "working", id |-> runs[c.job].id]
           /\ c.op = "finish" => runs'[c.job] = Resting
  BY <1>1, <1>2, AnswerMoves
<1>7. WaitingCalls => WaitingCalls'
  BY <1>1, HeadAnswered
<1>11. skips \subseteq skips' /\ (c.op = "skip" => c.id \in skips')
  BY DEF SaveCall
<1> HIDE DEF c
<1>8. CASE backend = "starting"
  <2>1. c.op = "abandon" /\ Len(calls) = 1
    BY <1>8 DEF LiveInv, Reconciling, c
  <2>2. calls' = <<>> /\ backend' = "up" /\ runs' = runs
    BY <1>1, <1>6, <2>1 DEF AboutRun, StoreInv
  <2>3. \A r \in ledger' : r.status # "running"
    BY <1>2, <1>4, <1>5, <2>1, RunningAfter
  <2>4. OwnedRecords' /\ WaitingCalls'
    BY <2>2, <2>3 DEF OwnedRecords, WaitingCalls
  <2> QED
    BY <1>1, <2>2, <2>4 DEF LiveInv
<1>9. CASE backend = "up" /\ troubled
  <2>1. backend' = "up" /\ troubled'
    BY <1>1, <1>6, <1>9
  <2>2. ASSUME NEW j \in Jobs, runs'[j].doing \in {"none", "queued", "opening"}
        PROVE  runs'[j].id = 0
    BY <1>6, <2>2 DEF LiveInv, AboutRun, Resting
  <2> QED
    BY <2>1, <2>2 DEF LiveInv
<1>10. CASE backend = "up" /\ ~troubled
  <2>1. OwnedRecords /\ WaitingCalls /\ Waiting(c) /\ backend' = "up"
    BY <1>2, <1>6, <1>10 DEF LiveInv, WaitingCalls, c
  <2>2. ASSUME NEW j \in Jobs, runs'[j].doing \in {"none", "queued", "opening"}
        PROVE  runs'[j].id = 0
    BY <1>6, <2>2 DEF LiveInv, AboutRun, Resting
  <2>3. ASSUME NEW r \in ledger', r.status = "running"
        PROVE  Skipping(r.id)' \/ (r.id # 0 /\ \E j \in Jobs : runs'[j].id = r.id)
    <3>1. \/ r \in ledger /\ (c.op \in {"finish", "close"} => r.id # c.id)
          \/ c.op \in {"start", "skip"} /\ r.id = c.id
      BY <1>2, <1>4, <1>5, <2>3, RunningAfter
    <3>2. CASE c.op = "start" /\ r.id = c.id
      BY <1>6, <2>1, <3>2 DEF Waiting
    <3>4. CASE c.op = "skip" /\ r.id = c.id
      BY <1>11, <3>4 DEF Skipping
    <3>5. CASE r \in ledger /\ (c.op = "close" => r.id # c.id) /\ Skipping(r.id)
      BY <1>1, <1>11, <3>5, SkippingBehindHead DEF c
    <3>3. CASE r \in ledger /\ (c.op = "finish" => r.id # c.id) /\ ~Skipping(r.id)
      <4>1. r.id # 0
        BY <2>1, <2>3, <3>3 DEF OwnedRecords
      <4>2. PICK j \in Jobs : runs[j].id = r.id
        BY <2>1, <2>3, <3>3 DEF OwnedRecords
      <4>3. runs'[j].id = runs[j].id
        BY <1>6, <2>1, <3>3, <4>1, <4>2 DEF Waiting, AboutRun, LiveInv
      <4> QED
        BY <4>1, <4>2, <4>3
    <3> QED
      BY <3>1, <3>2, <3>3, <3>4, <3>5
  <2> QED
    BY <1>1, <1>7, <2>1, <2>2, <2>3 DEF LiveInv, OwnedRecords
<1> QED
  BY <1>1, <1>8, <1>9, <1>10 DEF LiveInv

LEMMA FailLive == ASSUME StoreInv, CallersOK, LiveInv, CallFails PROVE LiveInv'
<1> DEFINE c == calls[1]
<1>1. /\ calls # <<>> /\ calls' = Tail(calls) /\ troubled' = TRUE /\ Answer(c, FALSE)
  BY DEF CallFails
<1>2. c \in StoreCalls
  BY <1>1 DEF StoreInv
<1>3. /\ backend' = IF c.op = "abandon" THEN "up" ELSE backend
      /\ ~AboutRun(c) => runs' = runs
      /\ AboutRun(c) => \A k \in Jobs \ {c.job} : runs'[k] = runs[k]
      /\ c.job \in Jobs =>
           /\ c.op = "start" => runs'[c.job] = [doing |-> "working", id |-> 0]
           /\ c.op = "attempt" => runs'[c.job] = [doing |-> "working", id |-> runs[c.job].id]
           /\ c.op = "finish" => runs'[c.job] = Resting
  BY <1>1, <1>2, AnswerMoves
<1>4. backend' = "up"
  BY <1>1, <1>3 DEF LiveInv, Reconciling
<1> HIDE DEF c
<1>5. ASSUME NEW j \in Jobs, runs'[j].doing \in {"none", "queued", "opening"}
      PROVE  runs'[j].id = 0
  BY <1>3, <1>5 DEF LiveInv, AboutRun, Resting
<1> QED
  BY <1>1, <1>4, <1>5 DEF LiveInv

LEMMA CallFits ==
  ASSUME StoreInv, NEW op \in Ops, NEW id \in Nat, NEW job \in Jobs \union {"none"},
         NEW jobs \in SUBSET Jobs, Append1(op, id, job, jobs)
  PROVE  \E c \in StoreCalls : /\ calls' = Append(calls, c)
                               /\ c.op = op /\ c.id = id /\ c.job = job /\ c.jobs = jobs
<1> DEFINE c == [op |-> op, id |-> id, job |-> job, jobs |-> jobs, read |-> Unread]
<1>1. c \in StoreCalls
  BY DEF StoreCalls, Unread, Records, Statuses
<1> QED
  BY <1>1 DEF Append1

(* A run that asks for a call about its record.                             *)
LEMMA RunAsksLive ==
  ASSUME StoreInv, CallersOK, LiveInv, NEW j \in Jobs, NEW op \in {"start", "attempt", "finish"},
         NEW id \in Nat, Append1(op, id, j, {}), NEW doing, Does(j, doing),
         UNCHANGED <<backend, ledger, skips, troubled>>,
         runs[j].doing \in {"queued", "working"},
         op = "start" => doing = "opening" /\ id # 0 /\ runs[j].doing = "queued",
         op = "attempt" => doing = "noting",
         op = "finish" => doing = "closing" /\ runs[j].id = id
  PROVE  LiveInv'
<1>1. PICK c \in StoreCalls : calls' = Append(calls, c) /\ c.op = op /\ c.id = id /\ c.job = j
  <2> DEFINE asked == [op |-> op, id |-> id, job |-> j, jobs |-> {}, read |-> Unread]
  <2>1. asked \in StoreCalls
    BY DEF StoreCalls, Unread, Records, Statuses, Ops
  <2>2. calls' = Append(calls, asked)
    BY DEF Append1
  <2> QED
    BY <2>1, <2>2
<1>2. /\ \A k \in Jobs : runs'[k].id = runs[k].id
      /\ \A k \in Jobs \ {j} : runs'[k] = runs[k]
      /\ runs'[j].doing = doing
  BY RunMoves
<1>3. backend = "up"
  BY DEF LiveInv, Resting
<1>4. Waiting(c)'
  BY <1>1, <1>2 DEF Waiting
<1>5. ~troubled => WaitingCalls'
  BY <1>1, <1>2, <1>3, <1>4, RunAsks DEF LiveInv
<1>6. \A k \in Jobs : runs'[k].doing \in {"none", "queued", "opening"} => runs'[k].id = 0
  BY <1>2 DEF LiveInv
<1>7. \A n : Skipping(n) => Skipping(n)'
  BY <1>1, SkippingInFront
<1> QED
  BY <1>2, <1>3, <1>5, <1>6, <1>7, UpAsBefore

(* A call that is about no run.                                             *)
LEMMA OthersAskLive ==
  ASSUME StoreInv, LiveInv, backend = "up", NEW op \in Ops \ {"start", "attempt", "finish", "abandon"},
         NEW id \in Nat, NEW job \in Jobs \union {"none"}, NEW jobs \in SUBSET Jobs,
         Append1(op, id, job, jobs), UNCHANGED <<backend, ledger, troubled, runs>>,
         \A n \in skips : n \in skips' \/ (op = "close" /\ n = id)
  PROVE  LiveInv'
<1>1. PICK c \in StoreCalls : calls' = Append(calls, c) /\ c.op = op /\ c.id = id
  BY CallFits DEF Ops
<1>2. ~troubled => WaitingCalls'
  BY <1>1, OthersAsk DEF LiveInv, AboutRun
<1>3. \A j \in Jobs : runs[j].doing \in {"none", "queued", "opening"} => runs[j].id = 0
  BY DEF LiveInv
<1>4. \A n : Skipping(n) => Skipping(n)'
  BY <1>1, SkippingInFront
<1> QED
  BY <1>2, <1>3, <1>4, UpAsBefore

LEMMA QuietLive ==
  ASSUME LiveInv, CallersOK, backend = "up", UNCHANGED <<backend, calls, ledger, skips, troubled>>,
         \/ runs' = runs
         \/ \E j \in Jobs : runs[j] = Resting /\ Does(j, "queued")
         \/ \E j \in Jobs : /\ runs[j].doing = "working" /\ runs[j].id = 0
                           /\ runs' = [runs EXCEPT ![j] = Resting]
  PROVE  LiveInv'
<1>1. /\ \A k \in Jobs : runs'[k].id = runs[k].id
      /\ \A k \in Jobs : runs'[k] = runs[k] \/ runs'[k].doing \in {"none", "queued"}
      /\ \A k \in Jobs : runs[k].doing \in {"opening", "noting", "closing"} => runs'[k] = runs[k]
      /\ \A k \in Jobs : runs'[k].doing \in {"none", "queued"} => runs'[k].id = 0
  <2>1. CASE runs' = runs
    BY <2>1 DEF LiveInv
  <2>2. CASE \E j \in Jobs : runs[j] = Resting /\ Does(j, "queued")
    BY <2>2, RunMoves DEF LiveInv, Resting
  <2>3. CASE \E j \in Jobs : /\ runs[j].doing = "working" /\ runs[j].id = 0
                            /\ runs' = [runs EXCEPT ![j] = Resting]
    BY <2>3 DEF LiveInv, Resting, CallersOK
  <2> QED
    BY <2>1, <2>2, <2>3
<1>2. WaitingCalls => WaitingCalls'
  BY <1>1 DEF WaitingCalls, Waiting
<1>3. \A k \in Jobs : runs'[k].doing \in {"none", "queued", "opening"} => runs'[k].id = 0
  BY <1>1 DEF LiveInv
<1> QED
  BY <1>1, <1>2, <1>3, UpAsBefore DEF LiveInv, Skipping

LEMMA LiveInvStep == StoreInv /\ CallersOK /\ LiveInv /\ [LedgerNext]_ledgerVars => LiveInv'
<1> SUFFICES ASSUME StoreInv, CallersOK, LiveInv, [LedgerNext]_ledgerVars PROVE LiveInv'
  OBVIOUS
<1>1. ASSUME NEW i \in 1..MaxCalls, ReadCall(i) PROVE LiveInv'
  <2>1. /\ 1 \in 1..Len(calls) /\ calls' = [calls EXCEPT ![1].read = ledger]
        /\ UNCHANGED <<backend, ledger, runs, skips, recovery, troubled>>
    BY <1>1 DEF ReadCall, StoreInv
  <2>2. /\ Len(calls') = Len(calls)
        /\ \A k \in 1..Len(calls) : /\ calls'[k].op = calls[k].op /\ calls'[k].id = calls[k].id
                                    /\ calls'[k].job = calls[k].job
    <3>1. \A k \in 1..Len(calls) : calls[k] \in StoreCalls
      BY DEF StoreInv
    <3> QED
      BY <2>1, <3>1 DEF StoreInv, StoreCalls
  <2>3. WaitingCalls => WaitingCalls'
    BY <2>1, <2>2 DEF WaitingCalls, Waiting, AboutRun
  <2>4. calls # <<>>
    BY <2>1
  <2>5. DOMAIN calls' = DOMAIN calls /\ DOMAIN calls = 1..Len(calls)
    BY <2>1 DEF StoreInv
  <2>6. \A n : Skipping(n) => Skipping(n)'
    BY <2>1, <2>2, <2>5 DEF Skipping
  <2> QED
    BY <2>1, <2>2, <2>3, <2>4, <2>6 DEF LiveInv, OwnedRecords, Reconciling
<1>2. CASE SaveCall
  BY <1>2, SaveLive
<1>3. CASE CallFails
  BY <1>3, FailLive
<1>4. ASSUME NEW j \in Jobs, Trigger(j) PROVE LiveInv'
  BY <1>4, QuietLive DEF Trigger
<1>5. ASSUME NEW j \in Jobs, OpenRecord(j) PROVE LiveInv'
  <2>1. time + 1 \in Nat /\ time + 1 # 0
    BY DEF StoreInv
  <2>2. /\ Append1("start", time + 1, j, {}) /\ Does(j, "opening")
        /\ UNCHANGED <<backend, ledger, skips, troubled>> /\ runs[j].doing = "queued"
    BY <1>5 DEF OpenRecord
  <2> QED
    BY <2>1, <2>2, RunAsksLive
<1>6. ASSUME NEW j \in Jobs, NoteAttempt(j) PROVE LiveInv'
  <2>1. /\ Append1("attempt", runs[j].id, j, {}) /\ Does(j, "noting")
        /\ UNCHANGED <<backend, ledger, skips, troubled>> /\ runs[j].doing = "working"
        /\ runs[j].id \in Nat
    BY <1>6 DEF NoteAttempt, CallersOK
  <2> QED
    BY <2>1, RunAsksLive
<1>7. ASSUME NEW j \in Jobs, End(j) PROVE LiveInv'
  <2>1. /\ runs[j].id \in Nat /\ runs[j].doing = "working"
        /\ UNCHANGED <<backend, ledger, skips, troubled>>
    BY <1>7 DEF End, CallersOK
  <2>2. ASSUME Append1("finish", runs[j].id, j, {}), Does(j, "closing") PROVE LiveInv'
    BY <2>1, <2>2, RunAsksLive
  <2>3. ASSUME runs[j].id = 0, runs' = [runs EXCEPT ![j] = Resting], UNCHANGED calls
        PROVE  LiveInv'
    <3>1. backend = "up"
      BY <2>1 DEF LiveInv, Resting
    <3> QED
      BY <2>1, <2>3, <3>1, QuietLive
  <2> QED
    BY <1>7, <2>2, <2>3 DEF End
<1>8. ASSUME NEW j \in Jobs, PassSlot(j) PROVE LiveInv'
  BY <1>8 DEF PassSlot, LiveInv, OwnedRecords, Skipping, WaitingCalls, Waiting, Reconciling
<1>9. ASSUME NEW j \in Jobs, RecoverJob(j) PROVE LiveInv'
  <2>1. backend = "up"
    BY <1>9 DEF RecoverJob, LiveInv, Closed
  <2> QED
    BY <1>9, <2>1, QuietLive DEF RecoverJob
<1>10. CASE ReportMiss
  <2>1. PICK slot \in late : Append1("miss", slot.at, slot.job, {})
    BY <1>10 DEF ReportMiss
  <2>2. slot.at \in Nat /\ slot.job \in Jobs
    BY DEF StoreInv
  <2> QED
    BY <1>10, <2>1, <2>2, OthersAskLive DEF ReportMiss, Ops
<1>17. CASE SkipSlot
  <2>1. PICK slot \in late : Append1("skip", slot.at, slot.job, {})
    BY <1>17 DEF SkipSlot
  <2>2. slot.at \in Nat /\ slot.job \in Jobs
    BY DEF StoreInv
  <2> QED
    BY <1>17, <2>1, <2>2, OthersAskLive DEF SkipSlot, Ops
<1>18. ASSUME NEW n \in skips, CloseSkip(n) PROVE LiveInv'
  <2>1. backend = "up" /\ n \in Nat
    BY DEF LiveInv, CallersOK
  <2> QED
    BY <1>18, <2>1, OthersAskLive DEF CloseSkip, Ops
<1>11. CASE Dismiss
  <2>1. PICK r \in ledger : Append1("dismiss", r.id, r.job, {})
    BY <1>11 DEF Dismiss
  <2>2. r.id \in Nat /\ r.job \in Jobs \union {"none"}
    BY DEF StoreInv, Records
  <2> QED
    BY <1>11, <2>1, <2>2, OthersAskLive DEF Dismiss, Ops
<1>12. CASE Recover
  BY <1>12, OthersAskLive DEF Recover, Ops
<1>13. CASE RecoverClears
  <2>1. backend = "up"
    BY <1>13 DEF RecoverClears, LiveInv, Closed
  <2>2. UNCHANGED <<backend, ledger, skips, troubled, runs>> /\ recovery.queued \in SUBSET Jobs
    BY <1>13 DEF RecoverClears, CallersOK
  <2>3. ASSUME Append1("clear", 0, "none", recovery.queued) PROVE LiveInv'
    BY <2>1, <2>2, <2>3, OthersAskLive DEF Ops
  <2>4. ASSUME UNCHANGED calls PROVE LiveInv'
    BY <2>1, <2>2, <2>4, QuietLive
  <2> QED
    BY <1>13, <2>3, <2>4 DEF RecoverClears
<1>14. CASE Reconcile
  <2>1. calls' = Append(<<>>, [op |-> "abandon", id |-> 0, job |-> "none", jobs |-> {},
          read |-> Unread])
    BY <1>14 DEF Reconcile, Append1, LiveInv
  <2>2. Reconciling'
    BY <2>1 DEF Reconciling
  <2> QED
    BY <1>14, <2>2 DEF Reconcile, LiveInv
<1>15. CASE Killed
  BY <1>15 DEF Killed, LiveInv, Resting
<1>16. CASE UNCHANGED ledgerVars
  BY <1>16 DEF ledgerVars, LiveInv, OwnedRecords, Skipping, WaitingCalls, Waiting, Reconciling
<1> QED
  BY <1>1, <1>2, <1>3, <1>4, <1>5, <1>6, <1>7, <1>8, <1>9, <1>10, <1>11, <1>12, <1>13, <1>14,
     <1>15, <1>16, <1>17, <1>18 DEF LedgerNext

(* Once the process is up, a record that says "running" is of a run that is *)
(* running, whatever was cut off before: startScheduler reconciles the list *)
(* before any run can start (scheduler.ts:1779).                             *)
THEOREM RunningRecordsAreLive == LedgerSpec => []RunningIsLive
<1>1. LedgerInit => StoreInv /\ CallersOK /\ LiveInv
  <2> SUFFICES ASSUME LedgerInit PROVE StoreInv /\ CallersOK /\ LiveInv
    OBVIOUS
  <2>1. StoreInv /\ CallersOK
    BY DEF LedgerInit, StoreInv, CallersOK, Resting, Closed, OneMiss, StaysDismissed, Ids, NewId
  <2>2. LiveInv
    BY DEF LedgerInit, LiveInv, Resting
  <2> QED
    BY <2>1, <2>2
<1>2. LiveInv => RunningIsLive
  BY DEF LiveInv, OwnedRecords, RunningIsLive
<1> QED
  BY <1>1, <1>2, StoreInvStep, LiveInvStep, PTL DEF LedgerSpec

-----------------------------------------------------------------------------
(* A set of numbers that has a bound has a greatest one.                    *)
LEMMA Greatest ==
  ASSUME NEW S \in SUBSET Nat, S # {}, NEW b \in Nat, \A n \in S : n <= b
  PROVE  \E n \in S : \A m \in S : m <= n
<1> DEFINE T == {b - n : n \in S}
           R == {d \in Nat \X Nat : d[1] < d[2]}
<1>1. IsWellFoundedOn(R, Nat)
  BY NatLessThanWellFounded, Zenon DEF OpToRel
<1>2. T \subseteq Nat /\ T # {}
  <2>1. \A n \in S : b - n \in Nat
    OBVIOUS
  <2> QED
    BY <2>1
<1> HIDE DEF R
<1>3. PICK x \in T : \A y \in T : ~(<<y, x>> \in R)
  BY <1>1, <1>2, WFMin, Zenon
<1>4. PICK n \in S : x = b - n
  OBVIOUS
<1>5. ASSUME NEW m \in S PROVE m <= n
  <2>1. b - m \in T /\ <<b - m, x>> \notin R
    BY <1>3
  <2> QED
    BY <1>2, <1>4, <2>1 DEF R
<1> QED
  BY <1>5

(* Of the records that are newer than some time, saveRuns keeps as many as  *)
(* it saves, if there are so many.                                          *)
LEMMA NewestKeeps ==
  ASSUME NEW R \in SUBSET Records, IsFiniteSet(R), NEW t \in Nat, NEW b \in Nat,
         \A r \in R : r.at <= b,
         Cardinality({r \in R : r.at > t}) >= Retained
  PROVE  Cardinality({r \in Newest(R) : r.at > t}) >= Retained
<1> DEFINE N == {r \in R : r.at > t}
           M == {r \in Newest(R) : r.at > t}
<1>1. /\ IsFiniteSet(N) /\ Cardinality(N) \in Nat
      /\ M \subseteq N /\ IsFiniteSet(M) /\ Cardinality(M) \in Nat /\ Cardinality(M) <= Cardinality(N)
  <2>1. N \subseteq R /\ M \subseteq N
    BY DEF Newest
  <2> QED
    BY <2>1, FS_Subset, FS_CardinalityType
<1>2. Retained \in Nat
  BY LedgerAssumption
<1>3. SUFFICES ASSUME Cardinality(M) < Retained PROVE FALSE
  BY <1>1, <1>2
<1>4. N \ M # {}
  <2>1. Cardinality(N) >= Retained
    OBVIOUS
  <2>2. N # M
    BY <1>1, <1>2, <1>3, <2>1
  <2> QED
    BY <1>1, <2>2
<1>5. PICK r \in N \ M : \A s \in N \ M : s.at <= r.at
  <2> DEFINE A == {s.at : s \in N \ M}
  <2>1. A \in SUBSET Nat /\ A # {} /\ \A n \in A : n <= b
    BY <1>4 DEF Records
  <2>2. PICK n \in A : \A m \in A : m <= n
    BY <2>1, Greatest
  <2> QED
    BY <2>2
<1>6. ASSUME NEW s \in R, s.at > r.at PROVE s \in M
  <2>1. s.at \in Nat /\ r.at \in Nat /\ s.at > t /\ ~(s.at <= r.at)
    BY <1>5, <1>6 DEF Records
  <2> QED
    BY <1>5, <2>1
<1> DEFINE L == {s \in R : s.at > r.at}
<1>7. Cardinality(L) \in Nat /\ Cardinality(L) < Retained
  <2>1. L \subseteq M
    BY <1>6
  <2> QED
    BY <1>1, <1>2, <1>3, <2>1, FS_Subset, FS_CardinalityType
<1>8. r \in M
  BY <1>5, <1>7 DEF Newest
<1> QED
  BY <1>5, <1>8

LEMMA FiniteImage ==
  ASSUME NEW S, IsFiniteSet(S), NEW f, f = [x \in S |-> f[x]]
  PROVE  IsFiniteSet({f[x] : x \in S})
<1> DEFINE T == {f[x] : x \in S}
<1>1. f \in [S -> T] /\ \A t \in T : \E x \in S : f[x] = t
  OBVIOUS
<1> HIDE DEF T
<1>2. f \in Surjection(S, T)
  BY <1>1 DEF Surjection
<1>3. IsFiniteSet(T)
  BY <1>2, FS_Surjection
<1> QED
  BY <1>3 DEF T

LEMMA OneMore == ASSUME NEW S, IsFiniteSet(S), NEW x PROVE IsFiniteSet(S \union {x})
  BY FS_AddElement

LEMMA OneLess == ASSUME NEW S, IsFiniteSet(S), NEW x PROVE IsFiniteSet(S \ {x})
  BY FS_RemoveElement

OneId(records) == \A r, s \in records : r.id = s.id => r = s

LEMMA IdsStayUnique ==
  ASSUME NEW R \in SUBSET Records, OneMiss(R), OneId(R), IsFiniteSet(R), NEW call \in StoreCalls,
         Enters(call) => call.id \notin Ids(R)
  PROVE  OneId(Rewritten(call, R)) /\ IsFiniteSet(Rewritten(call, R))
<1> USE DEF OneId, Ids, IsMissed
<1>1. CASE call.op \in {"start", "skip"}
  <2>1. Rewritten(call, R) = R \union
          {[id |-> call.id, job |-> call.job, status |-> "running", at |-> call.id]}
    BY <1>1 DEF Rewritten
  <2>2. IsFiniteSet(Rewritten(call, R))
    <3> DEFINE opened == [id |-> call.id, job |-> call.job, status |-> "running", at |-> call.id]
    <3> HIDE DEF opened
    <3>1. IsFiniteSet(R \union {opened})
      BY OneMore
    <3> QED
      BY <2>1, <3>1 DEF opened
  <2> QED
    BY <1>1, <2>1, <2>2 DEF Enters
<1>2. CASE call.op \in {"finish", "close"}
  <2> DEFINE Op(r) == IF r.id = call.id THEN [r EXCEPT !.status = "ended"] ELSE r
  <2>1. Rewritten(call, R) = {Op(r) : r \in R}
    BY <1>2 DEF Rewritten
  <2>2. \A r \in R : Op(r).id = r.id
    BY DEF Records
  <2> DEFINE f == [r \in R |-> Op(r)]
  <2>3. IsFiniteSet({f[r] : r \in R}) /\ {f[r] : r \in R} = {Op(r) : r \in R}
    <3>1. f = [r \in R |-> f[r]]
      OBVIOUS
    <3>2. {f[r] : r \in R} = {Op(r) : r \in R}
      OBVIOUS
    <3> HIDE DEF f
    <3>3. IsFiniteSet({f[r] : r \in R})
      BY <3>1, FiniteImage
    <3> QED
      BY <3>2, <3>3
  <2> HIDE DEF Op
  <2> QED
    BY <2>1, <2>2, <2>3
<1>3. CASE call.op = "miss"
  <2> DEFINE mine == {r \in R : IsMissed(r) /\ r.job = call.job}
             head == CHOOSE r \in mine : \A s \in mine : s.at <= r.at
  <2>1. Rewritten(call, R) = Collapse(call, R)
    BY <1>3 DEF Rewritten
  <2>2. CASE mine = {}
    <3>1. Rewritten(call, R) = R \union
            {[id |-> call.id, job |-> call.job, status |-> "missed", at |-> call.id]}
      BY <2>1, <2>2 DEF Collapse
    <3>2. IsFiniteSet(Rewritten(call, R))
      <4> DEFINE entry == [id |-> call.id, job |-> call.job, status |-> "missed", at |-> call.id]
      <4> HIDE DEF entry
      <4>1. IsFiniteSet(R \union {entry})
        BY OneMore
      <4> QED
        BY <3>1, <4>1 DEF entry
    <3> QED
      BY <1>3, <3>1, <3>2 DEF Enters
  <2>3. CASE mine # {}
    <3>1. PICK m \in mine : mine = {m}
      BY <2>3 DEF OneMiss
    <3>2. head = m
      BY <3>1
    <3> DEFINE moved == [m EXCEPT !.at = IF call.id > @ THEN call.id ELSE @]
    <3>3. Rewritten(call, R) =
            (R \ mine) \union {[head EXCEPT !.at = IF call.id > @ THEN call.id ELSE @]}
      BY <2>1, <2>3 DEF Collapse
    <3>5. m \in R /\ moved.id = m.id
      BY <3>1 DEF Records
    <3> HIDE DEF mine, head
    <3>4. Rewritten(call, R) = (R \ {m}) \union {moved}
      BY <3>1, <3>2, <3>3
    <3> HIDE DEF moved
    <3>6. IsFiniteSet(Rewritten(call, R))
      <4>1. IsFiniteSet(R \ {m})
        BY OneLess
      <4>2. IsFiniteSet((R \ {m}) \union {moved})
        BY <4>1, OneMore
      <4> QED
        BY <3>4, <4>2
    <3> QED
      BY <3>4, <3>5, <3>6
  <2> QED
    BY <2>2, <2>3
<1>4. CASE call.op \in {"dismiss", "clear", "attempt", "list"}
  <2>1. Rewritten(call, R) \subseteq R
    BY <1>4 DEF Rewritten, Cleared
  <2> QED
    BY <2>1, FS_Subset
<1>5. CASE call.op = "abandon"
  <2> DEFINE Op(r) == IF r.status = "running" THEN [r EXCEPT !.status = "abandoned"] ELSE r
  <2>1. Rewritten(call, R) = {Op(r) : r \in R}
    BY <1>5 DEF Rewritten, Abandoned
  <2>2. \A r \in R : Op(r).id = r.id
    BY DEF Records
  <2> DEFINE f == [r \in R |-> Op(r)]
  <2>3. IsFiniteSet({f[r] : r \in R}) /\ {f[r] : r \in R} = {Op(r) : r \in R}
    <3>1. f = [r \in R |-> f[r]]
      OBVIOUS
    <3>2. {f[r] : r \in R} = {Op(r) : r \in R}
      OBVIOUS
    <3> HIDE DEF f
    <3>3. IsFiniteSet({f[r] : r \in R})
      BY <3>1, FiniteImage
    <3> QED
      BY <3>2, <3>3
  <2> HIDE DEF Op
  <2> QED
    BY <2>1, <2>2, <2>3
<1> QED
  BY <1>1, <1>2, <1>3, <1>4, <1>5 DEF StoreCalls, Ops

(* What an operation makes of a missed entry: only two remove one.          *)
LEMMA MissAfter ==
  ASSUME NEW R \in SUBSET Records, OneMiss(R), OneId(R), NEW call \in StoreCalls,
         NEW r \in R, IsMissed(r)
  PROVE  \/ \E s \in Rewritten(call, R) : s.id = r.id /\ s.at >= r.at
         \/ call.op = "dismiss" /\ r.id \notin Ids(Rewritten(call, R))
         \/ call.op = "clear" /\ r.job \in call.jobs
<1> USE DEF IsMissed, Records
<1>0. r.at \in Nat /\ r.at >= r.at
  OBVIOUS
<1>1. CASE call.op \in {"start", "skip"}
  BY <1>0, <1>1 DEF Rewritten
<1>2. CASE call.op \in {"finish", "close"}
  <2> DEFINE Op(s) == IF s.id = call.id THEN [s EXCEPT !.status = "ended"] ELSE s
  <2>1. Op(r) \in Rewritten(call, R) /\ Op(r).id = r.id /\ Op(r).at = r.at
    BY <1>2 DEF Rewritten
  <2> QED
    BY <1>0, <2>1
<1>3. CASE call.op = "miss"
  <2> DEFINE mine == {s \in R : IsMissed(s) /\ s.job = call.job}
             head == CHOOSE m \in mine : \A s \in mine : s.at <= m.at
  <2>1. Rewritten(call, R) = Collapse(call, R)
    BY <1>3 DEF Rewritten
  <2>2. CASE r \in mine
    <3>1. mine = {r} /\ head = r
      BY <1>0, <2>2 DEF OneMiss
    <3> DEFINE s == [r EXCEPT !.at = IF call.id > @ THEN call.id ELSE @]
    <3>2. s \in Rewritten(call, R)
      BY <2>1, <3>1 DEF Collapse
    <3>3. s.id = r.id /\ s.at >= r.at
      BY DEF StoreCalls
    <3> QED
      BY <3>2, <3>3
  <2>3. CASE r \notin mine
    <3>1. r \in Rewritten(call, R)
      BY <2>1, <2>3 DEF Collapse
    <3> QED
      BY <1>0, <3>1
  <2> QED
    BY <2>2, <2>3
<1>4. CASE call.op = "dismiss"
  <2>1. Rewritten(call, R) = {s \in R : ~ (IsMissed(s) /\ s.id = call.id)}
    BY <1>4 DEF Rewritten
  <2> QED
    BY <1>0, <1>4, <2>1 DEF OneId, Ids
<1>5. CASE call.op = "clear"
  BY <1>0, <1>5 DEF Rewritten, Cleared
<1>6. CASE call.op = "abandon"
  BY <1>0, <1>6 DEF Rewritten, Abandoned
<1>7. CASE call.op \in {"attempt", "list"}
  BY <1>0, <1>7 DEF Rewritten
<1> QED
  BY <1>1, <1>2, <1>3, <1>4, <1>5, <1>6, <1>7 DEF StoreCalls, Ops

-----------------------------------------------------------------------------
Dated(records, b) == \A r \in records : r.at <= b

LEMMA DatesAfter ==
  ASSUME NEW R \in SUBSET Records, OneMiss(R), NEW call \in StoreCalls, NEW b \in Nat,
         Dated(R, b), Enters(call) => call.id <= b
  PROVE  Dated(Rewritten(call, R), b)
<1> USE DEF Dated, Records, IsMissed
<1>1. CASE call.op \in {"start", "skip"}
  BY <1>1 DEF Rewritten, Enters
<1>2. CASE call.op \in {"finish", "close"}
  BY <1>2 DEF Rewritten
<1>3. CASE call.op = "miss"
  <2> DEFINE mine == {m \in R : IsMissed(m) /\ m.job = call.job}
             head == CHOOSE m \in mine : \A s \in mine : s.at <= m.at
  <2>1. Rewritten(call, R) = Collapse(call, R)
    BY <1>3 DEF Rewritten
  <2>2. CASE mine = {}
    BY <1>3, <2>1, <2>2 DEF Collapse, Enters
  <2>3. CASE mine # {}
    <3>1. PICK m \in mine : mine = {m}
      BY <2>3 DEF OneMiss
    <3>2. head = m
      BY <3>1
    <3> DEFINE moved == [m EXCEPT !.at = IF call.id > @ THEN call.id ELSE @]
    <3>3. Rewritten(call, R) =
            (R \ mine) \union {[head EXCEPT !.at = IF call.id > @ THEN call.id ELSE @]}
      BY <2>1, <2>3 DEF Collapse
    <3>4. moved.at <= b
      BY <1>3, <3>1 DEF Enters
    <3>5. Rewritten(call, R) \subseteq R \union {moved}
      BY <3>2, <3>3
    <3> QED
      BY <3>4, <3>5
  <2> QED
    BY <2>2, <2>3
<1>4. CASE call.op \in {"dismiss", "clear", "attempt", "list"}
  BY <1>4 DEF Rewritten, Cleared
<1>5. CASE call.op = "abandon"
  BY <1>5 DEF Rewritten, Abandoned
<1> QED
  BY <1>1, <1>2, <1>3, <1>4, <1>5 DEF StoreCalls, Ops

(* Records have ids and times of their own.                                 *)
LedgerInv == OneId(ledger) /\ IsFiniteSet(ledger) /\ Dated(ledger, time)

(* A recovery has one call at most, and waits for it.                       *)
Recovers(call) == call.op \in {"list", "clear"}
Awaited(call) ==
  /\ call.op = "list" => recovery.step = "listing"
  /\ call.op = "clear" => recovery.step = "clearing" /\ call.jobs = recovery.queued

RecoveryInv ==
  /\ \A i \in 1..Len(calls) : Awaited(calls[i])
  /\ \A i, k \in 1..Len(calls) : Recovers(calls[i]) /\ Recovers(calls[k]) => i = k

LEMMA LedgerInvStep == StoreInv /\ LedgerInv /\ [LedgerNext]_ledgerVars => LedgerInv'
<1> SUFFICES ASSUME StoreInv, LedgerInv, [LedgerNext]_ledgerVars PROVE LedgerInv'
  OBVIOUS
<1>1. CASE SaveCall
  <2> DEFINE c == calls[1]
             made == Rewritten(c, ledger)
  <2>1. c \in StoreCalls /\ 1 \in 1..Len(calls) /\ calls # <<>>
    BY <1>1 DEF SaveCall, StoreInv
  <2>2. c.read = ledger /\ time' = time
    BY <1>1, <2>1 DEF SaveCall, StoreInv
  <2>3. ledger \in SUBSET Records /\ OneMiss(ledger) /\ time \in Nat
    BY DEF StoreInv
  <2>4. Enters(c) => c.id <= time /\ c.id \notin Ids(ledger)
    BY <2>1 DEF StoreInv, NewId
  <2>5. OneId(made) /\ IsFiniteSet(made) /\ Dated(made, time)
    BY <2>1, <2>3, <2>4, IdsStayUnique, DatesAfter DEF LedgerInv
  <2>6. ledger' \subseteq made
    BY <1>1, <2>2 DEF SaveCall, Newest
  <2>7. IsFiniteSet(ledger')
    BY <2>5, <2>6, FS_Subset
  <2> QED
    BY <2>2, <2>5, <2>6, <2>7 DEF LedgerInv, OneId, Dated
<1>2. CASE ledger' = ledger /\ time' \in {time, time + 1}
  <2>1. \A r \in ledger : r.at \in Nat /\ time \in Nat
    BY DEF StoreInv, Records
  <2> QED
    BY <1>2, <2>1 DEF LedgerInv, OneId, Dated
<1>3. SaveCall \/ (ledger' = ledger /\ time' \in {time, time + 1})
  BY DEF LedgerNext, ReadCall, CallFails, Trigger, OpenRecord, NoteAttempt, End, PassSlot,
         RecoverJob, ReportMiss, SkipSlot, CloseSkip, Dismiss, Recover, RecoverClears, Reconcile, Killed, ledgerVars
<1> QED
  BY <1>1, <1>2, <1>3

LEMMA RecoveryAsks ==
  ASSUME StoreInv, RecoveryInv, NEW c \in StoreCalls, calls' = Append(calls, c),
         \/ ~Recovers(c) /\ recovery' = recovery
         \/ recovery.step \notin {"listing", "clearing"} /\ Awaited(c)'
  PROVE  RecoveryInv'
<1> DEFINE n == Len(calls)
<1>1. /\ n \in Nat /\ Len(calls') = n + 1 /\ calls'[n + 1] = c
      /\ \A i \in 1..n : calls'[i] = calls[i]
  BY DEF StoreInv
<1>2. CASE ~Recovers(c) /\ recovery' = recovery
  <2>1. Awaited(c)'
    BY <1>2 DEF Awaited, Recovers
  <2>2. ASSUME NEW i \in 1..n, NEW d, d = calls[i] PROVE Awaited(d)'
    BY <1>1, <1>2, <2>2 DEF RecoveryInv, Awaited
  <2> QED
    BY <1>1, <1>2, <2>1, <2>2 DEF RecoveryInv
<1>3. CASE recovery.step \notin {"listing", "clearing"} /\ Awaited(c)'
  <2>1. \A i \in 1..n : ~Recovers(calls[i])
    BY <1>3 DEF RecoveryInv, Awaited, Recovers
  <2> QED
    BY <1>1, <1>3, <2>1 DEF RecoveryInv, Awaited, Recovers
<1> QED
  BY <1>2, <1>3

LEMMA RecoveryAnswered ==
  ASSUME StoreInv, RecoveryInv, calls # <<>>, calls' = Tail(calls),
         NEW ok \in BOOLEAN, Answer(calls[1], ok)
  PROVE  RecoveryInv'
<1> DEFINE n == Len(calls)
           c == calls[1]
<1>1. /\ n \in Nat /\ n >= 1 /\ Len(calls') = n - 1
      /\ \A i \in 1..n - 1 : calls'[i] = calls[i + 1] /\ i + 1 \in 1..n /\ i + 1 # 1
  BY DEF StoreInv
<1>2. c \in StoreCalls /\ 1 \in 1..n
  BY <1>1 DEF StoreInv
<1>3. Recovers(c) \/ recovery' = recovery
  BY <1>2 DEF Answer, Recovers, StoreCalls, Ops, Does
<1> HIDE DEF c
<1>4. ASSUME NEW i \in 1..n - 1, NEW d, d = calls[i + 1] PROVE Awaited(d)'
  <2>1. Awaited(d) /\ (Recovers(c) => ~Recovers(d))
    BY <1>1, <1>2, <1>4 DEF RecoveryInv, c
  <2> QED
    BY <1>3, <2>1 DEF Awaited, Recovers
<1>5. \A i, k \in 1..n - 1 : Recovers(calls'[i]) /\ Recovers(calls'[k]) => i = k
  <2> TAKE i, k \in 1..n - 1
  <2>1. Recovers(calls[i + 1]) /\ Recovers(calls[k + 1]) => i + 1 = k + 1
    BY <1>1 DEF RecoveryInv
  <2> QED
    BY <1>1, <2>1
<1> QED
  BY <1>1, <1>4, <1>5 DEF RecoveryInv

(* An operation that is not of the recovery joins the chain.                *)
LEMMA OthersLeaveRecovery ==
  ASSUME StoreInv, RecoveryInv, NEW op \in Ops \ {"list", "clear"}, NEW id \in Nat,
         NEW job \in Jobs \union {"none"}, Append1(op, id, job, {}), recovery' = recovery
  PROVE  RecoveryInv'
<1>1. PICK c \in StoreCalls : calls' = Append(calls, c) /\ c.op = op
  BY CallFits
<1> QED
  BY <1>1, RecoveryAsks DEF Recovers

LEMMA RecoveryInvStep ==
  StoreInv /\ CallersOK /\ RecoveryInv /\ [LedgerNext]_ledgerVars => RecoveryInv'
<1> SUFFICES ASSUME StoreInv, CallersOK, RecoveryInv, [LedgerNext]_ledgerVars PROVE RecoveryInv'
  OBVIOUS
<1>1. ASSUME NEW i \in 1..MaxCalls, ReadCall(i) PROVE RecoveryInv'
  <2>1. calls' = [calls EXCEPT ![1].read = ledger] /\ recovery' = recovery
    BY <1>1 DEF ReadCall
  <2>2. \A k \in 1..Len(calls) : calls[k] \in StoreCalls
    BY DEF StoreInv
  <2>3. /\ Len(calls') = Len(calls)
        /\ \A k \in 1..Len(calls) : calls'[k].op = calls[k].op /\ calls'[k].jobs = calls[k].jobs
    BY <2>1, <2>2 DEF StoreInv, StoreCalls
  <2> QED
    BY <2>1, <2>3 DEF RecoveryInv, Awaited, Recovers
<1>2. CASE SaveCall
  BY <1>2, RecoveryAnswered DEF SaveCall
<1>3. CASE CallFails
  BY <1>3, RecoveryAnswered DEF CallFails
<1>4. CASE UNCHANGED <<calls, recovery>>
  BY <1>4 DEF RecoveryInv, Awaited
<1>5. ASSUME NEW j \in Jobs, OpenRecord(j) PROVE RecoveryInv'
  <2>1. time + 1 \in Nat
    BY DEF StoreInv
  <2> QED
    BY <1>5, <2>1, OthersLeaveRecovery DEF OpenRecord, Ops
<1>6. ASSUME NEW j \in Jobs, NoteAttempt(j) PROVE RecoveryInv'
  <2>1. runs[j].id \in Nat
    BY DEF CallersOK
  <2> QED
    BY <1>6, <2>1, OthersLeaveRecovery DEF NoteAttempt, Ops
<1>7. ASSUME NEW j \in Jobs, End(j) PROVE RecoveryInv'
  <2>1. runs[j].id \in Nat
    BY DEF CallersOK
  <2> QED
    BY <1>4, <1>7, <2>1, OthersLeaveRecovery DEF End, Ops
<1>8. ASSUME NEW j \in Jobs, RecoverJob(j) PROVE RecoveryInv'
  <2>1. recovery.step = "triggering" /\ calls' = calls
    BY <1>8 DEF RecoverJob
  <2> QED
    BY <2>1 DEF RecoveryInv, Awaited, Recovers
<1>9. CASE ReportMiss
  <2>1. PICK slot \in late : Append1("miss", slot.at, slot.job, {})
    BY <1>9 DEF ReportMiss
  <2>2. slot.at \in Nat /\ slot.job \in Jobs
    BY DEF StoreInv
  <2> QED
    BY <1>9, <2>1, <2>2, OthersLeaveRecovery DEF ReportMiss, Ops
<1>15. CASE SkipSlot
  <2>1. PICK slot \in late : Append1("skip", slot.at, slot.job, {})
    BY <1>15 DEF SkipSlot
  <2>2. slot.at \in Nat /\ slot.job \in Jobs
    BY DEF StoreInv
  <2> QED
    BY <1>15, <2>1, <2>2, OthersLeaveRecovery DEF SkipSlot, Ops
<1>16. ASSUME NEW n \in skips, CloseSkip(n) PROVE RecoveryInv'
  BY <1>16, OthersLeaveRecovery DEF CloseSkip, Ops, CallersOK
<1>10. CASE Dismiss
  <2>1. PICK r \in ledger : Append1("dismiss", r.id, r.job, {})
    BY <1>10 DEF Dismiss
  <2>2. r.id \in Nat /\ r.job \in Jobs \union {"none"}
    BY DEF StoreInv, Records
  <2> QED
    BY <1>10, <2>1, <2>2, OthersLeaveRecovery DEF Dismiss, Ops
<1>11. CASE Recover
  <2>1. recovery.step = "idle" /\ recovery'.step = "listing"
    BY <1>11 DEF Recover, Closed
  <2>2. PICK c \in StoreCalls : calls' = Append(calls, c) /\ c.op = "list"
    <3>1. /\ "list" \in Ops /\ 0 \in Nat /\ "none" \in Jobs \union {"none"} /\ {} \in SUBSET Jobs
          /\ Append1("list", 0, "none", {})
      BY <1>11 DEF Recover, Ops
    <3>2. \E c \in StoreCalls : /\ calls' = Append(calls, c)
                               /\ c.op = "list" /\ c.id = 0 /\ c.job = "none" /\ c.jobs = {}
      BY ONLY StoreInv, <3>1, CallFits
    <3> QED
      BY <3>2
  <2>3. Awaited(c)'
    BY <2>1, <2>2 DEF Awaited
  <2> QED
    BY <2>1, <2>2, <2>3, RecoveryAsks
<1>12. CASE RecoverClears
  <2>1. recovery.step = "triggering" /\ recovery.queued \in SUBSET Jobs
    BY <1>12 DEF RecoverClears, CallersOK
  <2>2. CASE /\ Append1("clear", 0, "none", recovery.queued)
             /\ recovery' = [recovery EXCEPT !.step = "clearing"]
    <3>1. recovery'.step = "clearing" /\ recovery'.queued = recovery.queued
      BY <2>2 DEF CallersOK
    <3>2. PICK c \in StoreCalls : /\ calls' = Append(calls, c) /\ c.op = "clear"
                                 /\ c.jobs = recovery.queued
      <4> DEFINE q == recovery.queued
      <4>1. q \in SUBSET Jobs /\ Append1("clear", 0, "none", q)
        BY <2>1, <2>2
      <4> HIDE DEF q
      <4>2. \E c \in StoreCalls : calls' = Append(calls, c) /\ c.op = "clear" /\ c.jobs = q
        <5>1. "clear" \in Ops /\ 0 \in Nat /\ "none" \in Jobs \union {"none"}
          BY DEF Ops
        <5>2. \E c \in StoreCalls : /\ calls' = Append(calls, c)
                                   /\ c.op = "clear" /\ c.id = 0 /\ c.job = "none" /\ c.jobs = q
          BY ONLY StoreInv, <4>1, <5>1, CallFits
        <5> QED
          BY <5>2
      <4> QED
        BY <4>2 DEF q
    <3>3. Awaited(c)'
      BY <3>1, <3>2 DEF Awaited
    <3> QED
      BY <2>1, <3>2, <3>3, RecoveryAsks
  <2>3. CASE calls' = calls
    BY <2>1, <2>3 DEF RecoveryInv, Awaited, Recovers
  <2> QED
    BY <1>12, <2>2, <2>3 DEF RecoverClears
<1>13. CASE Reconcile
  BY <1>13, OthersLeaveRecovery DEF Reconcile, Ops
<1>14. CASE Killed
  BY <1>14 DEF Killed, RecoveryInv
<1> QED
  BY <1>1, <1>2, <1>3, <1>4, <1>5, <1>6, <1>7, <1>8, <1>9, <1>10, <1>11, <1>12, <1>13, <1>14,
     <1>15, <1>16
  DEF LedgerNext, Trigger, PassSlot, ledgerVars

(* What a step may do to a missed slot.                                     *)
LEMMA MissStaysOrGoes ==
  ASSUME StoreInv, LedgerInv, LedgerInv', RecoveryInv, SaveCall,
         NEW r \in ledger, IsMissed(r), r.id \notin Ids(ledger')
  PROVE  \/ r.id \in dismissed'
         \/ recovery.step = "clearing" /\ r.job \in recovery.queued
         \/ Cardinality({s \in ledger' : s.at > r.at}) >= Retained
<1> DEFINE c == calls[1]
           made == Rewritten(c, ledger)
<1>1. c \in StoreCalls /\ 1 \in 1..Len(calls) /\ calls # <<>>
  BY DEF SaveCall, StoreInv
<1>2. c.read = ledger
  BY <1>1 DEF SaveCall, StoreInv
<1>3. /\ ledger' = Newest(made)
      /\ c.op = "dismiss" => dismissed' = dismissed \cup (Ids(ledger) \ Ids(made))
  BY <1>2 DEF SaveCall
<1>4. ledger \in SUBSET Records /\ OneMiss(ledger) /\ time \in Nat /\ OneId(ledger)
  BY DEF StoreInv, LedgerInv
<1>5. Enters(c) => c.id <= time /\ c.id \notin Ids(ledger)
  BY <1>1 DEF StoreInv, NewId
<1>6. made \in SUBSET Records /\ IsFiniteSet(made) /\ Dated(made, time)
  BY <1>1, <1>4, <1>5, Rewriting, IdsStayUnique, DatesAfter DEF LedgerInv
<1>7. \/ \E s \in made : s.id = r.id /\ s.at >= r.at
      \/ c.op = "dismiss" /\ r.id \notin Ids(made)
      \/ c.op = "clear" /\ r.job \in c.jobs
  BY <1>1, <1>4, MissAfter
<1>8. CASE c.op = "dismiss" /\ r.id \notin Ids(made)
  BY <1>3, <1>8 DEF Ids
<1>9. CASE c.op = "clear" /\ r.job \in c.jobs
  BY <1>1, <1>9 DEF RecoveryInv, Awaited
<1>10. CASE \E s \in made : s.id = r.id /\ s.at >= r.at
  <2>1. PICK s \in made : s.id = r.id /\ s.at >= r.at
    BY <1>10
  <2>2. s \notin Newest(made) /\ s.at \in Nat /\ r.at \in Nat
    BY <1>3, <1>4, <1>6, <2>1 DEF Ids, Records
  <2> HIDE DEF made
  <2> DEFINE Newer(R, t) == {u \in R : u.at > t}
  <2>3. ~(Cardinality(Newer(made, s.at)) < Retained)
    BY <2>1, <2>2 DEF Newest
  <2>4. IsFiniteSet(Newer(made, s.at)) /\ Cardinality(Newer(made, s.at)) \in Nat
    <3>1. Newer(made, s.at) \subseteq made
      OBVIOUS
    <3> HIDE DEF Newer
    <3> QED
      BY <1>6, <3>1, FS_Subset, FS_CardinalityType
  <2>5. Cardinality(Newer(made, s.at)) >= Retained
    BY <2>3, <2>4, LedgerAssumption
  <2>6. Cardinality(Newer(ledger', s.at)) >= Retained
    BY <1>3, <1>4, <1>6, <2>2, <2>5, NewestKeeps DEF Dated
  <2>7. Newer(ledger', s.at) \subseteq Newer(ledger', r.at) /\ Newer(ledger', r.at) \subseteq ledger'
    <3>1. \A u \in ledger' : u.at \in Nat
      BY <1>3, <1>6 DEF Newest, Records
    <3> QED
      BY <2>1, <2>2, <3>1
  <2>8. IsFiniteSet(ledger')
    BY DEF LedgerInv
  <2>9. Cardinality(Newer(ledger', r.at)) >= Retained
    <3> HIDE DEF Newer
    <3> QED
      BY <2>6, <2>7, <2>8, FS_Subset, FS_CardinalityType, LedgerAssumption
  <2> QED
    BY <2>9
<1> QED
  BY <1>7, <1>8, <1>9, <1>10

(* A missed slot leaves the list only when it is dismissed, when a recovery *)
(* has queued its job, or when the document is full of newer records.       *)
THEOREM MissesAreKept == LedgerSpec => MissKept
<1>1. LedgerInit => StoreInv /\ CallersOK /\ LedgerInv /\ RecoveryInv
  <2> SUFFICES ASSUME LedgerInit PROVE StoreInv /\ CallersOK /\ LedgerInv /\ RecoveryInv
    OBVIOUS
  <2>1. StoreInv /\ CallersOK
    BY DEF LedgerInit, StoreInv, CallersOK, Resting, Closed, OneMiss, StaysDismissed, Ids, NewId
  <2>2. LedgerInv /\ RecoveryInv
    BY FS_EmptySet DEF LedgerInit, LedgerInv, RecoveryInv, OneId, Dated
  <2> QED
    BY <2>1, <2>2
<1> DEFINE Goes(r) == \/ r.id \in dismissed'
                      \/ recovery.step = "clearing" /\ r.job \in recovery.queued
                      \/ Cardinality({s \in ledger' : s.at > r.at}) >= Retained
<1>2. ASSUME StoreInv, LedgerInv, LedgerInv', RecoveryInv, [LedgerNext]_ledgerVars
      PROVE  [\A r \in ledger : IsMissed(r) /\ r.id \notin Ids(ledger') => Goes(r)]_ledgerVars
  <2>1. CASE SaveCall
    BY <1>2, <2>1, MissStaysOrGoes
  <2>2. CASE ledger' = ledger
    BY <2>2 DEF Ids
  <2>3. SaveCall \/ ledger' = ledger
    BY <1>2 DEF LedgerNext, ReadCall, CallFails, Trigger, OpenRecord, NoteAttempt, End, PassSlot,
         RecoverJob, ReportMiss, SkipSlot, CloseSkip, Dismiss, Recover, RecoverClears, Reconcile, Killed, ledgerVars
  <2> QED
    BY <2>1, <2>2, <2>3
<1> QED
  BY <1>1, <1>2, StoreInvStep, LedgerInvStep, RecoveryInvStep, PTL DEF LedgerSpec, MissKept

-----------------------------------------------------------------------------
(*                             The news digest                             *)

(* What was settled when a run began is among what it knows, and what it    *)
(* wants to file is not.                                                    *)
DigestKnows(d) ==
  /\ digest[d].old \subseteq digest[d].known
  /\ digest[d].items \intersect digest[d].known = {}
  /\ digest[d].at \in {"none", "state", "slow"} => digest[d].items = {}

DigestShape == [at : {"none", "state", "slow", "sifted", "merging"},
                known : SUBSET Articles, items : SUBSET Articles, old : SUBSET Articles]

NewsInv ==
  /\ digest \in [Digests -> DigestShape]
  /\ filed \in [Articles -> {0, 1}]
  /\ others \subseteq Articles /\ seen \subseteq Articles
  /\ settled \subseteq seen
  /\ \A d \in Digests : DigestKnows(d)

LEMMA NewsInvStep == NewsInv /\ [NewsNext]_newsVars => NewsInv'
<1> SUFFICES ASSUME NewsInv, [NewsNext]_newsVars PROVE NewsInv'
  OBVIOUS
<1> USE DEF NewsInv, DigestKnows, DigestShape
<1>1. ASSUME NEW d \in Digests, ReadSeen(d) PROVE NewsInv'
  BY <1>1 DEF ReadSeen
<1>2. ASSUME NEW d \in Digests, ReadBus(d) PROVE NewsInv'
  <2>1. OnBus \subseteq Articles
    BY DEF OnBus
  <2>2. [digest[d] EXCEPT !.at = "slow", !.known = @ \union OnBus] \in DigestShape
    <3>1. digest[d] \in DigestShape
      OBVIOUS
    <3> QED
      BY <2>1, <3>1
  <2>3. digest' = [digest EXCEPT ![d] = [digest[d] EXCEPT !.at = "slow", !.known = @ \union OnBus]]
    BY <1>2 DEF ReadBus
  <2>4. digest[d].items = {}
    BY <1>2 DEF ReadBus
  <2>5. \A e \in Digests : DigestKnows(e)'
    BY <2>2, <2>3, <2>4
  <2> QED
    BY <1>2, <2>2, <2>3, <2>5 DEF ReadBus
<1>3. ASSUME NEW d \in Digests, Sift(d) PROVE NewsInv'
  <2>1. PICK items \in SUBSET (Articles \ digest[d].known) :
          digest' = [digest EXCEPT ![d].at = "sifted", ![d].items = items]
    BY <1>3 DEF Sift
  <2>2. [digest[d] EXCEPT !.at = "sifted", !.items = items] \in DigestShape
    <3>1. digest[d] \in DigestShape
      OBVIOUS
    <3> QED
      BY <2>1, <3>1
  <2>3. digest' = [digest EXCEPT ![d] = [digest[d] EXCEPT !.at = "sifted", !.items = items]]
    BY <2>1
  <2>4. \A e \in Digests : DigestKnows(e)'
    BY <2>1, <2>2, <2>3
  <2> QED
    BY <1>3, <2>2, <2>3, <2>4 DEF Sift
<1>4. ASSUME NEW d \in Digests, SiftFails(d) \/ CutDown(d) PROVE NewsInv'
  BY <1>4 DEF SiftFails, CutDown, NoDigest
<1>5. ASSUME NEW d \in Digests, MergeRows(d) PROVE NewsInv'
  <2>1. New(d) \subseteq digest[d].items /\ \A a \in New(d) : filed[a] = 0
    BY DEF New, OnBus
  <2>2. filed' \in [Articles -> {0, 1}]
    BY <1>5, <2>1 DEF MergeRows
  <2>3. digest' \in [Digests -> DigestShape] /\ \A e \in Digests : DigestKnows(e)'
    BY <1>5, <2>1 DEF MergeRows, NoDigest
  <2> QED
    BY <1>5, <2>2, <2>3 DEF MergeRows
<1>6. ASSUME NEW d \in Digests, MergeSeen(d) PROVE NewsInv'
  BY <1>6 DEF MergeSeen, SeenAfter, NoDigest
<1>7. ASSUME NEW a \in Articles, OtherFiles(a) PROVE NewsInv'
  BY <1>7 DEF OtherFiles
<1>8. ASSUME NEW a \in Articles, RowGoes(a) PROVE NewsInv'
  BY <1>8 DEF RowGoes
<1>9. ASSUME NEW a \in Articles, Forgotten(a) PROVE NewsInv'
  BY <1>9 DEF Forgotten
<1>10. CASE UNCHANGED newsVars
  BY <1>10 DEF newsVars
<1> QED
  BY <1>1, <1>2, <1>3, <1>4, <1>5, <1>6, <1>7, <1>8, <1>9, <1>10 DEF NewsNext

LEMMA NewsInvariant == NewsSpec => []NewsInv
<1>1. NewsInit => NewsInv
  BY DEF NewsInit, NewsInv, DigestKnows, DigestShape, NoDigest
<1> QED
  BY <1>1, NewsInvStep, PTL DEF NewsSpec

(* Whatever number of digests overlap or are cut off, they have at most one *)
(* row of an article on the bus (workers/builtin/news/job.ts:657); and what *)
(* was settled when a digest began is not filed by it again, though its row *)
(* has gone since (workers/builtin/news/job.ts:662).                        *)
THEOREM DigestsFileOnce == NewsSpec => []FiledOnce
<1>1. NewsInv => OneRowPerArticle
  BY DEF NewsInv, OneRowPerArticle
<1>2. NewsInv => NotFiledAgain
  BY DEF NewsInv, DigestKnows, NotFiledAgain
<1>3. NewsInv => FiledOnce
  BY <1>1, <1>2 DEF FiledOnce
<1> QED
  BY <1>3, NewsInvariant, PTL

(* Types, of the digests: settled articles are remembered.                  *)
THEOREM NewsTypeCorrect == NewsSpec => []NewsTypeOK
<1>1. NewsInv => NewsTypeOK
  <2>1. {0, 1} \subseteq 0..2
    OBVIOUS
  <2> QED
    BY <2>1 DEF NewsInv, DigestShape, NewsTypeOK
<1> QED
  BY <1>1, NewsInvariant, PTL
=============================================================================

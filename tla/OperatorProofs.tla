--------------------------- MODULE OperatorProofs ----------------------------
(***************************************************************************)
(* What the operator decides, switches and says: actions that need approval*)
(* (Approvals), workers that are enabled, disabled and reloaded            *)
(* (WorkerLifecycle), and the threads of a chat (Conversations).           *)
(***************************************************************************)
EXTENDS Approvals, WorkerLifecycle, Conversations, TLAPS

-----------------------------------------------------------------------------
(*                               The actions                               *)

(* What is known of one request, whatever the others do.                    *)
Sound(r) ==
  /\ stage[r] \notin {"idle", "denied"} => InScope(r) \/ r \in unchecked
  /\ stage[r] \in {"idle", "filed", "waiting", "perform"} => effect[r] = "none"
  /\ stage[r] = "running" => effect[r] = "begun"
  /\ stage[r] \in {"perform", "running", "recordOk"} => row[r] = "approved"
  /\ stage[r] = "recordOk" /\ Kind[r] # "unchanged" => effect[r] = "done"
  /\ stage[r] = "recordFailed" /\ r \notin spoilt => effect[r] # "done"
  /\ row[r] \in {"none", "pending"} => decision[r] = "none" /\ effect[r] = "none"
  /\ row[r] = "approved" /\ Gated(r) => decision[r] = "approved"
  /\ row[r] \in {"executed", "failed"} => stage[r] \in {"recorded", "done", "lost"}
  /\ row[r] = "executed" /\ Kind[r] # "unchanged" => effect[r] = "done"
  /\ row[r] = "failed" /\ r \notin spoilt => effect[r] # "done"
  /\ effect[r] # "none" =>
       (InScope(r) \/ r \in unchecked) /\ (Gated(r) => decision[r] = "approved")

(* What the log and the row have of a write or a command for which nothing  *)
(* was refused: each step logs before the next one looks.                   *)
Audited(r) == Gated(r) /\ r \notin spoilt =>
  /\ stage[r] # "threw"
  /\ stage[r] \in {"waiting", "perform", "running", "recordOk", "recordFailed", "recorded"} =>
       "requested" \in audit[r]
  /\ stage[r] \in {"recorded", "done"} => row[r] \in {"executed", "failed"}
  /\ stage[r] = "done" => audit[r] = {"requested", "outcome"}

ApprovalInv == ApprovalTypeOK /\ \A r \in Requests : Sound(r)

(* A step of request r leaves what is known of the others alone.            *)
LEMMA OthersSound ==
  ASSUME ApprovalInv,
         NEW r \in Requests, NEW q \in Requests, q # r,
         row'[q] = row[q], stage'[q] = stage[q], decision'[q] = decision[q], effect'[q] = effect[q],
         q \in spoilt => q \in spoilt', q \in unchecked => q \in unchecked'
  PROVE  Sound(q)'
  BY DEF ApprovalInv, Sound

LEMMA ApprovalInitial == ApprovalInit => ApprovalInv
  BY DEF ApprovalInit, ApprovalInv, ApprovalTypeOK, RowStates, Stages, Ended, Sound

(* One step per action.                                                     *)
LEMMA ApprovalStep == ApprovalInv /\ [ApprovalNext]_actionVars => ApprovalInv'
<1> SUFFICES ASSUME ApprovalInv, [ApprovalNext]_actionVars PROVE ApprovalInv'
  OBVIOUS
<1> USE DEF RowStates, Stages, Ended, registryVars
<1>1. ASSUME NEW r \in Requests, Deny(r) PROVE ApprovalInv'
  BY <1>1, OthersSound DEF Deny, Goto, ApprovalInv, ApprovalTypeOK, Sound
<1>2. ASSUME NEW r \in Requests, Request(r) PROVE ApprovalInv'
  <2>1. /\ stage[r] = "idle" /\ row[r] = "none" /\ Allowed(r)
        /\ decision[r] = "none" /\ effect[r] = "none"
    BY <1>2 DEF Request, ApprovalInv, ApprovalTypeOK, Sound
  <2>2. \/ Gated(r) /\ row'[r] = "pending" /\ stage'[r] = "filed"
        \/ ~Gated(r) /\ row'[r] = "approved" /\ stage'[r] = "perform"
        \/ ~Gated(r) /\ row'[r] = "approved" /\ stage'[r] = "recordOk" /\ Kind[r] = "unchanged"
    BY <1>2, KindAssumption DEF Request, SetRow, Goto, Gated, ApprovalInv, ApprovalTypeOK
  <2>3. /\ row' \in [Requests -> RowStates] /\ stage' \in [Requests -> Stages]
        /\ \A q \in Requests : q # r => row'[q] = row[q] /\ stage'[q] = stage[q]
        /\ UNCHANGED <<decision, effect, audit, spoilt, unlisted>>
        /\ unchecked' = IF WorkerOf[r] \in unlisted THEN unchecked \union {r} ELSE unchecked
    <3>1. PICK s \in RowStates, t \in Stages : SetRow(r, s) /\ Goto(r, t)
      BY <1>2, KindAssumption DEF Request, Gated
    <3>2. /\ UNCHANGED <<decision, effect, audit, spoilt, unlisted>>
          /\ unchecked' = IF WorkerOf[r] \in unlisted THEN unchecked \union {r} ELSE unchecked
      BY <1>2 DEF Request
    <3> QED
      BY <3>1, <3>2 DEF SetRow, Goto, ApprovalInv, ApprovalTypeOK
  <2>4. Sound(r)'
    BY <2>1, <2>2, <2>3 DEF Sound, Allowed
  <2>5. ApprovalTypeOK'
    BY <2>1, <2>2, <2>3 DEF ApprovalInv, ApprovalTypeOK
  <2>6. \A q \in Requests \ {r} : Sound(q)'
    <3> SUFFICES ASSUME NEW q \in Requests, q # r PROVE Sound(q)'
      OBVIOUS
    <3> QED
      BY <2>3, OthersSound
  <2> QED
    BY <2>4, <2>5, <2>6 DEF ApprovalInv
<1>3. ASSUME NEW r \in Requests, Announce(r) PROVE ApprovalInv'
  BY <1>3, OthersSound DEF Announce, LogEvent, Goto, ApprovalInv, ApprovalTypeOK, Sound
<1>4. ASSUME NEW r \in Requests, NEW verdict \in {"approved", "rejected"}, Decide(r, verdict)
      PROVE  ApprovalInv'
  BY <1>4, OthersSound DEF Decide, SetRow, ApprovalInv, ApprovalTypeOK, Sound
<1>5. ASSUME NEW r \in Requests, SeeDecision(r) \/ TimeOut(r) PROVE ApprovalInv'
  BY <1>5, OthersSound DEF SeeDecision, TimeOut, Goto, ApprovalInv, ApprovalTypeOK, Sound
<1>6. ASSUME NEW r \in Requests, Begin(r) PROVE ApprovalInv'
  BY <1>6, OthersSound DEF Begin, Goto, ApprovalInv, ApprovalTypeOK, Sound
<1>7. ASSUME NEW r \in Requests, Succeed(r) PROVE ApprovalInv'
  BY <1>7, OthersSound DEF Succeed, Goto, ApprovalInv, ApprovalTypeOK, Sound
<1>8. ASSUME NEW r \in Requests, Fail(r) \/ SpawnFails(r) PROVE ApprovalInv'
  BY <1>8, OthersSound DEF Fail, SpawnFails, Goto, ApprovalInv, ApprovalTypeOK, Sound
<1>9. ASSUME NEW r \in Requests, RecordOutcome(r) PROVE ApprovalInv'
  BY <1>9, OthersSound DEF RecordOutcome, Outcome, SetRow, Goto, ApprovalInv, ApprovalTypeOK, Sound
<1>10. ASSUME NEW r \in Requests, LogOutcome(r) \/ RecordThrows(r) PROVE ApprovalInv'
  BY <1>10, OthersSound DEF LogOutcome, RecordThrows, LogEvent, Goto, ApprovalInv, ApprovalTypeOK, Sound
<1>11. CASE Restart
  BY <1>11 DEF Restart, ApprovalInv, ApprovalTypeOK, Sound
<1>12. CASE UNCHANGED actionVars
  BY <1>12 DEF actionVars, ApprovalInv, ApprovalTypeOK, Sound
<1>13. ASSUME NEW w \in Restricted, Unlist(w) PROVE ApprovalInv'
  BY <1>13 DEF Unlist, ApprovalInv, ApprovalTypeOK, Sound
<1>14. ASSUME NEW w \in unlisted, Relist(w) PROVE ApprovalInv'
  BY <1>14 DEF Relist, ApprovalInv, ApprovalTypeOK, Sound
<1> QED
  BY <1>1, <1>2, <1>3, <1>4, <1>5, <1>6, <1>7, <1>8, <1>9, <1>10, <1>11, <1>12,
     <1>13, <1>14
  DEF ApprovalNext, Advance

(* Each step of a request keeps what its row and its events say; the steps  *)
(* of the others do not touch them (<1>12).                                 *)
LEMMA AuditedStep ==
  ASSUME ApprovalInv, [ApprovalNext]_actionVars, NEW r \in Requests, Audited(r)
  PROVE  Audited(r)'
<1> USE DEF RowStates, Stages, Ended, registryVars
<1>1. SUFFICES ASSUME Gated(r), r \notin spoilt', r \notin spoilt PROVE Audited(r)'
  <2>1. r \in spoilt => r \in spoilt'
    <3>1. ASSUME NEW q \in Requests, Deny(q) \/ Request(q) \/ SeeDecision(q) \/ TimeOut(q) \/ Begin(q)
                 \/ Succeed(q) \/ Fail(q) \/ RecordOutcome(q)
                 \/ \E verdict \in {"approved", "rejected"} : Decide(q, verdict)
          PROVE  spoilt' = spoilt
      BY <3>1 DEF Deny, Request, SeeDecision, TimeOut, Begin, Succeed, Fail, RecordOutcome, Decide
    <3>2. ASSUME NEW q \in Requests, Announce(q) \/ SpawnFails(q) \/ RecordThrows(q) \/ LogOutcome(q)
          PROVE  spoilt \subseteq spoilt'
      BY <3>2 DEF Announce, SpawnFails, RecordThrows, LogOutcome, LogEvent
    <3>3. Restart \/ UNCHANGED actionVars => spoilt' = spoilt
      BY DEF Restart, actionVars
    <3>4. ASSUME NEW w, Unlist(w) \/ Relist(w) PROVE spoilt' = spoilt
      BY <3>4 DEF Unlist, Relist
    <3> QED
      BY <3>1, <3>2, <3>3, <3>4 DEF ApprovalNext, Advance
  <2> QED
    BY <2>1 DEF Audited, Gated
<1> DEFINE Same == row'[r] = row[r] /\ stage'[r] = stage[r] /\ audit'[r] = audit[r]
<1>2. CASE Same
  BY <1>1, <1>2 DEF Audited
<1>3. CASE Deny(r) \/ Request(r)
  BY <1>1, <1>3 DEF Deny, Request, Goto, Audited, Gated, ApprovalInv, ApprovalTypeOK
<1>4. CASE Announce(r)
  BY <1>1, <1>4 DEF Announce, LogEvent, Goto, Audited, ApprovalInv, ApprovalTypeOK
<1>5. CASE \E verdict \in {"approved", "rejected"} : Decide(r, verdict)
  BY <1>1, <1>5 DEF Decide, Audited, SetRow, ApprovalInv, ApprovalTypeOK
<1>6. CASE SeeDecision(r) \/ TimeOut(r)
  BY <1>1, <1>6 DEF SeeDecision, TimeOut, Goto, Audited, ApprovalInv, ApprovalTypeOK
<1>7. CASE Begin(r) \/ Succeed(r) \/ Fail(r)
  BY <1>1, <1>7 DEF Begin, Succeed, Fail, Goto, Audited, Gated, ApprovalInv, ApprovalTypeOK
<1>8. CASE SpawnFails(r) \/ RecordThrows(r)
  BY <1>1, <1>8 DEF SpawnFails, RecordThrows
<1>9. CASE RecordOutcome(r)
  BY <1>1, <1>9 DEF RecordOutcome, Outcome, SetRow, Goto, Audited, Gated, ApprovalInv, ApprovalTypeOK
<1>10. CASE LogOutcome(r)
  BY <1>1, <1>10 DEF LogOutcome, LogEvent, Goto, Audited, ApprovalInv, ApprovalTypeOK
<1>11. CASE Restart
  BY <1>1, <1>11 DEF Restart, Audited, ApprovalInv, ApprovalTypeOK
<1>12. ASSUME NEW q \in Requests, q # r,
              \/ Deny(q) \/ Request(q) \/ Advance(q)
              \/ \E verdict \in {"approved", "rejected"} : Decide(q, verdict)
       PROVE  Same
  <2> USE DEF Goto, SetRow, LogEvent, ApprovalInv, ApprovalTypeOK
  <2>1. CASE Deny(q) \/ Request(q) \/ \E verdict \in {"approved", "rejected"} : Decide(q, verdict)
    BY <1>12, <2>1 DEF Deny, Request, Decide
  <2>2. CASE Advance(q)
    BY <1>12, <2>2 DEF Advance, Announce, SeeDecision, TimeOut, Begin, Succeed, Fail, SpawnFails,
       RecordOutcome, RecordThrows, LogOutcome
  <2> QED
    BY <1>12, <2>1, <2>2
<1>13. UNCHANGED actionVars => Same
  BY DEF actionVars
<1>14. ASSUME NEW w, Unlist(w) \/ Relist(w) PROVE Same
  BY <1>14 DEF Unlist, Relist
<1> QED
  BY <1>2, <1>3, <1>4, <1>5, <1>6, <1>7, <1>8, <1>9, <1>10, <1>11, <1>12, <1>13, <1>14
  DEF ApprovalNext, Advance

THEOREM ApprovalInvariant == ApprovalSpec => []ApprovalInv
  BY ApprovalInitial, ApprovalStep, PTL DEF ApprovalSpec

(* Types, and no row for what the worker's scopes do not cover.             *)
THEOREM ApprovalTypeCorrect == ApprovalSpec => []ApprovalTypeOK
  BY ApprovalInvariant, PTL DEF ApprovalInv

(* requestFileWrite and requestShell begin nothing that the operator did    *)
(* not approve, and no primitive anything that the scopes do not cover,     *)
(* except for a worker that was not in the registry when it asked: with     *)
(* every fault allowed, and with workers that come and go under their runs. *)
THEOREM ApprovalGate == ApprovalSpec => []NeverUnapproved
<1>1. ApprovalInv => NeverUnapproved
  BY DEF ApprovalInv, Sound, NeverUnapproved
<1> QED
  BY <1>1, ApprovalInvariant, PTL

(* A row that markActionExecuted wrote says what happened.                  *)
THEOREM ApprovalRowTrue == ApprovalSpec => []TruthfulRow
<1>1. ApprovalInv => TruthfulRow
  BY DEF ApprovalInv, Sound, TruthfulRow
<1> QED
  BY <1>1, ApprovalInvariant, PTL

(* markActionExecuted and recordEventSafe leave the truth about an action   *)
(* in its row and, when it has come to its end, in the log.                 *)
THEOREM ApprovalRecordsTrue == ApprovalSpec => []RecordsTrue
<1> DEFINE AllAudited == \A r \in Requests : Audited(r)
<1>1. ApprovalInit => AllAudited
  BY DEF ApprovalInit, Audited
<1>2. ApprovalInv /\ [ApprovalNext]_actionVars /\ AllAudited => AllAudited'
  BY AuditedStep
<1>3. AllAudited => OutcomeAudited
  BY DEF Audited, OutcomeAudited
<1> HIDE DEF AllAudited
<1> QED
  BY <1>1, <1>2, <1>3, ApprovalInvariant, ApprovalRowTrue, PTL DEF ApprovalSpec, RecordsTrue

(* approveActionRequest, rejectActionRequest and markActionExecuted never   *)
(* take a decision or an outcome back.                                      *)
THEOREM ApprovalDecisionsStand == ApprovalSpec => DecisionsStand
<1> DEFINE Stands(r) ==
      /\ row[r] = "approved" => row'[r] \in {"approved", "executed", "failed"}
      /\ row[r] = "rejected" => row'[r] \in {"rejected", "failed"}
      /\ row[r] \in {"executed", "failed"} => row'[r] = row[r]
<1>1. ASSUME ApprovalInv, [ApprovalNext]_actionVars, NEW r \in Requests PROVE Stands(r)
  <2>1. CASE row'[r] = row[r]
    BY <2>1
  <2>2. CASE \E verdict \in {"approved", "rejected"} : Decide(r, verdict)
    BY <1>1, <2>2 DEF Decide
  <2>3. CASE Request(r)
    BY <1>1, <2>3 DEF Request, ApprovalInv, ApprovalTypeOK
  <2>4. CASE RecordOutcome(r)
    BY <1>1, <2>4 DEF RecordOutcome, Outcome, SetRow, ApprovalInv, ApprovalTypeOK, Sound
  <2>5. row'[r] = row[r] \/ Request(r) \/ RecordOutcome(r) \/ \E verdict \in {"approved",
          "rejected"} : Decide(r, verdict)
    <3>1. UNCHANGED row => row'[r] = row[r]
      OBVIOUS
    <3>2. ASSUME NEW q \in Requests, q # r, NEW s, SetRow(q, s) PROVE row'[r] = row[r]
      BY <1>1, <3>2 DEF SetRow, ApprovalInv, ApprovalTypeOK
    <3>3. ASSUME NEW q \in Requests, Deny(q) \/ Announce(q) \/ SeeDecision(q) \/ TimeOut(q) \/ Begin(q)
                   \/ Succeed(q) \/ Fail(q) \/ SpawnFails(q) \/ RecordThrows(q) \/ LogOutcome(q)
          PROVE  UNCHANGED row
      BY <3>3 DEF Deny, Announce, SeeDecision, TimeOut, Begin, Succeed, Fail, SpawnFails, RecordThrows,
         LogOutcome
    <3>4. Restart \/ UNCHANGED actionVars => UNCHANGED row
      BY DEF Restart, actionVars
    <3>6. ASSUME NEW w, Unlist(w) \/ Relist(w) PROVE UNCHANGED row
      BY <3>6 DEF Unlist, Relist
    <3>5. ASSUME NEW q \in Requests, q # r,
                 Request(q) \/ RecordOutcome(q) \/ \E verdict \in {"approved",
                   "rejected"} : Decide(q, verdict)
          PROVE  row'[r] = row[r]
      BY <3>2, <3>5 DEF Request, RecordOutcome, Decide
    <3> QED
      BY <1>1, <3>1, <3>3, <3>4, <3>5, <3>6 DEF ApprovalNext, Advance
  <2> QED
    BY <2>1, <2>2, <2>3, <2>4, <2>5
<1>2. ApprovalInv /\ [ApprovalNext]_actionVars => [\A r \in Requests : Stands(r)]_actionVars
  BY <1>1
<1> QED
  BY <1>2, ApprovalInvariant, PTL DEF ApprovalSpec, DecisionsStand

-----------------------------------------------------------------------------
(*                               The workers                               *)

(* A record of worker.state; a call under way, with the places its operation *)
(* passes.                                                                  *)
IsRecord(r) == DOMAIN r = {"enabled", "version"} /\ r.enabled \in BOOLEAN

Shape(o) ==
  /\ {"op", "at"} \subseteq DOMAIN o
  /\ o.op = "reload" => "loaded" \in DOMAIN o
  /\ o.op = "none" => o = AtRest
  /\ o.at \in {"load", "build", "hooks"} => o.op \in {"enable", "reload", "boot"}
  /\ o.at = "onDisable" => o.op \in {"disable", "disableAll", "reload"}
  /\ o.at = "others" => o.op = "disableAll"
  /\ o.at = "rm" => o.op = "reload"
  /\ o.at = "remove" => o.op = "delete"
  /\ o.at = "move" => o.op = "install"
  /\ o.op = "boot" => o.at \in {"load", "build", "hooks"}
  /\ o.op = "reload" => o.at \in {"onDisable", "rm", "load", "build", "hooks"}

ShapeInv ==
  /\ DOMAIN ongoing = Calls /\ \A c \in Calls : Shape(ongoing[c])
  /\ record = Missing \/ IsRecord(record)
  /\ source # Missing => record # Missing
  /\ raced \in BOOLEAN /\ skewed \in BOOLEAN

LEMMA RecordOps ==
  ASSUME NEW r, r = Missing \/ IsRecord(r), NEW on \in BOOLEAN, NEW v
  PROVE  /\ IsRecord(Remembered(r, on)) /\ IsRecord(Installed(r, v)) /\ IsRecord(Switched(r, on))
         /\ Remembered(r, on).enabled = IF r = Missing THEN on ELSE r.enabled
         /\ Installed(r, v).enabled = IF r = Missing THEN TRUE ELSE r.enabled
         /\ Switched(r, on).enabled = on
<1>1. /\ IsRecord(Remembered(r, on))
      /\ Remembered(r, on).enabled = IF r = Missing THEN on ELSE r.enabled
  BY DEF Remembered, IsRecord
<1>2. IsRecord(Installed(r, v)) /\ Installed(r, v).enabled = IF r = Missing THEN TRUE ELSE r.enabled
  BY DEF Installed, IsRecord
<1>3. IsRecord(Switched(r, on)) /\ Switched(r, on).enabled = on
  BY <1>1 DEF Switched, IsRecord
<1> QED
  BY <1>1, <1>2, <1>3

LEMMA RecordIsThere == ASSUME NEW r, IsRecord(r) PROVE r # Missing
BY DEF IsRecord, Missing

LEMMA SwitchedRecord ==
  ASSUME NEW r, r = Missing \/ IsRecord(r), NEW on \in BOOLEAN
  PROVE  IsRecord(Switched(r, on)) /\ Switched(r, on) # Missing /\ Switched(r, on).enabled = on
<1>1. IsRecord(Switched(r, on)) /\ Switched(r, on).enabled = on
  BY RecordOps
<1>2. Switched(r, on) # Missing
  BY <1>1, RecordIsThere, Zenon
<1> QED
  BY <1>1, <1>2

LEMMA InstalledRecord ==
  ASSUME NEW r, r = Missing \/ IsRecord(r), NEW v
  PROVE  /\ IsRecord(Installed(r, v)) /\ Installed(r, v) # Missing
         /\ r # Missing => Installed(r, v).enabled = r.enabled
<1>1. /\ IsRecord(Installed(r, v))
      /\ Installed(r, v).enabled = IF r = Missing THEN TRUE ELSE r.enabled
  BY DEF Installed, IsRecord
<1>2. Installed(r, v) # Missing
  BY <1>1, RecordIsThere, Zenon
<1> QED
  BY <1>1, <1>2

LEMMA CallMoves ==
  ASSUME DOMAIN ongoing = Calls, NEW c \in Calls, NEW o, Moves(c, o)
  PROVE  ongoing'[c] = o /\ (\A d \in Calls : d # c => ongoing'[d] = ongoing[d])
           /\ DOMAIN ongoing' = Calls
BY DEF Moves

LEMMA CallAwaits ==
  ASSUME DOMAIN ongoing = Calls, NEW c \in Calls, Shape(ongoing[c]), NEW s, Awaits(c, s)
  PROVE  /\ ongoing'[c].op = ongoing[c].op /\ ongoing'[c].at = s
              /\ DOMAIN ongoing'[c] = DOMAIN ongoing[c]
         /\ \A d \in Calls : d # c => ongoing'[d] = ongoing[d]
         /\ DOMAIN ongoing' = Calls
<1> DEFINE o == [ongoing[c] EXCEPT !.at = s]
<1>1. o.op = ongoing[c].op /\ o.at = s /\ DOMAIN o = DOMAIN ongoing[c]
  BY DEF Shape
<1>2. Moves(c, o)
  BY DEF Awaits
<1> HIDE DEF o
<1> QED
  BY <1>1, <1>2, CallMoves

LEMMA RestIsShaped == Shape(AtRest) /\ AtRest.op = "none" /\ AtRest.at = "over"
BY DEF Shape, AtRest

(* What a step of one call does to it: a call begins, and does not pass     *)
(* unnoticed where a reload or a deletion is under way, or it goes on.      *)
Begins(c) ==
  /\ ongoing[c] = AtRest /\ ~Booting /\ ongoing'[c].op # "boot"
  /\ ~raced' => /\ ~raced
                /\ \/ Alone(c)
                   \/ ~Intrusive(ongoing'[c].op) /\ \A d \in Calls : ~Intrusive(ongoing[d].op)

Continues(c) ==
  /\ ongoing[c] # AtRest
  /\ ongoing'[c] = AtRest \/ ongoing'[c].op = ongoing[c].op
  /\ raced' = raced

Steps(c) ==
  /\ Begins(c) \/ Continues(c)
  /\ Shape(ongoing'[c]) /\ DOMAIN ongoing' = Calls
  /\ \A d \in Calls : d # c => ongoing'[d] = ongoing[d]

LEMMA CallBegins ==
  ASSUME ShapeInv, NEW c \in Calls, NEW op, Starts(c, op),
           NEW o, Moves(c, o), Shape(o), o.op = op, op # "boot"
  PROVE  Steps(c) /\ ongoing'[c] = o
<1>1. ongoing'[c] = o /\ (\A d \in Calls : d # c => ongoing'[d] = ongoing[d]) /\ DOMAIN ongoing' = Calls
  BY CallMoves DEF ShapeInv
<1>2. raced' = (raced \/ (~Alone(c) /\ (Intrusive(op) \/ \E d \in Calls : Intrusive(ongoing[d].op))))
  BY Zenon DEF Starts
<1>3. ~raced' => ~raced /\ (Alone(c) \/ (~Intrusive(op) /\ \A d \in Calls : ~Intrusive(ongoing[d].op)))
  BY <1>2, Zenon
<1>4. ongoing[c] = AtRest /\ ~Booting /\ ongoing'[c].op = op
  BY <1>1, Zenon DEF Starts
<1>5. Begins(c)
  BY <1>3, <1>4, Zenon DEF Begins
<1> QED
  BY <1>1, <1>5 DEF Steps

LEMMA CallContinues ==
  ASSUME ShapeInv, NEW c \in Calls, ongoing[c] # AtRest, NEW o, Moves(c, o), Shape(o),
         o = AtRest \/ o.op = ongoing[c].op, raced' = raced
  PROVE  Steps(c) /\ ongoing'[c] = o
<1>1. ongoing'[c] = o /\ (\A d \in Calls : d # c => ongoing'[d] = ongoing[d]) /\ DOMAIN ongoing' = Calls
  BY CallMoves DEF ShapeInv
<1> QED
  BY <1>1 DEF Steps, Continues

LEMMA CallPasses ==
  ASSUME ShapeInv, NEW c \in Calls, NEW s, Awaits(c, s), raced' = raced, ongoing[c] # AtRest,
         \A o : {"op", "at"} \subseteq DOMAIN o /\ o.op = ongoing[c].op /\ o.at = s
           /\ o.op # "none" /\ (o.op = "reload" => "loaded" \in DOMAIN o) => Shape(o)
  PROVE  Steps(c) /\ ongoing'[c].op = ongoing[c].op /\ ongoing'[c].at = s
<1>1. /\ ongoing'[c].op = ongoing[c].op /\ ongoing'[c].at = s
           /\ DOMAIN ongoing'[c] = DOMAIN ongoing[c]
      /\ \A d \in Calls : d # c => ongoing'[d] = ongoing[d]
      /\ DOMAIN ongoing' = Calls
  BY CallAwaits DEF ShapeInv
<1>2. /\ ongoing[c].op # "none" /\ {"op", "at"} \subseteq DOMAIN ongoing[c]
      /\ ongoing[c].op = "reload" => "loaded" \in DOMAIN ongoing[c]
  BY DEF ShapeInv, Shape
<1>3. Shape(ongoing'[c])
  BY <1>1, <1>2
<1> QED
  BY <1>1, <1>3 DEF Steps, Continues

(* No step goes unseen: a reload, a deletion and a start of the process     *)
(* stay by themselves.                                                      *)
Lone == \A c \in Calls : ongoing[c].op \in {"reload", "delete", "boot"} => Alone(c)

LEMMA LoneStep ==
  ASSUME ShapeInv, ~raced => Lone, NEW c \in Calls, Steps(c), ~raced'
  PROVE  ~raced /\ Lone'
<1>1. ~raced /\ Lone
  BY DEF Steps, Begins, Continues
<1>2. \A d \in Calls : d # c => ongoing'[d] = ongoing[d]
  BY DEF Steps
<1>3. CASE Continues(c)
  <2>1. \A d \in Calls : d # c => ongoing[d].op \notin {"reload", "delete", "boot"}
    BY <1>1, <1>3 DEF Lone, Alone, Continues
  <2>2. ongoing'[c].op \in {"reload", "delete", "boot"} => ongoing[c].op \in {"reload", "delete",
          "boot"}
    BY <1>3, RestIsShaped DEF Continues
  <2> QED
    BY <1>1, <1>2, <2>1, <2>2 DEF Lone, Alone
<1>4. CASE Begins(c)
  <2>1. \A d \in Calls : ongoing[d].op # "boot"
    BY <1>4 DEF Begins, Booting
  <2>2. CASE Alone(c)
    <3>1. \A d \in Calls : d # c => ongoing'[d] = AtRest
      BY <1>2, <2>2 DEF Alone
    <3> QED
      BY <1>1, <3>1, RestIsShaped DEF Lone, Alone
  <2>3. CASE ~Intrusive(ongoing'[c].op) /\ \A d \in Calls : ~Intrusive(ongoing[d].op)
    BY <1>2, <1>4, <2>1, <2>3 DEF Lone, Begins, Intrusive
  <2> QED
    BY <1>4, <2>2, <2>3 DEF Begins
<1> QED
  BY <1>1, <1>3, <1>4 DEF Steps

LEMMA OthersPlain ==
  ASSUME ShapeInv, ~raced => Lone, NEW c \in Calls, Steps(c), ~raced'
  PROVE  \A d \in Calls : d # c => ongoing[d].op \notin {"reload", "delete", "boot"}
<1>1. ~raced /\ Lone
  BY DEF Steps, Begins, Continues
<1>2. CASE Continues(c)
  BY <1>1, <1>2 DEF Lone, Alone, Continues
<1>3. CASE Begins(c)
  <2>1. \A d \in Calls : ongoing[d].op # "boot"
    BY <1>3 DEF Begins, Booting
  <2>2. CASE Alone(c)
    BY <2>2, RestIsShaped DEF Alone
  <2>3. CASE \A d \in Calls : ~Intrusive(ongoing[d].op)
    BY <2>1, <2>3 DEF Intrusive
  <2> QED
    BY <1>3, <2>2, <2>3 DEF Begins
<1> QED
  BY <1>2, <1>3 DEF Steps

(* What a call may take for granted where it is: a worker that loads has a  *)
(* record; unless a flag was written without the module, a deletion is of   *)
(* an unloaded worker, a reload and a start of the process are of an        *)
(* enabled one; a reload is of one that has a source, when it loads nothing *)
(* older is left, and what it compiles is the source, if not edited since.  *)
About(c) ==
  /\ ongoing[c].at \in {"load", "build", "hooks"} => record # Missing
  /\ ongoing[c].op \in {"reload", "boot"} => record # Missing
  /\ ~skewed =>
       /\ ongoing[c].op = "delete" => module = Missing
       /\ ongoing[c].op \in {"reload", "boot"} => record.enabled
  /\ ongoing[c].op = "reload" =>
       /\ source # Missing
       /\ ongoing[c].at \in {"rm", "load", "build"} => module = Missing
       /\ ongoing[c].at = "load" => bundle = Missing
       /\ ongoing[c].at \in {"load", "build"} => required = Missing
       /\ ongoing[c].at = "build" /\ c \notin overtaken => ongoing[c].loaded.edit = source.edit

(* A module of a worker that is switched off is about to go, or the worker  *)
(* about to be switched on.                                                 *)
Excuse(c) ==
  \/ ongoing[c].op = "enable" /\ ongoing[c].at = "hooks"
  \/ ongoing[c].at = "onDisable"

FlagOK ==
  ~skewed =>
    /\ record = Missing => module = Missing
    /\ module # Missing /\ record # Missing /\ ~record.enabled => \E c \in Calls : Excuse(c)

LifeInv ==
  /\ ShapeInv
  /\ ~raced => Lone /\ (\A c \in Calls : About(c)) /\ FlagOK

LEMMA LifeStep ==
  ASSUME LifeInv, NEW c \in Calls, Steps(c), raced' \in BOOLEAN, skewed' \in BOOLEAN,
         record' = Missing \/ IsRecord(record'), source' # Missing => record' # Missing,
         record # Missing /\ record' = Missing => Alone(c),
         ~raced => About(c)' /\ FlagOK'
  PROVE  LifeInv'
<1>1. ShapeInv'
  BY DEF LifeInv, ShapeInv, Steps
<1>2. ASSUME ~raced' PROVE Lone' /\ (\A d \in Calls : About(d)') /\ FlagOK'
  <2>1. ~raced /\ Lone' /\ \A d \in Calls : d # c => ongoing[d].op \notin {"reload", "delete", "boot"}
    BY <1>2, LoneStep, OthersPlain DEF LifeInv
  <2>2. ASSUME NEW d \in Calls, d # c PROVE About(d)'
    <3>1. ongoing'[d] = ongoing[d] /\ About(d)
      BY <2>1, <2>2 DEF Steps, LifeInv
    <3>2. ongoing[d].at \in {"load", "build", "hooks"} => record' # Missing
      BY <2>2, <3>1, RestIsShaped DEF About, Alone
    <3> QED
      BY <2>1, <2>2, <3>1, <3>2 DEF About
  <2> QED
    BY <2>1, <2>2
<1> QED
  BY <1>1, <1>2 DEF LifeInv

LEMMA SameFlag ==
  ASSUME FlagOK, NEW c \in Calls, Steps(c), ~Excuse(c),
         module' = module, record' = record, skewed' = skewed
  PROVE  FlagOK'
<1>1. ASSUME NEW d \in Calls, Excuse(d) PROVE Excuse(d)'
  BY <1>1 DEF Excuse, Steps
<1> QED
  BY <1>1 DEF FlagOK

(* The calls that begin.                                                    *)
LEMMA BeginningLife ==
  ASSUME LifeInv, NEW c \in Calls,
         Enable(c) \/ Disable(c) \/ Delete(c) \/ Install(c) \/ Look(c) \/ DisableAll(c)
           \/ TimerFires(c)
  PROVE  LifeInv'
<1> USE DEF Requested
<1>1. ShapeInv /\ (\A d \in Calls : Shape(ongoing[d])) /\ (record = Missing \/ IsRecord(record))
      /\ (source # Missing => record # Missing) /\ skewed \in BOOLEAN
  BY DEF LifeInv, ShapeInv
<1>2. ASSUME NEW op, Starts(c, op)
      PROVE  /\ raced' \in BOOLEAN /\ ongoing[c] = AtRest /\ ~Excuse(c)
             /\ Intrusive(op) => Alone(c) \/ raced'
  BY <1>1, <1>2, RestIsShaped DEF Starts, Excuse, ShapeInv, Intrusive
<1>3. CASE Look(c)
  <2> DEFINE o == [op |-> "look", at |-> "dashboard"]
  <2>1. Starts(c, "look") /\ Moves(c, o) /\ Shape(o) /\ o.op = "look"
    BY <1>3 DEF Look, Shape
  <2>2. Steps(c) /\ ongoing'[c] = o
    BY <1>1, <2>1, CallBegins
  <2>3. UNCHANGED <<source, record, module, skewed>>
    BY <1>3 DEF Look, histories
  <2>4. ~raced => About(c)' /\ FlagOK'
    BY <1>2, <2>1, <2>2, <2>3, SameFlag DEF About, LifeInv
  <2> QED
    BY <1>1, <1>2, <2>1, <2>2, <2>3, <2>4, LifeStep
<1>4. CASE Install(c)
  <2> DEFINE o == [op |-> "install", at |-> "move", edit |-> edits']
  <2>1. Starts(c, "install") /\ Moves(c, o) /\ Shape(o) /\ o.op = "install"
    BY <1>4 DEF Install, Shape
  <2>2. Steps(c) /\ ongoing'[c] = o
    BY <1>1, <2>1, CallBegins
  <2>3. UNCHANGED <<source, record, module, skewed>>
    BY <1>4 DEF Install, histories
  <2>4. ~raced => About(c)' /\ FlagOK'
    BY <1>2, <2>1, <2>2, <2>3, SameFlag DEF About, LifeInv
  <2> QED
    BY <1>1, <1>2, <2>1, <2>2, <2>3, <2>4, LifeStep
<1>5. CASE Disable(c)
  <2> DEFINE o == [op |-> "disable", at |-> IF module # Missing THEN "onDisable" ELSE "dashboard"]
  <2>1. Starts(c, "disable") /\ Moves(c, o) /\ Shape(o) /\ o.op = "disable"
    BY <1>5 DEF Disable, Shape
  <2>2. Steps(c) /\ ongoing'[c] = o
    BY <1>1, <2>1, CallBegins
  <2>3. UNCHANGED <<source, module>> /\ IsRecord(record') /\ record' # Missing /\ skewed' = skewed
    BY <1>1, <1>5, RecordOps, RecordIsThere DEF Disable, histories
  <2>4. module # Missing => Excuse(c)'
    BY <2>2 DEF Excuse
  <2>5. About(c)' /\ FlagOK'
    BY <2>2, <2>3, <2>4 DEF About, FlagOK
  <2> QED
    BY <1>1, <1>2, <2>1, <2>2, <2>3, <2>5, LifeStep
<1>6. CASE Enable(c) /\ module # Missing
  <2> DEFINE o == [op |-> "enable", at |-> "dashboard"]
  <2>1. Starts(c, "enable") /\ Moves(c, o) /\ Shape(o) /\ o.op = "enable"
    BY <1>6 DEF Enable, Shape
  <2>2. Steps(c) /\ ongoing'[c] = o
    BY <1>1, <2>1, CallBegins
  <2>3. UNCHANGED <<source, module>> /\ IsRecord(record') /\ record' # Missing /\ record'.enabled
       /\ skewed' \in BOOLEAN
    <3>1. UNCHANGED <<source, module>> /\ record' = Switched(record, TRUE) /\ skewed' = FALSE
      BY <1>6 DEF Enable
    <3>2. record = Missing \/ IsRecord(record)
      BY <1>1
    <3>3. IsRecord(Switched(record, TRUE)) /\ Switched(record, TRUE) # Missing
          /\ Switched(record, TRUE).enabled
      BY <3>2, SwitchedRecord
    <3> QED
      BY <3>1, <3>3
  <2>4. About(c)' /\ FlagOK'
    BY <2>2, <2>3 DEF About, FlagOK
  <2> QED
    BY <1>1, <1>2, <2>1, <2>2, <2>3, <2>4, LifeStep
<1>7. CASE Enable(c) /\ module = Missing
  <2> DEFINE o == [op |-> "enable", at |-> "load", prev |-> Remembered(record, FALSE).version,
                   loaded |-> Missing]
  <2>1. Starts(c, "enable") /\ Moves(c, o) /\ Shape(o) /\ o.op = "enable"
    BY <1>7 DEF Enable, Activates, Shape
  <2>2. Steps(c) /\ ongoing'[c].op = "enable" /\ ongoing'[c].at = "load"
    BY <1>1, <2>1, CallBegins
  <2>3. UNCHANGED <<source, record, module, skewed>> /\ record # Missing
    BY <1>1, <1>7 DEF Enable, Known
  <2>4. ~raced => About(c)' /\ FlagOK'
    BY <1>2, <2>1, <2>2, <2>3, SameFlag DEF About, LifeInv
  <2> QED
    BY <1>1, <1>2, <2>1, <2>2, <2>3, <2>4, LifeStep
<1>8. CASE Delete(c)
  <2> DEFINE o == [op |-> "delete", at |-> "remove"]
  <2>1. Starts(c, "delete") /\ Moves(c, o) /\ Shape(o) /\ o.op = "delete"
    BY <1>8 DEF Delete, Shape
  <2>2. Steps(c) /\ ongoing'[c] = o
    BY <1>1, <2>1, CallBegins
  <2>3. UNCHANGED <<source, record, module, skewed>> /\ record # Missing /\ ~record.enabled
    BY <1>8 DEF Delete, histories
  <2>4. ASSUME ~raced, Alone(c) PROVE About(c)' /\ FlagOK'
    <3>1. \A d \in Calls : ongoing[d] = AtRest
      BY <1>2, <2>1, <2>4 DEF Alone
    <3>2. \A d \in Calls : ~Excuse(d)
      BY <3>1, RestIsShaped DEF Excuse
    <3>3. ~skewed => module = Missing
      BY <2>3, <2>4, <3>2 DEF LifeInv, FlagOK
    <3> QED
      BY <2>2, <2>3, <3>3 DEF About, FlagOK
  <2>5. CASE raced' = TRUE
    <3>1. ShapeInv'
      BY <1>1, <2>2, <2>3, <2>5 DEF ShapeInv, Steps
    <3> QED
      BY <2>5, <3>1 DEF LifeInv
  <2>6. CASE raced' = FALSE
    <3>1. Alone(c) /\ ~raced
      BY <1>2, <2>1, <2>6 DEF Intrusive, Starts
    <3> QED
      BY <1>1, <1>2, <2>1, <2>2, <2>3, <2>4, <3>1, LifeStep
  <2> QED
    BY <1>2, <2>1, <2>5, <2>6
<1>9. CASE TimerFires(c) /\ source # Missing /\ module # Missing
  <2> DEFINE o == [op |-> "reload", at |-> "onDisable", prev |-> module.version, loaded |-> Missing]
  <2>1. Starts(c, "reload") /\ Moves(c, o) /\ Shape(o) /\ o.op = "reload"
    BY <1>9 DEF TimerFires, Shape
  <2>2. Steps(c) /\ ongoing'[c].op = "reload" /\ ongoing'[c].at = "onDisable"
    BY <1>1, <2>1, CallBegins
  <2>3. UNCHANGED <<source, record, module, skewed>> /\ record # Missing
    BY <1>1, <1>9 DEF TimerFires, histories
  <2>4. ASSUME ~raced, Alone(c) PROVE About(c)' /\ FlagOK'
    <3>1. \A d \in Calls : ongoing[d] = AtRest
      BY <1>2, <2>1, <2>4 DEF Alone
    <3>2. \A d \in Calls : ~Excuse(d)
      BY <3>1, RestIsShaped DEF Excuse
    <3>3. ~skewed => record.enabled
      BY <1>9, <2>3, <2>4, <3>2 DEF LifeInv, FlagOK
    <3> QED
      BY <1>9, <2>2, <2>3, <3>3 DEF About, FlagOK
  <2>5. CASE raced' = TRUE
    <3>1. ShapeInv'
      BY <1>1, <2>2, <2>3, <2>5 DEF ShapeInv, Steps
    <3> QED
      BY <2>5, <3>1 DEF LifeInv
  <2>6. CASE raced' = FALSE
    <3>1. Alone(c) /\ ~raced
      BY <1>2, <2>1, <2>6 DEF Intrusive, Starts
    <3> QED
      BY <1>1, <1>2, <2>1, <2>2, <2>3, <2>4, <3>1, LifeStep
  <2> QED
    BY <1>2, <2>1, <2>5, <2>6
<1>10. CASE TimerFires(c) /\ ~(source # Missing /\ module # Missing)
  <2>1. Starts(c, "reload") /\ UNCHANGED <<ongoing, source, bundle, required, record, module, histories>>
    BY <1>10 DEF TimerFires
  <2>2. raced' = FALSE => raced = FALSE
    BY <1>1, <2>1 DEF Starts, ShapeInv
  <2>3. raced' \in BOOLEAN
    BY <1>2, <2>1
  <2> QED
    BY <2>1, <2>2, <2>3 DEF LifeInv, ShapeInv, Lone, Alone, About, FlagOK, Excuse, histories
<1>11. CASE DisableAll(c)
  <2> DEFINE o == [op |-> "disableAll", at |-> "others"]
  <2>1. Starts(c, "disableAll") /\ Moves(c, o) /\ Shape(o) /\ o.op = "disableAll"
    BY <1>11 DEF DisableAll, Shape
  <2>2. Steps(c) /\ ongoing'[c] = o
    BY <1>1, <2>1, CallBegins
  <2>3. UNCHANGED <<source, record, module, skewed>>
    BY <1>11 DEF DisableAll, histories
  <2>4. ~raced => About(c)' /\ FlagOK'
    BY <1>2, <2>1, <2>2, <2>3, SameFlag DEF About, LifeInv
  <2> QED
    BY <1>1, <1>2, <2>1, <2>2, <2>3, <2>4, LifeStep
<1> QED
  BY <1>3, <1>4, <1>5, <1>6, <1>7, <1>8, <1>9, <1>10, <1>11

(* The calls that go on.                                                    *)
LEMMA GoingOn ==
  ASSUME LifeInv, NEW c \in Calls, ongoing[c].at # "over"
  PROVE  /\ ShapeInv /\ Shape(ongoing[c]) /\ ongoing[c] # AtRest
         /\ raced \in BOOLEAN /\ skewed \in BOOLEAN
         /\ record = Missing \/ IsRecord(record)
         /\ source # Missing => record # Missing
         /\ ~raced => Lone /\ About(c) /\ FlagOK
BY RestIsShaped DEF LifeInv, ShapeInv

(* A module comes in: nothing to object to if its call is an enabling, or   *)
(* of an enabled worker.                                                    *)
LEMMA RegisteringLife ==
  ASSUME LifeInv, NEW c \in Calls, ongoing[c].at \in {"load", "build"}, NEW m, Registers(c, m),
         UNCHANGED <<source, record, raced, skewed>>
  PROVE  LifeInv'
<1>1. /\ ShapeInv /\ Shape(ongoing[c]) /\ ongoing[c] # AtRest
      /\ raced \in BOOLEAN /\ skewed \in BOOLEAN
      /\ record = Missing \/ IsRecord(record)
      /\ source # Missing => record # Missing
      /\ ~raced => Lone /\ About(c) /\ FlagOK
  BY GoingOn
<1>2. ASSUME Steps(c), ~raced => About(c)' /\ FlagOK' PROVE LifeInv'
  BY <1>1, <1>2, LifeStep
<1>3. ~Excuse(c)
  BY DEF Excuse
<1>4. CASE module # Missing
  <2>1. Ends(c) /\ module' = module
    BY <1>4 DEF Registers
  <2>2. Steps(c) /\ ongoing'[c] = AtRest
    BY <1>1, <2>1, CallContinues, RestIsShaped DEF Ends
  <2>3. ~raced => About(c)' /\ FlagOK'
    BY <1>1, <1>3, <2>1, <2>2, SameFlag, RestIsShaped DEF About
  <2> QED
    BY <1>2, <2>2, <2>3
<1>5. CASE module = Missing
  <2> DEFINE o == [ongoing[c] EXCEPT !.at = "hooks", !.loaded = m]
  <2>1. Moves(c, o)
    BY <1>5 DEF Registers
  <2>2. o.op = ongoing[c].op /\ o.at = "hooks" /\ DOMAIN o = DOMAIN ongoing[c]
    BY <1>1 DEF Shape
  <2> HIDE DEF o
  <2>3. o.op # "none"
    BY <1>1, <2>2 DEF Shape
  <2>4. Shape(o)
    BY <1>1, <2>2, <2>3 DEF Shape
  <2>5. Steps(c) /\ ongoing'[c] = o
    BY <1>1, <2>1, <2>2, <2>4, CallContinues
  <2>6. ~raced => About(c)'
    <3>1. ongoing'[c].op = ongoing[c].op /\ ongoing'[c].at = "hooks"
      BY <2>2, <2>5
    <3>2. ~raced => About(c)
      BY <1>1
    <3>3. ongoing[c].op # "delete"
      BY <1>1 DEF Shape
    <3> QED
      BY <3>1, <3>2, <3>3 DEF About
  <2>7. ongoing[c].op \in {"enable", "reload", "boot"}
    BY <1>1 DEF Shape
  <2>8. ongoing[c].op = "enable" => Excuse(c)'
    BY <2>2, <2>5 DEF Excuse
  <2>9. ~raced /\ ~skewed =>
          record # Missing /\ (ongoing[c].op \in {"reload", "boot"} => record.enabled)
    BY <1>1 DEF About
  <2>10. ~raced => FlagOK'
    BY <2>7, <2>8, <2>9 DEF FlagOK
  <2> QED
    BY <1>2, <2>5, <2>6, <2>10
<1> QED
  BY <1>4, <1>5

LEMMA RegistryLife ==
  ASSUME LifeInv, NEW c \in Calls,
         \/ DisableNext(c) \/ OnDisableSettles(c) \/ OutputRemoved(c)
         \/ Compile(c) \/ LoadBuilt(c) \/ LoadModule(c) \/ LoadFails(c)
  PROVE  LifeInv'
<1>1. raced' = raced /\ UNCHANGED source
  BY DEF DisableNext, OnDisableSettles, OutputRemoved, Compile, LoadBuilt, LoadModule, LoadFails
<1>2. ongoing[c].at # "over"
  BY DEF DisableNext, OnDisableSettles, OutputRemoved, Compile, LoadBuilt, LoadModule, LoadFails
<1>3. /\ ShapeInv /\ Shape(ongoing[c]) /\ ongoing[c] # AtRest
      /\ raced \in BOOLEAN /\ skewed \in BOOLEAN
      /\ record = Missing \/ IsRecord(record)
      /\ source # Missing => record # Missing
      /\ ~raced => Lone /\ About(c) /\ FlagOK
  BY <1>2, GoingOn
<1>4. ASSUME Steps(c), record' = record, skewed' \in BOOLEAN, ~raced => About(c)' /\ FlagOK'
      PROVE  LifeInv'
  BY <1>1, <1>3, <1>4, LifeStep
<1>5. ASSUME Ends(c) PROVE Steps(c) /\ ongoing'[c] = AtRest /\ About(c)'
  <2>1. Steps(c) /\ ongoing'[c] = AtRest
    BY <1>1, <1>3, <1>5, CallContinues, RestIsShaped DEF Ends
  <2> QED
    BY <2>1, RestIsShaped DEF About
<1>6. CASE OnDisableSettles(c)
  <2>1. /\ ongoing[c].at = "onDisable" /\ module' = Missing /\ record' = record
        /\ skewed' \in {skewed, FALSE} /\ (ongoing[c].op = "reload" => skewed' = skewed)
        /\ \/ ongoing[c].op = "disable" /\ Awaits(c, "dashboard")
           \/ ongoing[c].op = "disableAll" /\ Ends(c)
           \/ ongoing[c].op = "reload" /\ Awaits(c, "rm")
    BY <1>6 DEF OnDisableSettles
  <2>2. FlagOK'
    BY <2>1 DEF FlagOK
  <2>3. CASE Ends(c)
    BY <1>3, <1>4, <1>5, <2>1, <2>2, <2>3
  <2>4. CASE ongoing[c].op = "disable" /\ Awaits(c, "dashboard")
    <3>1. \A o : /\ {"op", "at"} \subseteq DOMAIN o /\ o.op = ongoing[c].op
                 /\ o.at = "dashboard" /\ o.op # "none"
                 => Shape(o)
      BY <2>4 DEF Shape
    <3>2. Steps(c) /\ ongoing'[c].op = ongoing[c].op /\ ongoing'[c].at = "dashboard"
      BY <1>1, <1>3, <2>4, <3>1, CallPasses
    <3>3. About(c)'
      BY <2>4, <3>2 DEF About
    <3> QED
      BY <1>3, <1>4, <2>1, <2>2, <3>2, <3>3
  <2>5. CASE ongoing[c].op = "reload" /\ Awaits(c, "rm")
    <3>1. \A o : /\ {"op", "at"} \subseteq DOMAIN o /\ o.op = ongoing[c].op
                 /\ o.at = "rm" /\ "loaded" \in DOMAIN o
                 => Shape(o)
      BY <2>5 DEF Shape
    <3>2. Steps(c) /\ ongoing'[c].op = "reload" /\ ongoing'[c].at = "rm"
      BY <1>1, <1>3, <2>5, <3>1, CallPasses
    <3>3. ~raced => About(c)'
      BY <1>1, <1>3, <2>1, <2>5, <3>2 DEF About
    <3> QED
      BY <1>3, <1>4, <2>1, <2>2, <3>2, <3>3
  <2> QED
    BY <2>1, <2>3, <2>4, <2>5
<1>7. CASE OutputRemoved(c)
  <2>1. ongoing[c].at = "rm" /\ bundle' = Missing /\ required' = Missing /\ module' = module
        /\ ongoing[c].op = "reload" /\ ~Excuse(c) /\ skewed' = skewed /\ record' = record
    BY <1>3, <1>7 DEF OutputRemoved, Shape, Excuse, histories
  <2>2. CASE Awaits(c, "load") /\ module = Missing
    <3>1. \A o : /\ {"op", "at"} \subseteq DOMAIN o /\ o.op = ongoing[c].op
                 /\ o.at = "load" /\ "loaded" \in DOMAIN o
                 => Shape(o)
      BY <2>1 DEF Shape
    <3>2. Steps(c) /\ ongoing'[c].op = ongoing[c].op /\ ongoing'[c].at = "load"
      BY <1>1, <1>3, <2>1, <2>2, <3>1, CallPasses
    <3>3. ~raced => About(c)' /\ FlagOK'
      BY <1>1, <1>3, <2>1, <2>2, <3>2, SameFlag DEF About
    <3> QED
      BY <1>3, <1>4, <2>1, <3>2, <3>3
  <2>3. CASE Ends(c)
    BY <1>1, <1>3, <1>4, <1>5, <2>1, <2>3, SameFlag
  <2> QED
    BY <1>7, <2>2, <2>3 DEF OutputRemoved
<1>8. CASE LoadFails(c)
  <2>1. Ends(c) /\ module' = module /\ ~Excuse(c) /\ skewed' = skewed /\ record' = record
    BY <1>8 DEF LoadFails, Excuse, histories
  <2> QED
    BY <1>1, <1>3, <1>4, <1>5, <2>1, SameFlag
<1>9. CASE LoadModule(c)
  <2>1. /\ ongoing[c].at = "load" /\ Registers(c, Exports(bundle))
        /\ UNCHANGED <<source, record, raced, skewed>>
    BY <1>9 DEF LoadModule, histories
  <2> QED
    BY <2>1, RegisteringLife
<1>10. CASE LoadBuilt(c)
  <2>1. /\ ongoing[c].at = "build" /\ Registers(c, Exports(ongoing[c].loaded))
        /\ UNCHANGED <<source, record, raced, skewed>>
    BY <1>10 DEF LoadBuilt
  <2> QED
    BY <2>1, RegisteringLife
<1>11. CASE Compile(c)
  <2> DEFINE o == [ongoing[c] EXCEPT !.at = "build", !.loaded = Compiled(source)]
  <2>1. /\ ongoing[c].at = "load" /\ Moves(c, o)
        /\ UNCHANGED <<source, bundle, required, module, record, skewed>> /\ ~Excuse(c)
    BY <1>11 DEF Compile, Excuse, histories
  <2>2. o.op = ongoing[c].op /\ o.at = "build" /\ DOMAIN o = DOMAIN ongoing[c]
    BY <1>3 DEF Shape
  <2>3. "loaded" \in DOMAIN ongoing[c] => o.loaded.edit = source.edit
    BY DEF Compiled
  <2> HIDE DEF o
  <2>4. o.op # "none" /\ o.op \in {"enable", "reload", "boot"}
    BY <1>3, <2>1, <2>2 DEF Shape
  <2>5. Shape(o)
    BY <1>3, <2>2, <2>4 DEF Shape
  <2>6. Steps(c) /\ ongoing'[c] = o
    BY <1>1, <1>3, <2>1, <2>2, <2>5, CallContinues
  <2>7. ongoing[c].op = "reload" => "loaded" \in DOMAIN ongoing[c]
    BY <1>3 DEF Shape
  <2>8. ~raced => About(c)'
    BY <1>1, <1>3, <2>1, <2>2, <2>3, <2>4, <2>6, <2>7 DEF About
  <2>9. ~raced => FlagOK'
    BY <1>3, <2>1, <2>6, SameFlag
  <2> QED
    BY <1>3, <1>4, <2>1, <2>6, <2>8, <2>9
<1>12. CASE DisableNext(c)
  <2>1. /\ ongoing[c].at = "others" /\ ongoing[c].op = "disableAll"
        /\ record' = Switched(record, FALSE) /\ module' = module /\ skewed' = skewed
        /\ IF module # Missing THEN Awaits(c, "onDisable") ELSE Ends(c)
    BY <1>3, <1>12 DEF DisableNext, Shape, histories
  <2>2. IsRecord(record') /\ record' # Missing
    BY <1>3, <2>1, SwitchedRecord
  <2>3. CASE module # Missing
    <3>1. \A o : /\ {"op", "at"} \subseteq DOMAIN o /\ o.op = ongoing[c].op
                 /\ o.at = "onDisable" /\ o.op # "none"
                 => Shape(o)
      BY <2>1 DEF Shape
    <3>2. Steps(c) /\ ongoing'[c].op = "disableAll" /\ ongoing'[c].at = "onDisable"
      BY <1>1, <1>3, <2>1, <2>3, <3>1, CallPasses
    <3>3. About(c)' /\ FlagOK'
      BY <2>2, <3>2 DEF About, FlagOK, Excuse
    <3> QED
      BY <1>1, <1>3, <2>1, <2>2, <3>2, <3>3, LifeStep
  <2>4. CASE module = Missing
    <3>1. Steps(c) /\ ongoing'[c] = AtRest /\ About(c)'
      BY <1>5, <2>1, <2>4
    <3>2. FlagOK'
      BY <2>1, <2>4 DEF FlagOK
    <3> QED
      BY <1>1, <1>3, <2>1, <2>2, <3>1, <3>2, LifeStep
  <2> QED
    BY <2>3, <2>4
<1> QED
  BY <1>6, <1>7, <1>8, <1>9, <1>10, <1>11, <1>12

LEMMA HooksLife == ASSUME LifeInv, NEW c \in Calls, HooksSettle(c) PROVE LifeInv'
<1>1. raced' = raced /\ UNCHANGED <<source, module>> /\ ongoing[c].at = "hooks"
        /\ ongoing[c].at # "over"
  BY DEF HooksSettle
<1>2. /\ ShapeInv /\ Shape(ongoing[c]) /\ ongoing[c] # AtRest
      /\ raced \in BOOLEAN /\ skewed \in BOOLEAN
      /\ record = Missing \/ IsRecord(record)
      /\ source # Missing => record # Missing
      /\ ~raced => Lone /\ About(c) /\ FlagOK
  BY <1>1, GoingOn
<1> DEFINE v == ongoing[c].loaded.version
<1>3. PICK kept \in {record, Installed(record, v)} :
         \/ /\ ongoing[c].op = "enable"
            /\ record' = Switched(kept, TRUE) /\ skewed' = FALSE /\ Awaits(c, "dashboard")
         \/ /\ record' \in {record, kept} /\ Ends(c)
            /\ skewed' = IF ongoing[c].op = "enable" THEN TRUE ELSE skewed
  <2>1. PICK fails \in BOOLEAN :
          LET k == IF fails THEN record ELSE Installed(record, v)
          IN  \/ /\ ongoing[c].op = "enable"
                 /\ record' = Switched(k, TRUE) /\ skewed' = FALSE /\ Awaits(c, "dashboard")
              \/ ongoing[c].op # "enable" /\ record' = k /\ skewed' = skewed /\ Ends(c)
              \/ /\ record' \in {record, k} /\ skewed' = (skewed \/ ongoing[c].op = "enable")
                 /\ Ends(c)
    <3>1. HooksSettle(c)
      OBVIOUS
    <3> QED
      BY <3>1, Zenon DEF HooksSettle
  <2> DEFINE k == IF fails THEN record ELSE Installed(record, v)
  <2>2. k \in {record, Installed(record, v)}
    OBVIOUS
  <2>3. (skewed \/ ongoing[c].op = "enable") = IF ongoing[c].op = "enable" THEN TRUE ELSE skewed
    BY <1>2
  <2> HIDE DEF v, k
  <2>4. \/ /\ ongoing[c].op = "enable"
           /\ record' = Switched(k, TRUE) /\ skewed' = FALSE /\ Awaits(c, "dashboard")
        \/ ongoing[c].op # "enable" /\ record' = k /\ skewed' = skewed /\ Ends(c)
        \/ /\ record' \in {record, k} /\ skewed' = (skewed \/ ongoing[c].op = "enable") /\ Ends(c)
    BY <2>1, Zenon DEF k
  <2> QED
    BY <2>2, <2>3, <2>4
<1> HIDE DEF v
<1>4. /\ kept = Missing \/ IsRecord(kept)
      /\ record # Missing => kept # Missing /\ kept.enabled = record.enabled
  BY <1>2, <1>3, InstalledRecord
<1>5. CASE ongoing[c].op = "enable" /\ Awaits(c, "dashboard")
           /\ record' = Switched(kept, TRUE) /\ skewed' = FALSE
  <2>1. IsRecord(record') /\ record' # Missing /\ record'.enabled
    BY <1>4, <1>5, SwitchedRecord
  <2>2. \A o : {"op", "at"} \subseteq DOMAIN o /\ o.op = ongoing[c].op /\ o.at = "dashboard"
          /\ o.op # "none"
             => Shape(o)
    BY <1>5 DEF Shape
  <2>3. Steps(c) /\ ongoing'[c].op = "enable" /\ ongoing'[c].at = "dashboard"
    BY <1>1, <1>2, <1>5, <2>2, CallPasses
  <2>4. About(c)' /\ FlagOK'
    BY <2>1, <2>3 DEF About, FlagOK
  <2> QED
    BY <1>1, <1>2, <1>5, <2>1, <2>3, <2>4, LifeStep
<1>6. CASE record' \in {record, kept} /\ Ends(c)
           /\ skewed' = IF ongoing[c].op = "enable" THEN TRUE ELSE skewed
  <2>1. Steps(c) /\ ongoing'[c] = AtRest
    BY <1>1, <1>2, <1>6, CallContinues, RestIsShaped DEF Ends
  <2>2. (record' = Missing \/ IsRecord(record')) /\ skewed' \in BOOLEAN
        /\ (record # Missing => record' # Missing /\ record'.enabled = record.enabled)
    BY <1>2, <1>4, <1>6
  <2>3. ~raced /\ ~skewed' => record # Missing /\ record.enabled
    BY <1>1, <1>2, <1>6 DEF About, Shape
  <2>4. ~raced => About(c)' /\ FlagOK'
    BY <2>1, <2>2, <2>3, RestIsShaped DEF About, FlagOK
  <2> QED
    BY <1>1, <1>2, <2>1, <2>2, <2>4, LifeStep
<1> QED
  BY <1>3, <1>5, <1>6

LEMMA FilesLife ==
  ASSUME LifeInv, NEW c \in Calls, Removed(c) \/ Moved(c) \/ Scan(c) \/ Remember(c)
                                      \/ Unrecorded(c)
  PROVE  LifeInv'
<1>1. raced' = raced /\ module' = module /\ skewed' = skewed /\ ~Excuse(c)
        /\ ongoing[c].at # "over"
  BY DEF Removed, Moved, Scan, Remember, Unrecorded, Excuse, histories
<1>2. /\ ShapeInv /\ Shape(ongoing[c]) /\ ongoing[c] # AtRest /\ raced \in BOOLEAN /\ skewed \in BOOLEAN
      /\ record = Missing \/ IsRecord(record)
      /\ source # Missing => record # Missing
      /\ ~raced => Lone /\ About(c) /\ FlagOK
  BY <1>1, GoingOn
<1>3. ASSUME NEW s \in {"dashboard"}, Awaits(c, s), ongoing[c].op \notin {"boot", "reload"}
      PROVE  Steps(c) /\ ongoing'[c].op = ongoing[c].op /\ ongoing'[c].at = s
  <2>1. \A o : {"op", "at"} \subseteq DOMAIN o /\ o.op = ongoing[c].op /\ o.at = s
          /\ o.op # "none" => Shape(o)
    BY <1>3 DEF Shape
  <2> QED
    BY <1>1, <1>2, <1>3, <2>1, CallPasses
<1>4. CASE Removed(c)
  <2>1. ongoing[c].op = "delete" /\ source' = Missing /\ record' = Missing /\ Awaits(c, "dashboard")
    BY <1>2, <1>4 DEF Removed, Shape
  <2>2. Steps(c) /\ ongoing'[c].op = "delete" /\ ongoing'[c].at = "dashboard"
    BY <1>3, <2>1
  <2>3. ~raced => Alone(c) /\ (~skewed => module = Missing)
    BY <1>2, <2>1 DEF Lone, About
  <2>4. ~raced => About(c)' /\ FlagOK'
    BY <1>1, <2>2, <2>3 DEF About, FlagOK
  <2>5. CASE raced
    <3>1. ShapeInv'
      BY <1>1, <1>2, <2>1, <2>2 DEF ShapeInv, Steps
    <3> QED
      BY <1>1, <2>5, <3>1 DEF LifeInv
  <2>6. CASE ~raced
    BY <1>1, <1>2, <2>1, <2>2, <2>3, <2>4, <2>6, LifeStep
  <2> QED
    BY <2>5, <2>6
<1>5. CASE Moved(c) /\ source = Missing
  <2>1. ongoing[c].op = "install" /\ record' = Remembered(record, FALSE) /\ Awaits(c, "dashboard")
    BY <1>2, <1>5 DEF Moved, Shape
  <2>2. Steps(c) /\ ongoing'[c].op = "install" /\ ongoing'[c].at = "dashboard"
    BY <1>3, <2>1
  <2>3. IsRecord(record') /\ record' # Missing /\ (record # Missing => record' = record)
    BY <1>2, <2>1, RecordOps, RecordIsThere DEF Remembered
  <2>4. ~raced => About(c)' /\ FlagOK'
    <3>1. CASE record = Missing
      BY <1>1, <1>2, <2>2, <2>3, <3>1 DEF About, FlagOK
    <3>2. CASE record # Missing
      BY <1>1, <1>2, <2>2, <2>3, <3>2, SameFlag DEF About
    <3> QED
      BY <3>1, <3>2
  <2> QED
    BY <1>1, <1>2, <2>2, <2>3, <2>4, LifeStep
<1>6. CASE Moved(c) /\ source # Missing
  <2>1. Ends(c) /\ source' = Missing /\ record' = record
    BY <1>6 DEF Moved
  <2>2. Steps(c) /\ ongoing'[c] = AtRest
    BY <1>1, <1>2, <2>1, CallContinues, RestIsShaped DEF Ends
  <2>3. ~raced => About(c)' /\ FlagOK'
    BY <1>1, <1>2, <2>1, <2>2, SameFlag, RestIsShaped DEF About
  <2> QED
    BY <1>1, <1>2, <2>1, <2>2, <2>3, LifeStep
<1>7. CASE Scan(c)
  <2> DEFINE o == [op |-> ongoing[c].op, at |-> "remember", found |-> source # Missing]
  <2>1. Moves(c, o) /\ UNCHANGED <<source, record>> /\ ongoing[c].at = "dashboard"
    BY <1>7 DEF Scan
  <2>2. ongoing[c].op \notin {"none", "boot", "reload"}
    BY <1>2, <2>1 DEF Shape
  <2>3. Shape(o) /\ o.op = ongoing[c].op /\ o.at = "remember"
    BY <2>2 DEF Shape
  <2>4. Steps(c) /\ ongoing'[c] = o
    BY <1>1, <1>2, <2>1, <2>3, CallContinues
  <2> HIDE DEF o
  <2>5. ~raced => About(c)' /\ FlagOK'
    BY <1>1, <1>2, <2>1, <2>2, <2>3, <2>4, SameFlag DEF About
  <2> QED
    BY <1>1, <1>2, <2>1, <2>4, <2>5, LifeStep
<1>8. CASE Remember(c)
  <2>1. /\ Ends(c) /\ source' = source
        /\ record' = IF ongoing[c].found \/ module # Missing
                     THEN Remembered(record, module # Missing) ELSE record
    BY <1>8 DEF Remember
  <2>2. Steps(c) /\ ongoing'[c] = AtRest
    BY <1>1, <1>2, <2>1, CallContinues, RestIsShaped DEF Ends
  <2>3. (record' = Missing \/ IsRecord(record')) /\ (record # Missing => record' = record)
    BY <1>2, <2>1, RecordOps DEF Remembered
  <2>4. About(c)'
    BY <2>2, RestIsShaped DEF About
  <2>5. ~raced => FlagOK'
    <3>1. CASE record = Missing
      BY <1>1, <1>2, <3>1 DEF FlagOK
    <3>2. CASE record # Missing
      BY <1>1, <1>2, <2>2, <2>3, <3>2, SameFlag
    <3> QED
      BY <3>1, <3>2
  <2> QED
    BY <1>1, <1>2, <2>1, <2>2, <2>3, <2>4, <2>5, LifeStep
<1>9. CASE Unrecorded(c)
  <2>1. Ends(c) /\ source' \in {source, Missing} /\ record' = record
    BY <1>9 DEF Unrecorded
  <2>2. Steps(c) /\ ongoing'[c] = AtRest
    BY <1>1, <1>2, <2>1, CallContinues, RestIsShaped DEF Ends
  <2>3. ~raced => About(c)' /\ FlagOK'
    BY <1>1, <1>2, <2>1, <2>2, SameFlag, RestIsShaped DEF About
  <2> QED
    BY <1>1, <1>2, <2>1, <2>2, <2>3, LifeStep
<1> QED
  BY <1>4, <1>5, <1>6, <1>7, <1>8, <1>9

LEMMA EditLife == ASSUME LifeInv, Edit PROVE LifeInv'
<1>1. /\ source # Missing /\ UNCHANGED <<bundle, required, module, record, ongoing, raced, skewed>>
      /\ overtaken' = overtaken \union {c \in Calls : ongoing[c].at = "build"}
  BY DEF Edit
<1>2. PICK e, n, v, ok : source' = [edit |-> e, near |-> n, version |-> v, builds |-> ok]
  BY DEF Edit
<1>3. source' # Missing
  BY <1>2 DEF Missing
<1>4. \A c \in Calls : About(c) => About(c)'
  BY <1>1, <1>3 DEF About
<1>5. ShapeInv' /\ (Lone => Lone') /\ (FlagOK => FlagOK')
  BY <1>1, <1>3 DEF LifeInv, ShapeInv, Lone, Alone, FlagOK, Excuse
<1> QED
  BY <1>1, <1>4, <1>5 DEF LifeInv

LEMMA ToolLife == ASSUME LifeInv, NEW on \in BOOLEAN, ToolSwitches(on) PROVE LifeInv'
<1>1. /\ UNCHANGED <<source, bundle, required, module, ongoing, raced, overtaken>>
      /\ record' = Switched(record, on) /\ module # Missing /\ skewed' = (skewed \/ ~on)
  BY DEF ToolSwitches
<1>2. ShapeInv /\ (record = Missing \/ IsRecord(record)) /\ skewed \in BOOLEAN
  BY DEF LifeInv, ShapeInv
<1>3. IsRecord(record') /\ record' # Missing /\ record'.enabled = on
  BY <1>1, <1>2, SwitchedRecord
<1>4. skewed' \in BOOLEAN /\ (~skewed' => ~skewed /\ on)
  BY <1>1, <1>2
<1>5. ShapeInv'
  BY <1>1, <1>2, <1>3, <1>4 DEF ShapeInv
<1>6. \A c \in Calls : About(c) => About(c)'
  BY <1>1, <1>3, <1>4 DEF About
<1>7. FlagOK' /\ (Lone => Lone')
  BY <1>1, <1>3, <1>4 DEF FlagOK, Lone, Alone
<1> QED
  BY <1>1, <1>5, <1>6, <1>7 DEF LifeInv

(* The process starts again: a load of the worker, if it is enabled, goes   *)
(* on by itself.                                                            *)
LEMMA RebootLife == ASSUME LifeInv, NEW c \in Calls, Reboot(c) PROVE LifeInv'
<1> DEFINE starts == source # Missing /\ record # Missing /\ record.enabled
<1> DEFINE o == [op |-> "boot", at |-> "load", prev |-> record.version, loaded |-> Missing]
<1>1. /\ module' = Missing /\ raced' = FALSE /\ skewed' = FALSE /\ UNCHANGED <<source, record>>
      /\ ongoing' = [d \in Calls |-> IF d = c /\ starts THEN o ELSE AtRest]
  BY DEF Reboot
<1>2. Shape(o) /\ o.op = "boot" /\ o.at = "load"
  BY DEF Shape
<1> HIDE DEF o
<1>3. \A d \in Calls : ongoing'[d] = IF d = c /\ starts THEN o ELSE AtRest
  BY <1>1
<1>4. DOMAIN ongoing' = Calls
  BY <1>1
<1>5. ShapeInv'
  BY <1>1, <1>2, <1>3, <1>4, RestIsShaped DEF LifeInv, ShapeInv
<1>6. Lone'
  BY <1>3, RestIsShaped DEF Lone, Alone
<1>7. \A d \in Calls : About(d)'
  BY <1>1, <1>2, <1>3, RestIsShaped DEF About
<1> QED
  BY <1>1, <1>5, <1>6, <1>7 DEF LifeInv, FlagOK

LEMMA LifeInvStep == LifeInv /\ [LifecycleNext]_lifecycleVars => LifeInv'
<1> SUFFICES ASSUME LifeInv, [LifecycleNext]_lifecycleVars PROVE LifeInv'
  OBVIOUS
<1>1. CASE UNCHANGED lifecycleVars
  BY <1>1 DEF lifecycleVars, histories, LifeInv, ShapeInv, Lone, Alone, About, FlagOK, Excuse
<1> QED
  BY <1>1, BeginningLife, RegistryLife, HooksLife, FilesLife, EditLife, ToolLife, RebootLife
     DEF LifecycleNext

LEMMA LifeInit == LifecycleInit => LifeInv
<1> SUFFICES ASSUME LifecycleInit PROVE LifeInv
  OBVIOUS
<1>1. \A c \in Calls : ongoing[c] = AtRest
  BY DEF LifecycleInit
<1> QED
  BY <1>1, RestIsShaped DEF LifecycleInit, LifeInv, ShapeInv, Lone, About, FlagOK

(* Whatever order requests that switch a worker on and off come in, fail or *)
(* are cut off in, one that worker.state says is disabled has no module     *)
(* when they have ended (workers.ts:112).                                   *)
THEOREM DisabledWorkersAreUnloaded == LifecycleSpec => []DisabledIsUnloaded
<1>1. LifeInv => DisabledIsUnloaded
  <2> SUFFICES ASSUME LifeInv, Quiet, ~raced, ~skewed, module # Missing, record # Missing
               PROVE  record.enabled
    BY DEF DisabledIsUnloaded
  <2>1. \A c \in Calls : ~Excuse(c)
    BY RestIsShaped DEF Quiet, Excuse
  <2> QED
    BY <2>1 DEF LifeInv, FlagOK
<1> QED
  BY <1>1, LifeInit, LifeInvStep, PTL DEF LifecycleSpec

(* A hot reload beside which no other call runs registers the source as it  *)
(* is at that moment, unless it was edited since the compiler read it       *)
(* (watch.ts:15, build.ts:46-88).                                           *)
THEOREM ReloadsLoadTheSource == LifecycleSpec => ReloadsAreFresh
<1> DEFINE Fresh == \A c \in Calls :
             Loads(c, "reload") /\ ~raced /\ c \notin overtaken
               => source # Missing /\ module'.edit = source.edit
<1>1. LifeInv /\ [LifecycleNext]_lifecycleVars => [Fresh]_lifecycleVars
  <2> SUFFICES ASSUME LifeInv, LifecycleNext, NEW c \in Calls, Loads(c, "reload"), ~raced,
                      c \notin overtaken
               PROVE  source # Missing /\ module'.edit = source.edit
    OBVIOUS
  <2>0. ongoing[c].op = "reload" /\ ongoing[c].at \in {"load", "build"} /\ ongoing'[c].at = "hooks"
    BY DEF Loads
  <2>1. /\ About(c) /\ source # Missing /\ module = Missing /\ required = Missing
        /\ \A d \in Calls : d # c => ongoing[d] = AtRest
    BY <2>0 DEF LifeInv, About, Lone, Alone
  <2>2. DOMAIN ongoing = Calls
    BY DEF LifeInv, ShapeInv
  <2>3. LoadBuilt(c) \/ LoadModule(c)
    <3>1. ongoing' # ongoing
      BY <2>0
    <3>2. ASSUME NEW d \in Calls, Reboot(d) PROVE FALSE
      BY <2>0, <3>2, <2>2, RestIsShaped DEF Reboot
    <3>3. ASSUME NEW d \in Calls, NEW o, d # c, Moves(d, o) PROVE FALSE
      BY <2>0, <3>3, <2>2 DEF Moves
    <3>4. ASSUME NEW d \in Calls, Enable(d) \/ Disable(d) \/ Delete(d) \/ Install(d) \/ Look(d)
                   \/ DisableAll(d) \/ TimerFires(d)
          PROVE  FALSE
      <4>1. d # c
        BY <2>0, <3>4, RestIsShaped
           DEF Enable, Disable, Delete, Install, Look, DisableAll, TimerFires, Requested, Starts
      <4>2. \E o : Moves(d, o)
        BY <3>1, <3>4 DEF Enable, Disable, Delete, Install, Look, DisableAll, TimerFires, Activates
      <4> QED
        BY <3>3, <4>1, <4>2
    <3>5. ASSUME NEW d \in Calls, \/ OnDisableSettles(d) \/ OutputRemoved(d) \/ HooksSettle(d)
                                  \/ Removed(d) \/ Moved(d) \/ Scan(d) \/ Remember(d)
                                  \/ DisableNext(d) \/ Unrecorded(d)
          PROVE  FALSE
      <4>1. ongoing[d].at \notin {"load", "build", "over"}
        BY <3>5 DEF OnDisableSettles, OutputRemoved, HooksSettle, Removed, Moved, Scan, Remember,
           DisableNext, Unrecorded
      <4> QED
        BY <2>0, <2>1, <4>1, RestIsShaped
    <3>6. ASSUME NEW d \in Calls, Compile(d) \/ LoadBuilt(d) \/ LoadModule(d) \/ LoadFails(d)
          PROVE  d = c
      BY <2>1, <3>6, RestIsShaped DEF Compile, LoadBuilt, LoadModule, LoadFails
    <3>7. ~LoadFails(c)
      BY <2>0, <2>2, RestIsShaped DEF LoadFails, Ends, Moves
    <3>8. ~Compile(c)
      <4> DEFINE o == [ongoing[c] EXCEPT !.at = "build", !.loaded = Compiled(source)]
      <4>1. Shape(ongoing[c])
        BY DEF LifeInv, ShapeInv
      <4>2. o.at = "build"
        BY <4>1 DEF Shape
      <4> HIDE DEF o
      <4>3. ~Moves(c, o)
        BY <2>0, <2>2, <4>2 DEF Moves
      <4> QED
        BY <4>3 DEF Compile, o
    <3>9. ~Edit /\ \A on \in BOOLEAN : ~ToolSwitches(on)
      BY <3>1 DEF Edit, ToolSwitches
    <3> QED
      BY <3>2, <3>4, <3>5, <3>6, <3>7, <3>8, <3>9 DEF LifecycleNext
  <2>4. CASE LoadModule(c)
    BY <2>0, <2>1, <2>4 DEF LoadModule, About, Recompiles
  <2>5. CASE LoadBuilt(c)
    <3>1. ongoing[c].at = "build" /\ module' = Exports(ongoing[c].loaded)
      BY <2>1, <2>5 DEF LoadBuilt, Registers
    <3>2. ongoing[c].loaded.edit = source.edit
      BY <2>0, <2>1, <3>1 DEF About
    <3>3. Exports(ongoing[c].loaded).edit = ongoing[c].loaded.edit
      BY <2>1 DEF Exports, Compiled
    <3> QED
      BY <2>1, <3>1, <3>2, <3>3
  <2> QED
    BY <2>3, <2>4, <2>5
<1> QED
  BY <1>1, LifeInit, LifeInvStep, PTL DEF LifecycleSpec, ReloadsAreFresh

(* What is required and registered is a module, and so is what a call has   *)
(* compiled or loaded; an installation knows its edit.                      *)
Modules == [edit : 1..MaxEdits, version : Versions]
Bundles == [edit : 1..MaxEdits, version : Versions, at : 0..MaxEdits]

Typed(o) ==
  /\ o.at \in {"load", "build", "hooks"} \/ o.op = "reload" => "loaded" \in DOMAIN o
  /\ o.at \in {"build", "hooks"} => o.loaded \in Modules
  /\ o.at = "move" => o.edit \in 1..MaxEdits

LifeTypes ==
  /\ source \in Sources \union {Missing} /\ record \in Records \union {Missing}
  /\ bundle \in Bundles \union {Missing} /\ required \in Modules \union {Missing}
  /\ module \in Modules \union {Missing}
  /\ edits \in 0..MaxEdits /\ timer \in BOOLEAN
  /\ \A c \in Calls : Typed(ongoing[c])

LEMMA RecordTypes ==
  ASSUME NEW r \in Records \union {Missing}, NEW on \in BOOLEAN, NEW v \in Versions
  PROVE  Remembered(r, on) \in Records /\ Switched(r, on) \in Records /\ Installed(r, v) \in Records
<1>1. Remembered(r, on) \in Records
  BY DEF Remembered, Records
<1>2. Installed(r, v) \in Records
  BY DEF Installed, Records, Missing
<1>3. \A q \in Records : [q EXCEPT !.enabled = on] \in Records
  BY DEF Records
<1> QED
  BY <1>1, <1>2, <1>3 DEF Switched

LEMMA ExportsModule ==
  ASSUME LifeTypes
  PROVE  /\ source # Missing => Compiled(source) \in Modules
         /\ \A b \in Modules : Exports(b) \in Modules
         /\ required # Missing \/ bundle # Missing => Exports(bundle) \in Modules
BY DEF LifeTypes, Compiled, Exports, Sources, Bundles, Modules

LEMMA TypedMoves ==
  ASSUME LifeInv, LifeTypes, NEW c \in Calls, NEW o, Moves(c, o), Typed(o)
  PROVE  \A d \in Calls : Typed(ongoing'[d])
<1>1. ongoing'[c] = o /\ \A d \in Calls : d # c => ongoing'[d] = ongoing[d]
  BY CallMoves DEF LifeInv, ShapeInv
<1> QED
  BY <1>1 DEF LifeTypes

LEMMA TypedCalls ==
  ASSUME LifeInv, LifeTypes, [LifecycleNext]_lifecycleVars
  PROVE  \A d \in Calls : Typed(ongoing'[d])
<1> DEFINE Goal == \A d \in Calls : Typed(ongoing'[d])
<1>1. \A d \in Calls : Shape(ongoing[d]) /\ Typed(ongoing[d])
  BY DEF LifeInv, ShapeInv, LifeTypes
<1>2. Typed(AtRest)
  BY DEF Typed, AtRest
<1>3. ASSUME NEW c \in Calls, Ends(c) PROVE Goal
  BY <1>2, <1>3, TypedMoves DEF Ends
<1>4. ASSUME NEW c \in Calls, NEW s, Awaits(c, s), s \notin {"build", "hooks", "move"},
             s = "load" => ongoing[c].op = "reload"
      PROVE  Goal
  <2> DEFINE o == [ongoing[c] EXCEPT !.at = s]
  <2>1. o.op = ongoing[c].op /\ o.at = s /\ DOMAIN o = DOMAIN ongoing[c]
    BY <1>1 DEF Shape
  <2> HIDE DEF o
  <2>2. Typed(o)
    BY <1>1, <1>4, <2>1 DEF Typed
  <2>3. Moves(c, o)
    BY <1>4 DEF Awaits, o
  <2> QED
    BY <2>2, <2>3, TypedMoves
<1>5. ASSUME NEW c \in Calls, NEW op, NEW s, s \notin {"load", "build", "hooks", "move"},
             op # "reload",
             Moves(c, [op |-> op, at |-> s])
      PROVE  Goal
  BY <1>5, TypedMoves DEF Typed
<1>6. ASSUME NEW c \in Calls, NEW op, NEW s, NEW v, s \notin {"build", "hooks", "move"},
             Moves(c, [op |-> op, at |-> s, prev |-> v, loaded |-> Missing])
      PROVE  Goal
  BY <1>6, TypedMoves DEF Typed
<1>7. ASSUME NEW c \in Calls, Enable(c) \/ Disable(c) \/ Delete(c) \/ Look(c) \/ DisableAll(c)
                               \/ TimerFires(c)
      PROVE  Goal
  <2> HIDE DEF Goal
  <2>1. CASE Enable(c)
    <3>1. CASE module # Missing
      <4>1. Moves(c, [op |-> "enable", at |-> "dashboard"])
        BY <2>1, <3>1 DEF Enable
      <4> QED
        BY <1>5, <4>1
    <3>2. CASE module = Missing
      <4>1. Moves(c, [op |-> "enable", at |-> "load",
                      prev |-> Remembered(record, FALSE).version, loaded |-> Missing])
        BY <2>1, <3>2 DEF Enable, Activates
      <4> QED
        BY <1>6, <4>1
    <3> QED
      BY <3>1, <3>2
  <2>2. CASE Disable(c)
    BY <1>5, <2>2 DEF Disable
  <2>3. CASE Delete(c) \/ Look(c) \/ DisableAll(c)
    BY <1>5, <2>3 DEF Delete, Look, DisableAll
  <2>4. CASE TimerFires(c)
    <3>1. UNCHANGED ongoing => Goal
      BY <1>1 DEF Goal
    <3> QED
      BY <1>6, <2>4, <3>1 DEF TimerFires
  <2> QED
    BY <1>7, <2>1, <2>2, <2>3, <2>4
<1>8. ASSUME NEW c \in Calls, Install(c) PROVE Goal
  <2> DEFINE o == [op |-> "install", at |-> "move", edit |-> edits']
  <2>1. edits' \in 1..MaxEdits
    BY <1>8, LifecycleAssumption DEF Install, LifeTypes
  <2>2. Typed(o)
    BY <2>1 DEF Typed
  <2>3. Moves(c, o)
    BY <1>8 DEF Install
  <2> QED
    BY <2>2, <2>3, TypedMoves
<1>9. ASSUME NEW c \in Calls, NEW m \in Modules, NEW s \in {"build", "hooks"},
             ongoing[c].at \in {"load", "build"}, Moves(c, [ongoing[c] EXCEPT !.at = s, !.loaded = m])
      PROVE  Goal
  <2> DEFINE o == [ongoing[c] EXCEPT !.at = s, !.loaded = m]
  <2>1. {"at", "loaded"} \subseteq DOMAIN ongoing[c]
    BY <1>1, <1>9 DEF Shape, Typed
  <2>2. o.at = s /\ o.loaded = m /\ "loaded" \in DOMAIN o
    BY <2>1
  <2>3. Moves(c, o)
    BY <1>9
  <2> HIDE DEF o
  <2>4. Typed(o)
    BY <2>2 DEF Typed
  <2> QED
    BY <2>3, <2>4, TypedMoves
<1>14. ASSUME NEW c \in Calls, Compile(c) \/ LoadBuilt(c) \/ LoadModule(c) PROVE Goal
  <2> HIDE DEF Goal
  <2>1. ASSUME NEW m \in Modules, ongoing[c].at \in {"load", "build"}, Registers(c, m) PROVE Goal
    BY <1>3, <1>9, <2>1 DEF Registers
  <2>2. CASE Compile(c)
    <3>1. /\ ongoing[c].at = "load"
          /\ Moves(c, [ongoing[c] EXCEPT !.at = "build", !.loaded = Compiled(source)])
      BY <2>2 DEF Compile
    <3>2. Compiled(source) \in Modules
      BY <2>2, ExportsModule DEF Compile, Recompiles
    <3> QED
      BY <1>9, <3>1, <3>2
  <2>3. CASE LoadBuilt(c)
    <3>1. ongoing[c].at = "build" /\ Registers(c, Exports(ongoing[c].loaded))
      BY <2>3 DEF LoadBuilt
    <3>2. ongoing[c].loaded \in Modules
      BY <1>1, <3>1 DEF Typed
    <3> QED
      BY <2>1, <3>1, <3>2, ExportsModule
  <2>4. CASE LoadModule(c)
    <3>1. ongoing[c].at = "load" /\ Registers(c, Exports(bundle))
      BY <2>4 DEF LoadModule
    <3>2. Exports(bundle) \in Modules
      BY <2>4, ExportsModule DEF LoadModule
    <3> QED
      BY <2>1, <3>1, <3>2
  <2> QED
    BY <1>14, <2>2, <2>3, <2>4
<1>10. ASSUME NEW c \in Calls, Scan(c) PROVE Goal
  <2> DEFINE o == [op |-> ongoing[c].op, at |-> "remember", found |-> source # Missing]
  <2>1. ongoing[c].op # "reload" /\ Moves(c, o)
    BY <1>1, <1>10 DEF Scan, Shape
  <2>2. Typed(o)
    BY <2>1 DEF Typed
  <2> QED
    BY <2>1, <2>2, TypedMoves
<1>11. ASSUME NEW c \in Calls, \/ OnDisableSettles(c) \/ OutputRemoved(c) \/ LoadFails(c)
                               \/ HooksSettle(c) \/ Removed(c) \/ Moved(c) \/ Remember(c)
                               \/ DisableNext(c) \/ Unrecorded(c)
       PROVE  Goal
  <2> HIDE DEF Goal
  <2>1. CASE OnDisableSettles(c)
    BY <1>3, <1>4, <2>1 DEF OnDisableSettles
  <2>2. CASE OutputRemoved(c)
    BY <1>1, <1>3, <1>4, <2>2 DEF OutputRemoved, Shape
  <2>3. CASE LoadFails(c) \/ Remember(c) \/ Unrecorded(c)
    BY <1>3, <2>3 DEF LoadFails, Remember, Unrecorded
  <2>4. CASE HooksSettle(c) \/ Removed(c) \/ Moved(c)
    <3>1. Ends(c) \/ Awaits(c, "dashboard")
      BY <2>4 DEF HooksSettle, Removed, Moved
    <3> QED
      BY <1>3, <1>4, <3>1
  <2>5. CASE DisableNext(c)
    BY <1>3, <1>4, <2>5 DEF DisableNext
  <2> QED
    BY <1>11, <2>1, <2>2, <2>3, <2>4, <2>5
<1>12. ASSUME NEW c \in Calls, Reboot(c) PROVE Goal
  <2> DEFINE o == [op |-> "boot", at |-> "load", prev |-> record.version, loaded |-> Missing]
  <2>1. Typed(o)
    BY DEF Typed
  <2>2. \A d \in Calls : ongoing'[d] \in {o, AtRest}
    BY <1>12 DEF Reboot
  <2> HIDE DEF o
  <2> QED
    BY <1>2, <2>1, <2>2
<1>13. CASE Edit \/ (\E on \in BOOLEAN : ToolSwitches(on)) \/ UNCHANGED lifecycleVars
  BY <1>1, <1>13 DEF Edit, ToolSwitches, lifecycleVars
<1> HIDE DEF Goal
<1> QED
  BY <1>7, <1>8, <1>9, <1>10, <1>11, <1>12, <1>13, <1>14
     DEF LifecycleNext, Goal

LEMMA LifeTypesStep == LifeInv /\ LifeTypes /\ [LifecycleNext]_lifecycleVars => LifeTypes'
<1> SUFFICES ASSUME LifeInv, LifeTypes, [LifecycleNext]_lifecycleVars PROVE LifeTypes'
  OBVIOUS
<1> DEFINE S == source \in Sources \union {Missing}
           R == record \in Records \union {Missing}
           M == /\ bundle \in Bundles \union {Missing} /\ required \in Modules \union {Missing}
                /\ module \in Modules \union {Missing}
           E == edits \in 0..MaxEdits
           T == timer \in BOOLEAN
<1>1. S /\ R /\ M /\ E /\ T /\ \A c \in Calls : Typed(ongoing[c])
  BY Zenon DEF LifeTypes
<1>2. \A c \in Calls : Typed(ongoing'[c])
  BY TypedCalls
<1>3. E' /\ T'
  <2>1. /\ (edits < MaxEdits => edits + 1 \in 0..MaxEdits) /\ edits \in 0..MaxEdits
        /\ HotReload \in BOOLEAN /\ (HotReload /\ ~Booting) \in BOOLEAN /\ FALSE \in BOOLEAN
        /\ timer \in BOOLEAN
    BY <1>1, LifecycleAssumption
  <2>2. ASSUME NEW c \in Calls,
               \/ Enable(c) \/ Disable(c) \/ Delete(c) \/ Look(c) \/ DisableAll(c)
               \/ DisableNext(c) \/ OnDisableSettles(c) \/ OutputRemoved(c)
        PROVE  E' /\ T'
    BY <2>1, <2>2, Zenon
       DEF Enable, Disable, Delete, Look, DisableAll, DisableNext, OnDisableSettles,
           OutputRemoved, bounds
  <2>3. ASSUME NEW c \in Calls,
               \/ Compile(c) \/ LoadBuilt(c) \/ LoadModule(c) \/ LoadFails(c) \/ HooksSettle(c)
               \/ Removed(c) \/ Scan(c) \/ Remember(c) \/ Unrecorded(c)
        PROVE  E' /\ T'
    BY <2>1, <2>3, Zenon
       DEF Compile, LoadBuilt, LoadModule, LoadFails, HooksSettle, Removed, Scan, Remember,
           Unrecorded, bounds
  <2>4. ASSUME NEW c \in Calls, Install(c) \/ TimerFires(c) \/ Moved(c) \/ Reboot(c)
        PROVE  E' /\ T'
    BY <2>1, <2>4, Zenon DEF Install, TimerFires, Moved, Reboot, bounds
  <2>5. CASE Edit \/ (\E on \in BOOLEAN : ToolSwitches(on)) \/ UNCHANGED lifecycleVars
    BY <2>1, <2>5, Zenon DEF Edit, ToolSwitches, lifecycleVars, bounds
  <2> HIDE DEF E, T
  <2> QED
    BY <2>2, <2>3, <2>4, <2>5, Zenon DEF LifecycleNext
<1>5. S'
  <2>1. ASSUME NEW c \in Calls, Moved(c) PROVE S'
    <3>1. CASE source' = Missing
      BY <3>1
    <3>2. CASE \E v \in Versions, ok \in BOOLEAN :
                 source' = [edit |-> ongoing[c].edit, near |-> ongoing[c].edit,
                            version |-> v, builds |-> ok]
      <4>1. ongoing[c].edit \in 1..MaxEdits
        BY <1>1, <2>1 DEF Moved, Typed
      <4> QED
        BY <3>2, <4>1 DEF Sources
    <3> QED
      BY <2>1, <3>1, <3>2 DEF Moved
  <2>2. ASSUME Edit PROVE S'
    <3>1. edits' \in 1..MaxEdits /\ source.near \in 1..MaxEdits
      BY <1>1, <2>2, LifecycleAssumption DEF Edit, Sources
    <3>2. PICK v \in Versions, ok \in BOOLEAN, n \in {source.near, edits'} :
             source' = [edit |-> edits', near |-> n, version |-> v, builds |-> ok]
      BY <2>2 DEF Edit
    <3> QED
      BY <3>1, <3>2 DEF Sources
  <2>3. UNCHANGED source \/ source' = Missing => S'
    BY <1>1
  <2> HIDE DEF S
  <2> QED
    BY <2>1, <2>2, <2>3, Zenon
       DEF LifecycleNext, Enable, Disable, Delete, Look, TimerFires, Install, OnDisableSettles,
           OutputRemoved, Compile, LoadBuilt, LoadModule, LoadFails, DisableAll,
           DisableNext, ToolSwitches, Unrecorded, HooksSettle, Removed, Scan, Remember,
           Reboot, lifecycleVars, bounds
<1>6. R'
  <2>1. \A on \in BOOLEAN : Remembered(record, on) \in Records /\ Switched(record, on) \in Records
    <3> SUFFICES ASSUME NEW on \in BOOLEAN
                 PROVE  Remembered(record, on) \in Records /\ Switched(record, on) \in Records
      OBVIOUS
    <3>1. Remembered(record, on) \in Records
      BY <1>1 DEF Remembered, Records
    <3>2. \A q \in Records : [q EXCEPT !.enabled = on] \in Records
      BY DEF Records
    <3>3. CASE record = Missing
      <4>1. Remembered(record, FALSE) \in Records
        BY <3>3 DEF Remembered, Records
      <4> QED
        BY <3>1, <3>2, <3>3, <4>1 DEF Switched, Remembered
    <3>4. CASE record # Missing
      BY <1>1, <3>1, <3>2, <3>4 DEF Switched, Remembered
    <3> QED
      BY <3>1, <3>3, <3>4
  <2>2. ASSUME NEW c \in Calls, HooksSettle(c) PROVE R'
    <3>1. ongoing[c].loaded.version \in Versions
      BY <1>1, <2>2 DEF HooksSettle, Typed, Modules
    <3> DEFINE v == ongoing[c].loaded.version
    <3>2. Installed(record, v) \in Records
      BY <1>1, <3>1 DEF Installed, Records, Missing
    <3>3. \A k \in {record, Installed(record, v)} : Switched(k, TRUE) \in Records
      BY <1>1, <3>1, <3>2, RecordTypes
    <3>4. \E k \in {record, Installed(record, v)} : record' \in {k, Switched(k, TRUE)}
      BY <2>2 DEF HooksSettle
    <3> HIDE DEF v
    <3> QED
      BY <1>1, <3>2, <3>3, <3>4
  <2>3. UNCHANGED record \/ record' = Missing => R'
    BY <1>1
  <2>4. \A on \in BOOLEAN : record' \in {Remembered(record, on), Switched(record, on)} => R'
    BY <2>1
  <2> HIDE DEF R
  <2>5. ASSUME NEW c \in Calls, Enable(c) \/ Disable(c) \/ Moved(c) \/ Remember(c)
                 \/ DisableNext(c)
        PROVE  R'
    BY <2>3, <2>4, <2>5 DEF Enable, Disable, Moved, Remember, DisableNext
  <2>6. ASSUME NEW on \in BOOLEAN, ToolSwitches(on) PROVE R'
    BY <2>4, <2>6 DEF ToolSwitches
  <2> QED
    BY <2>2, <2>3, <2>5, <2>6, Zenon
       DEF LifecycleNext, Delete, Look, TimerFires, Install, OnDisableSettles,
           OutputRemoved, Compile, LoadBuilt, LoadModule, LoadFails, DisableAll, Unrecorded,
           Removed, Scan, Edit,
           Reboot, lifecycleVars, bounds
<1>7. M'
  <2>0. ASSUME NEW c, NEW m \in Modules, Registers(c, m)
        PROVE  required' \in Modules \union {Missing} /\ module' \in Modules \union {Missing}
    BY <1>1, <2>0 DEF Registers
  <2>1. ASSUME NEW c \in Calls, LoadModule(c) PROVE M'
    <3>1. Registers(c, Exports(bundle)) /\ Exports(bundle) \in Modules /\ bundle' = bundle
      BY <2>1, ExportsModule DEF LoadModule
    <3> QED
      BY <1>1, <2>0, <3>1
  <2>5. ASSUME NEW c \in Calls, LoadBuilt(c) PROVE M'
    <3> DEFINE m == ongoing[c].loaded
    <3>1. m \in Modules
      BY <1>1, <2>5 DEF LoadBuilt, Typed
    <3>2. Registers(c, Exports(m)) /\ Exports(m) \in Modules
      BY <2>5, <3>1, ExportsModule DEF LoadBuilt
    <3>3. bundle' = [edit |-> m.edit, version |-> m.version, at |-> edits]
      BY <2>5 DEF LoadBuilt
    <3>4. bundle' \in Bundles
      BY <1>1, <3>1, <3>3 DEF Modules, Bundles
    <3> HIDE DEF m
    <3> QED
      BY <2>0, <3>2, <3>4
  <2>2. ASSUME bundle' \in {bundle, Missing}, required' \in {required, Missing},
               module' \in {module, Missing}
        PROVE  M'
    BY <1>1, <2>2
  <2> HIDE DEF M
  <2>3. ASSUME NEW c \in Calls, OnDisableSettles(c) \/ OutputRemoved(c) \/ LoadFails(c) \/ HooksSettle(c)
                 \/ Removed(c) \/ Moved(c) \/ Scan(c) \/ Remember(c) \/ Reboot(c)
                 \/ Compile(c) \/ DisableNext(c) \/ Unrecorded(c)
        PROVE  M'
    BY <2>2, <2>3 DEF OnDisableSettles, OutputRemoved, LoadFails, HooksSettle, Removed, Moved, Scan,
       Remember, Reboot, Compile, DisableNext, Unrecorded
  <2>4. UNCHANGED <<bundle, required, module>> => M'
    BY <2>2
  <2> QED
    BY <2>1, <2>3, <2>4, <2>5, Zenon
       DEF LifecycleNext, Enable, Disable, Delete, Look, DisableAll, TimerFires, Install, Edit,
           ToolSwitches, lifecycleVars
<1> HIDE DEF S, R, M, E, T
<1>8. S' /\ R' /\ M' /\ E' /\ T' /\ (\A c \in Calls : Typed(ongoing'[c])) => LifeTypes'
  BY Zenon DEF LifeTypes, S, R, M, E, T
<1> QED
  BY <1>2, <1>3, <1>5, <1>6, <1>7, <1>8

(* Types, of a worker's directory, its record and its module.               *)
THEOREM LifecycleTypeCorrect == LifecycleSpec => []LifecycleTypeOK
<1>1. ASSUME LifecycleInit PROVE LifeTypes
  <2>1. timer \in BOOLEAN
    BY <1>1, Zenon DEF LifecycleInit
  <2>2. edits \in 0..MaxEdits
    BY <1>1, LifecycleAssumption DEF LifecycleInit
  <2>3. \A c \in Calls : Typed(ongoing[c])
    BY <1>1 DEF LifecycleInit, Typed, AtRest
  <2> QED
    BY <1>1, <2>1, <2>2, <2>3 DEF LifecycleInit, LifeTypes
<1>2. LifeInv /\ LifeTypes => LifecycleTypeOK
  BY Zenon DEF LifeInv, ShapeInv, LifeTypes, LifecycleTypeOK
<1> QED
  BY <1>1, <1>2, LifeInit, LifeInvStep, LifeTypesStep, PTL DEF LifecycleSpec

-----------------------------------------------------------------------------
(*                    The histories of the chat threads                    *)

IsTurn(v) ==
  /\ v = [at |-> v.at, thread |-> v.thread, prompt |-> v.prompt, live |-> v.live]
  /\ v.thread \in Threads

(* A thread that has a history, in memory or on disk, or is about to get    *)
(* one from a turn, is listed in both.                                      *)
ListHolds(t) ==
  history[t] # <<>> \/ disk.history[t] # <<>> \/ (\E x \in Turns : Open(x, t))
  => t \in listed /\ t \in disk.listed

ChatShape ==
  /\ history = [t \in Threads |-> history[t]]
  /\ disk = [listed |-> disk.listed, history |-> disk.history]
  /\ disk.history = [t \in Threads |-> disk.history[t]]
  /\ turn = [x \in Turns |-> turn[x]]
  /\ \A x \in Turns : IsTurn(turn[x])

ChatInv == ChatShape /\ \A t \in Threads \ strayed : ListHolds(t)

(* A turn that is given its prompt or ends opens none.                      *)
LEMMA TurnMoves ==
  ASSUME ChatInv, NEW x \in Turns, turn[x].at \in {"asked", "answering"}, NEW a, NEW p,
         turn' = [turn EXCEPT ![x].at = a, ![x].prompt = p]
  PROVE  /\ turn' = [y \in Turns |-> turn'[y]]
         /\ \A y \in Turns : IsTurn(turn'[y])
         /\ \A t \in Threads, y \in Turns : Open(y, t)' => Open(y, t)
<1>1. turn'[x] = [at |-> a, thread |-> turn[x].thread, prompt |-> p, live |-> turn[x].live]
  <2>1. /\ x \in DOMAIN turn
        /\ turn[x] = [at |-> turn[x].at, thread |-> turn[x].thread,
                      prompt |-> turn[x].prompt, live |-> turn[x].live]
    BY DEF ChatInv, ChatShape, IsTurn
  <2>2. turn'[x] = [[turn[x] EXCEPT !.at = a] EXCEPT !.prompt = p]
    BY <2>1
  <2> QED
    BY <2>1, <2>2
<1>2. \A y \in Turns \ {x} : turn'[y] = turn[y]
  BY DEF ChatInv, ChatShape
<1> QED
  BY <1>1, <1>2 DEF ChatInv, ChatShape, IsTurn, Open

LEMMA TurnEnds ==
  ASSUME ChatInv, NEW x \in Turns, turn[x].at \in {"asked", "answering"}, NEW a,
         turn' = [turn EXCEPT ![x].at = a]
  PROVE  /\ turn' = [y \in Turns |-> turn'[y]]
         /\ \A y \in Turns : IsTurn(turn'[y])
         /\ \A t \in Threads, y \in Turns : Open(y, t)' => Open(y, t)
<1>1. turn'[x] = [at |-> a, thread |-> turn[x].thread, prompt |-> turn[x].prompt, live |-> turn[x].live]
  BY DEF ChatInv, ChatShape, IsTurn
<1>2. \A y \in Turns \ {x} : turn'[y] = turn[y]
  BY DEF ChatInv, ChatShape
<1> QED
  BY <1>1, <1>2 DEF ChatInv, ChatShape, IsTurn, Open

LEMMA SendKnown == ASSUME ChatInv, NEW x \in Turns, NEW t \in Threads, Send(x, t) PROVE ChatInv'
<1>1. PICK ok \in Writes, told \in Writes :
        /\ disk' = [listed |-> WriteList(ok), history |-> WriteHistory(told)]
        /\ strayed' = IF ok THEN strayed \ {t} ELSE strayed \union {t}
  BY DEF Send
<1>2. /\ listed' = listed \union {t}
      /\ history' = [history EXCEPT ![t] = Append(@, Question(x))]
  BY DEF Send
<1>3. PICK p, l : turn' = [turn EXCEPT ![x] =
        [at |-> "asked", thread |-> t, live |-> l, prompt |-> p]]
  BY DEF Send
<1>4. /\ turn' = [y \in Turns |-> turn'[y]]
      /\ \A y \in Turns : IsTurn(turn'[y])
      /\ \A u \in Threads \ {t}, y \in Turns : Open(y, u)' => Open(y, u)
  BY <1>3 DEF ChatInv, ChatShape, IsTurn, Open
<1>5. ChatShape'
  BY <1>1, <1>2, <1>4 DEF ChatInv, ChatShape, WriteHistory
<1>6. ASSUME NEW u \in Threads \ strayed', u # t PROVE ListHolds(u)'
  BY <1>1, <1>2, <1>4, <1>6 DEF ChatInv, ChatShape, ListHolds, WriteList, WriteHistory
<1>7. t \notin strayed' => ListHolds(t)'
  BY <1>1, <1>2 DEF ListHolds, WriteList
<1> QED
  BY <1>5, <1>6, <1>7 DEF ChatInv

LEMMA EnterKnown == ASSUME ChatInv, NEW x \in Turns, Enter(x) PROVE ChatInv'
<1>1. PICK ok \in Writes : disk' = [disk EXCEPT !.history = WriteHistory(ok)]
  BY DEF Enter
<1> DEFINE t == turn[x].thread
<1>2. /\ history' = [history EXCEPT ![t] = WithReply(x, t)]
      /\ UNCHANGED <<listed, strayed>> /\ Open(x, t) /\ t \in Threads
  BY DEF Enter, Open, ChatInv, ChatShape, IsTurn
<1>3. /\ turn' = [y \in Turns |-> turn'[y]]
      /\ \A y \in Turns : IsTurn(turn'[y])
      /\ \A u \in Threads, y \in Turns : Open(y, u)' => Open(y, u)
  BY TurnEnds DEF Enter
<1>4. ChatShape'
  BY <1>1, <1>2, <1>3 DEF ChatInv, ChatShape, WriteHistory
<1>5. ASSUME NEW u \in Threads \ strayed PROVE ListHolds(u)'
  <2>1. /\ ListHolds(u) /\ disk'.listed = disk.listed
        /\ u # t => history'[u] = history[u]
        /\ disk'.history[u] \in {disk.history[u], history'[u]}
    BY <1>1, <1>2 DEF ChatInv, ChatShape, WriteHistory
  <2> QED
    BY <1>2, <1>3, <2>1 DEF ListHolds
<1> QED
  BY <1>2, <1>4, <1>5 DEF ChatInv

(* A cleared thread may hold on to its turns, no other changes.             *)
LEMMA Clearing ==
  ASSUME ChatInv, NEW t \in Threads, ClearHistory(t)
  PROVE  /\ turn' = [y \in Turns |-> turn'[y]]
         /\ \A y \in Turns : IsTurn(turn'[y])
         /\ \A u \in Threads, y \in Turns : Open(y, u)' <=> Open(y, u)
         /\ history' = [u \in Threads |-> history'[u]]
         /\ history'[t] = <<>> /\ \A u \in Threads \ {t} : history'[u] = history[u]
<1>1. ASSUME NEW y \in Turns
      PROVE  IsTurn(turn'[y]) /\ turn'[y].at = turn[y].at /\ turn'[y].thread = turn[y].thread
  <2>1. \/ turn'[y] = turn[y]
        \/ /\ turn[y].thread = t
           /\ turn'[y] = [at |-> turn[y].at, thread |-> t, live |-> FALSE, prompt |-> history[t]]
    BY DEF ClearHistory, Open
  <2> QED
    BY <2>1 DEF ChatInv, ChatShape, IsTurn
<1> QED
  BY <1>1 DEF ClearHistory, ChatInv, ChatShape, Open

LEMMA AnewKnown == ASSUME ChatInv, NEW t \in Threads, StartAnew(t) PROVE ChatInv'
<1>1. PICK ok \in Writes : disk' = [disk EXCEPT !.history = WriteHistory(ok)]
  BY DEF StartAnew
<1>2. UNCHANGED <<listed, strayed>> /\ ClearHistory(t)
  BY DEF StartAnew
<1>3. ChatShape'
  BY <1>1, <1>2, Clearing DEF ChatInv, ChatShape, WriteHistory
<1>4. ASSUME NEW u \in Threads \ strayed PROVE ListHolds(u)'
  <2>1. /\ ListHolds(u) /\ disk'.listed = disk.listed
        /\ history'[u] \in {history[u], <<>>}
        /\ disk'.history[u] \in {disk.history[u], history'[u]}
    BY <1>1, <1>2, Clearing DEF ChatInv, ChatShape, WriteHistory
  <2> QED
    BY <1>2, Clearing, <2>1 DEF ListHolds
<1> QED
  BY <1>2, <1>3, <1>4 DEF ChatInv

LEMMA DeleteKnown == ASSUME ChatInv, NEW t \in Threads, DeleteThread(t) PROVE ChatInv'
<1>1. PICK ok \in Writes, told \in Writes :
        /\ disk' = [listed |-> WriteList(ok), history |-> WriteHistory(told)]
        /\ strayed' = IF told /\ OpenTurns(t) = {} THEN strayed ELSE strayed \union {t}
  BY DEF DeleteThread
<1>2. listed' = listed \ {t} /\ ClearHistory(t)
  BY DEF DeleteThread
<1>3. ChatShape'
  BY <1>1, <1>2, Clearing DEF ChatInv, ChatShape, WriteHistory
<1>4. ASSUME NEW u \in Threads \ strayed', u # t PROVE ListHolds(u)'
  <2>1. /\ ListHolds(u) /\ (u \in listed' <=> u \in listed)
        /\ u \in disk.listed /\ u \in listed => u \in disk'.listed
        /\ history'[u] = history[u]
        /\ disk'.history[u] \in {disk.history[u], history[u]}
    BY <1>1, <1>2, <1>4, Clearing DEF ChatInv, ChatShape, WriteHistory, WriteList
  <2> QED
    BY <1>2, Clearing, <2>1 DEF ListHolds
<1>5. t \notin strayed' => ListHolds(t)'
  BY <1>1, <1>2, Clearing DEF ListHolds, WriteHistory, OpenTurns
<1> QED
  BY <1>3, <1>4, <1>5 DEF ChatInv

(* What is read from disk is what the next process knows, without turns.    *)
LEMMA RehydratedKnown ==
  ASSUME ChatInv, NEW d, Rehydrated(d), UNCHANGED strayed,
         d = [listed |-> d.listed, history |-> d.history],
         d.history = [t \in Threads |-> d.history[t]],
         \A t \in Threads \ strayed : d.history[t] # <<>> => t \in d.listed
  PROVE  ChatInv'
<1>1. /\ turn' = [y \in Turns |-> turn'[y]]
      /\ \A y \in Turns : IsTurn(turn'[y]) /\ turn'[y].at \notin {"asked", "answering"}
  BY DEF Rehydrated, ChatInv, ChatShape, IsTurn
<1>2. ChatShape'
  BY <1>1 DEF Rehydrated, ChatShape
<1>3. ASSUME NEW t \in Threads \ strayed PROVE ListHolds(t)'
  BY <1>1 DEF Rehydrated, ListHolds, Open
<1> QED
  BY <1>2, <1>3 DEF ChatInv

LEMMA ChatInvStep == ChatInv /\ [ChatNext]_chatVars => ChatInv'
<1> SUFFICES ASSUME ChatInv, [ChatNext]_chatVars PROVE ChatInv'
  OBVIOUS
<1>1. ASSUME NEW x \in Turns, Generate(x) PROVE ChatInv'
  <2>1. UNCHANGED <<listed, history, disk, strayed>>
    BY <1>1 DEF Generate
  <2> QED
    BY <1>1, <2>1, TurnMoves DEF Generate, ChatInv, ChatShape, ListHolds
<1>2. ASSUME NEW x \in Turns, NoAnswer(x) PROVE ChatInv'
  <2>1. UNCHANGED <<listed, history, disk, strayed>>
    BY <1>2 DEF NoAnswer
  <2> QED
    BY <1>2, <2>1, TurnEnds DEF NoAnswer, ChatInv, ChatShape, ListHolds
<1>3. ASSUME NEW t \in Threads, SendDies(t) PROVE ChatInv'
  BY <1>3, RehydratedKnown DEF SendDies, ChatInv, ChatShape, ListHolds
<1>4. ASSUME NEW t \in Threads, DeleteDies(t) PROVE ChatInv'
  <2> DEFINE d == HalfDeleted(t)
  <2>1. /\ d = [listed |-> disk.listed, history |-> [history EXCEPT ![t] = <<>>]]
        /\ d.listed = disk.listed
    BY DEF HalfDeleted, ChatInv, ChatShape
  <2>2. \A u \in Threads \ strayed : d.history[u] # <<>> => u \in d.listed
    BY <2>1 DEF ChatInv, ChatShape, ListHolds
  <2> QED
    BY <1>4, <2>1, <2>2, RehydratedKnown DEF DeleteDies, ChatInv, ChatShape
<1>5. CASE Rehydrate
  BY <1>5, RehydratedKnown DEF Rehydrate, ChatInv, ChatShape, ListHolds
<1>6. CASE UNCHANGED chatVars
  BY <1>6 DEF chatVars, ChatInv, ChatShape, ListHolds, Open
<1> QED
  BY <1>1, <1>2, <1>3, <1>4, <1>5, <1>6, SendKnown, EnterKnown, AnewKnown, DeleteKnown DEF ChatNext

LEMMA ChatStarts == ChatInit => ChatInv
<1> SUFFICES ASSUME ChatInit PROVE ChatInv
  OBVIOUS
<1>1. IsTurn(NoTurn) /\ NoTurn.at = "none"
  BY ChatAssumption DEF NoTurn, IsTurn
<1>2. ChatShape
  BY <1>1 DEF ChatInit, ChatShape
<1> QED
  BY <1>1, <1>2 DEF ChatInit, ChatInv, ListHolds, Open

(* Whatever turns overlap, threads are deleted and processes die, a history *)
(* is that of a listed thread, but for threads deleted under a turn and     *)
(* failed writes: the list is written first on the way in, last on the way  *)
(* out (chat-threads.ts:116).                                               *)
THEOREM NoHistoryIsStranded == ChatSpec => []NothingStranded
<1>1. ChatInv => NothingStranded
  BY DEF ChatInv, ListHolds, NothingStranded
<1> QED
  BY <1>1, ChatStarts, ChatInvStep, PTL DEF ChatSpec
-----------------------------------------------------------------------------
(*                    What a model is given, and what stays                *)

Messages == Turns \X {"user", "assistant"}

Asked(x, h) == \E i \in DOMAIN h : h[i] = Question(x)

Answered(x, h) ==
  \E i, k \in DOMAIN h : i < k /\ h[i] = Question(x) /\ h[k] = Reply(x)

(* A turn under way has its question where its prompt comes from: in the    *)
(* array of the history, as long as it holds that, else in its copy.  What  *)
(* is over and entered is in memory and on disk.                            *)
PromptInv ==
  \A x \in Turns : turn[x].at \in {"asked", "answering"} =>
    /\ turn[x].live => Asked(x, history[turn[x].thread])
    /\ ~turn[x].live \/ turn[x].at = "answering" => Asked(x, turn[x].prompt)

EnteredInv ==
  /\ entered \subseteq Turns
  /\ \A x \in entered :
       /\ turn[x].at = "over"
       /\ Answered(x, history[turn[x].thread])
       /\ Answered(x, disk.history[turn[x].thread])

HistorySeqs ==
  \A t \in Threads : history[t] \in Seq(Messages) /\ disk.history[t] \in Seq(Messages)

WholeInv == ChatInv /\ HistorySeqs /\ PromptInv /\ EnteredInv

(* A message that is appended hides none, and an answer completes its turn. *)
LEMMA Appending ==
  ASSUME NEW h \in Seq(Messages), NEW m \in Messages
  PROVE  /\ Append(h, m) \in Seq(Messages)
         /\ \A y \in Turns :
              /\ Asked(y, h) \/ m = Question(y) => Asked(y, Append(h, m))
              /\ Answered(y, h) => Answered(y, Append(h, m))
              /\ Asked(y, h) /\ m = Reply(y) => Answered(y, Append(h, m))
<1> DEFINE g == Append(h, m)
<1>1. /\ g \in Seq(Messages) /\ DOMAIN h = 1..Len(h) /\ DOMAIN g = 1..(Len(h) + 1)
      /\ Len(h) \in Nat /\ g[Len(h) + 1] = m
      /\ \A i \in 1..Len(h) : g[i] = h[i]
  BY SMT
<1> HIDE DEF g
<1>2. ASSUME NEW y \in Turns, Asked(y, h) PROVE Asked(y, g)
  BY <1>1, <1>2, SMT DEF Asked
<1>3. ASSUME NEW y \in Turns, m = Question(y) PROVE Asked(y, g)
  <2>1. Len(h) + 1 \in DOMAIN g
    BY <1>1, SMT
  <2> QED
    BY <1>1, <1>3, <2>1 DEF Asked
<1>4. ASSUME NEW y \in Turns, Answered(y, h) PROVE Answered(y, g)
  BY <1>1, <1>4, SMT DEF Answered
<1>5. ASSUME NEW y \in Turns, Asked(y, h), m = Reply(y) PROVE Answered(y, g)
  <2>1. PICK i \in DOMAIN h : h[i] = Question(y)
    BY <1>5 DEF Asked
  <2>2. /\ i \in DOMAIN g /\ Len(h) + 1 \in DOMAIN g /\ i < Len(h) + 1
        /\ g[i] = Question(y)
    BY <1>1, <2>1, SMT
  <2> QED
    BY <1>1, <1>5, <2>2 DEF Answered
<1> QED
  BY <1>1, <1>2, <1>3, <1>4, <1>5 DEF g

(* The window holds the question that was just entered.                     *)
LEMMA WindowHasLast ==
  ASSUME NEW h \in Seq(Messages), NEW x \in Turns, ~Fits(Append(h, Question(x)))
  PROVE  Asked(x, LastOf(Append(h, Question(x))))
<1> DEFINE g == Append(h, Question(x))
           n == Len(h) + 1
<1>1. Question(x) \in Messages
  BY DEF Question, Messages
<1>2. g \in Seq(Messages) /\ Len(g) = n /\ n \in Nat /\ g[n] = Question(x)
  BY <1>1, SMT
<1> HIDE DEF g
<1>3. Window \in Nat \ {0} /\ Window < n
  BY <1>2, ChatAssumption, SMT DEF Fits, g
<1>4. LastOf(g) = SubSeq(g, n - Window + 1, n)
  BY <1>2 DEF LastOf
<1>5. /\ Window \in DOMAIN SubSeq(g, n - Window + 1, n)
      /\ SubSeq(g, n - Window + 1, n)[Window] = g[n]
  BY <1>2, <1>3, SMT
<1> QED
  BY <1>2, <1>4, <1>5 DEF Asked, g

(* Where the turns are as they were, or over: a history that only grew, or  *)
(* that of a thread without such turns, keeps what is claimed of them.      *)
LEMMA SendWhole == ASSUME WholeInv, NEW x \in Turns, NEW t \in Threads, Send(x, t) PROVE WholeInv'
<1> DEFINE h == Append(history[t], Question(x))
<1>1. PICK told \in Writes, ok \in Writes :
        disk' = [listed |-> WriteList(ok), history |-> WriteHistory(told)]
  BY DEF Send
<1>2. history' = [history EXCEPT ![t] = h] /\ entered' = entered /\ turn[x].at = "none"
  BY DEF Send
<1>3. /\ h \in Seq(Messages) /\ Asked(x, h)
      /\ \A y \in Turns : /\ Asked(y, history[t]) => Asked(y, h)
                          /\ Answered(y, history[t]) => Answered(y, h)
  BY Appending DEF WholeInv, HistorySeqs, Question, Messages
<1>4. history'[t] = h /\ \A u \in Threads \ {t} : history'[u] = history[u]
  BY <1>2 DEF WholeInv, ChatInv, ChatShape
<1>5. /\ turn'[x] = [at |-> "asked", thread |-> t, live |-> Fits(h),
                     prompt |-> IF Fits(h) THEN <<>> ELSE LastOf(h)]
      /\ \A y \in Turns \ {x} : turn'[y] = turn[y]
  BY <1>4 DEF Send, WholeInv, ChatInv, ChatShape
<1>6. \A u \in Threads : disk'.history[u] \in {disk.history[u], history'[u]}
  BY <1>1 DEF WriteHistory
<1>7. HistorySeqs'
  BY <1>3, <1>4, <1>6 DEF WholeInv, HistorySeqs
<1>8. PromptInv'
  <2>1. ~Fits(h) => Asked(x, LastOf(h))
    BY WindowHasLast DEF WholeInv, HistorySeqs
  <2>2. turn'[x].live => Asked(x, history'[t])
    BY <1>3, <1>4
  <2>3. ~turn'[x].live => Asked(x, turn'[x].prompt)
    BY <1>5, <2>1
  <2>4. ASSUME NEW y \in Turns \ {x} PROVE Asked(y, history[turn[y].thread]) => Asked(y,
                 history'[turn[y].thread])
    BY <1>3, <1>4 DEF WholeInv, ChatInv, ChatShape, IsTurn
  <2> QED
    BY <1>5, <2>2, <2>3, <2>4 DEF WholeInv, PromptInv
<1>9. EnteredInv'
  <2>1. ASSUME NEW y \in entered
        PROVE  /\ turn'[y] = turn[y] /\ turn[y].at = "over" /\ turn[y].thread \in Threads
               /\ Answered(y, history'[turn[y].thread])
    BY <1>2, <1>3, <1>4, <1>5 DEF WholeInv, EnteredInv, ChatInv, ChatShape, IsTurn
  <2>2. ASSUME NEW y \in entered PROVE Answered(y, disk'.history[turn[y].thread])
    <3>1. Answered(y, disk.history[turn[y].thread])
      BY DEF WholeInv, EnteredInv
    <3>2. disk'.history[turn[y].thread] \in {disk.history[turn[y].thread], history'[turn[y].thread]}
      BY <1>6, <2>1
    <3> QED
      BY <2>1, <3>1, <3>2
  <2> QED
    BY <1>2, <2>1, <2>2 DEF WholeInv, EnteredInv
<1> QED
  BY <1>7, <1>8, <1>9, SendKnown DEF WholeInv

LEMMA GenerateWhole ==
  ASSUME WholeInv, ChatInv', NEW x \in Turns, Generate(x) PROVE WholeInv'
<1>1. UNCHANGED <<history, disk, entered>> /\ turn[x].at \in {"asked", "answering"}
  BY DEF Generate
<1>2. /\ turn'[x].thread = turn[x].thread /\ turn'[x].live = turn[x].live
      /\ turn'[x].prompt = IF turn[x].live THEN history[turn[x].thread] ELSE turn[x].prompt
      /\ \A y \in Turns \ {x} : turn'[y] = turn[y]
  <2> DEFINE p == IF turn[x].live THEN history[turn[x].thread] ELSE turn[x].prompt
  <2>1. /\ x \in DOMAIN turn
        /\ turn[x] = [at |-> turn[x].at, thread |-> turn[x].thread,
                      prompt |-> turn[x].prompt, live |-> turn[x].live]
    BY DEF WholeInv, ChatInv, ChatShape, IsTurn
  <2>2. turn'[x] = [[turn[x] EXCEPT !.at = "answering"] EXCEPT !.prompt = p]
    BY <2>1 DEF Generate
  <2>3. \A y \in Turns \ {x} : turn'[y] = turn[y]
    <3> HIDE DEF p
    <3>1. turn' = [turn EXCEPT ![x].at = "answering", ![x].prompt = p]
      BY DEF Generate, p
    <3> QED
      BY <3>1 DEF WholeInv, ChatInv, ChatShape
  <2> QED
    BY <2>1, <2>2, <2>3
<1>3. PromptInv'
  BY <1>1, <1>2 DEF WholeInv, PromptInv
<1>4. EnteredInv'
  BY <1>1, <1>2 DEF WholeInv, EnteredInv
<1> QED
  BY <1>1, <1>3, <1>4 DEF WholeInv, HistorySeqs

LEMMA NoAnswerWhole ==
  ASSUME WholeInv, ChatInv', NEW x \in Turns, NoAnswer(x) PROVE WholeInv'
<1>1. UNCHANGED <<history, disk, entered>> /\ turn[x].at = "answering"
  BY DEF NoAnswer
<1>2. /\ turn'[x].at = "over"
      /\ \A y \in Turns \ {x} : turn'[y] = turn[y]
  BY DEF NoAnswer, WholeInv, ChatInv, ChatShape, IsTurn
<1>3. PromptInv' /\ EnteredInv'
  BY <1>1, <1>2 DEF WholeInv, PromptInv, EnteredInv
<1> QED
  BY <1>1, <1>3 DEF WholeInv, HistorySeqs

LEMMA EnterWhole == ASSUME WholeInv, ChatInv', NEW x \in Turns, Enter(x) PROVE WholeInv'
<1> DEFINE t == turn[x].thread
           h == Append(history[t], Reply(x))
<1>1. PICK ok \in Writes :
        /\ disk' = [disk EXCEPT !.history = WriteHistory(ok)]
        /\ entered' = IF ok /\ \E i \in DOMAIN history[t] : history[t][i] = Question(x)
                      THEN entered \union {x} ELSE entered
  BY DEF Enter
<1>2. history' = [history EXCEPT ![t] = h] /\ turn[x].at = "answering" /\ t \in Threads
  BY DEF Enter, WithReply, WholeInv, ChatInv, ChatShape, IsTurn
<1>3. /\ h \in Seq(Messages)
      /\ Asked(x, history[t]) => Answered(x, h)
      /\ \A y \in Turns : /\ Asked(y, history[t]) => Asked(y, h)
                          /\ Answered(y, history[t]) => Answered(y, h)
  BY <1>2, Appending DEF WholeInv, HistorySeqs, Reply, Messages
<1>4. history'[t] = h /\ \A u \in Threads \ {t} : history'[u] = history[u]
  BY <1>2 DEF WholeInv, ChatInv, ChatShape
<1>5. /\ turn'[x].at = "over" /\ turn'[x].thread = t
      /\ \A y \in Turns \ {x} : turn'[y] = turn[y]
  BY DEF Enter, WholeInv, ChatInv, ChatShape, IsTurn
<1>6. disk'.history = IF ok THEN history' ELSE disk.history
  BY <1>1 DEF WriteHistory, WholeInv, ChatInv, ChatShape
<1>7. HistorySeqs'
  BY <1>3, <1>4, <1>6 DEF WholeInv, HistorySeqs
<1>8. ASSUME NEW y \in Turns
      PROVE  /\ Asked(y, history[turn[y].thread]) => Asked(y, history'[turn[y].thread])
             /\ Answered(y, history[turn[y].thread]) => Answered(y, history'[turn[y].thread])
  BY <1>3, <1>4, ZenonT(30) DEF WholeInv, ChatInv, ChatShape, IsTurn
<1>9. PromptInv'
  BY <1>5, <1>8 DEF WholeInv, PromptInv
<1>10. EnteredInv'
  <2>1. ASSUME NEW y \in entered, y # x
        PROVE  /\ turn'[y] = turn[y] /\ turn[y].at = "over"
               /\ Answered(y, history'[turn[y].thread])
               /\ Answered(y, disk'.history[turn[y].thread])
    BY <1>5, <1>6, <1>8, <2>1 DEF WholeInv, EnteredInv
  <2>2. x \notin entered
    BY <1>2 DEF WholeInv, EnteredInv
  <2>3. x \in entered' => Answered(x, history'[t]) /\ Answered(x, disk'.history[t])
    BY <1>1, <1>3, <1>4, <1>6, <2>2 DEF Asked
  <2>4. entered' \subseteq entered \union {x} /\ entered' \subseteq Turns
    BY <1>1 DEF WholeInv, EnteredInv
  <2> QED
    BY <1>5, <2>1, <2>3, <2>4 DEF EnteredInv
<1> QED
  BY <1>7, <1>9, <1>10 DEF WholeInv

(* Turns of a cleared thread have its history to themselves.                *)
LEMMA ClearingWhole ==
  ASSUME WholeInv, ChatInv', NEW t \in Threads, ClearHistory(t),
         \A u \in Threads : disk'.history[u] \in {disk.history[u], history'[u]}
  PROVE  WholeInv'
<1>1. /\ \A u \in Threads \ {t} : history'[u] = history[u]
      /\ history'[t] = <<>>
  BY Clearing DEF WholeInv
<1>2. HistorySeqs'
  <2>1. <<>> \in Seq(Messages)
    OBVIOUS
  <2> QED
    BY <1>1, <2>1 DEF WholeInv, HistorySeqs
<1>3. ASSUME NEW y \in Turns
      PROVE  \/ turn'[y] = turn[y] /\ ~(Open(y, t) /\ turn[y].live)
             \/ /\ Open(y, t) /\ turn[y].live
                /\ turn'[y] = [at |-> turn[y].at, thread |-> t, live |-> FALSE, prompt |-> history[t]]
  BY DEF ClearHistory
<1>4. PromptInv'
  <2> SUFFICES ASSUME NEW y \in Turns, turn'[y].at \in {"asked", "answering"}
               PROVE  /\ turn'[y].live => Asked(y, history'[turn'[y].thread])
                      /\ ~turn'[y].live \/ turn'[y].at = "answering" => Asked(y, turn'[y].prompt)
    BY DEF PromptInv
  <2>1. CASE turn'[y] = turn[y] /\ ~(Open(y, t) /\ turn[y].live)
    BY <1>1, <2>1 DEF WholeInv, PromptInv, Open, ChatInv, ChatShape, IsTurn
  <2>2. CASE /\ Open(y, t) /\ turn[y].live
             /\ turn'[y] = [at |-> turn[y].at, thread |-> t, live |-> FALSE, prompt |-> history[t]]
    BY <2>2 DEF WholeInv, PromptInv, Open
  <2> QED
    BY <1>3, <2>1, <2>2
<1>5. EnteredInv'
  <2>1. entered' = {y \in entered : turn[y].thread # t}
    BY DEF ClearHistory
  <2>2. ASSUME NEW y \in entered'
        PROVE  /\ y \in Turns /\ turn'[y] = turn[y] /\ turn[y].at = "over"
               /\ turn[y].thread \in Threads \ {t}
    BY <1>3, <2>1 DEF WholeInv, EnteredInv, Open, ChatInv, ChatShape, IsTurn
  <2>3. ASSUME NEW y \in entered'
        PROVE  Answered(y, history'[turn[y].thread]) /\ Answered(y, disk'.history[turn[y].thread])
    <3>1. /\ Answered(y, history[turn[y].thread]) /\ Answered(y, disk.history[turn[y].thread])
          /\ history'[turn[y].thread] = history[turn[y].thread]
      BY <1>1, <2>1, <2>2 DEF WholeInv, EnteredInv
    <3>2. disk'.history[turn[y].thread] \in {disk.history[turn[y].thread], history'[turn[y].thread]}
      BY <2>2
    <3> QED
      BY <3>1, <3>2
  <2> QED
    BY <2>2, <2>3 DEF EnteredInv
<1> QED
  BY <1>2, <1>4, <1>5 DEF WholeInv

(* The next process has no turn under way, and on disk what was entered.    *)
LEMMA RehydratedWhole ==
  ASSUME WholeInv, ChatInv', NEW d, Rehydrated(d), entered' \subseteq entered,
         \A t \in Threads : d.history[t] \in Seq(Messages),
         \A x \in entered' : Answered(x, d.history[turn[x].thread])
  PROVE  WholeInv'
<1>1. /\ disk' = d /\ history' = d.history
      /\ \A x \in Turns : turn'[x] = IF turn[x].at \in {"asked", "answering"}
                                     THEN [turn[x] EXCEPT !.at = "over"] ELSE turn[x]
  BY DEF Rehydrated
<1>2. \A x \in Turns : turn'[x].at \notin {"asked", "answering"}
  BY <1>1 DEF WholeInv, ChatInv, ChatShape, IsTurn
<1>3. \A x \in entered' : x \in Turns /\ turn'[x] = turn[x] /\ turn[x].at = "over"
  BY <1>1 DEF WholeInv, EnteredInv
<1> QED
  BY <1>1, <1>2, <1>3 DEF WholeInv, HistorySeqs, PromptInv, EnteredInv

LEMMA WholeInvStep == WholeInv /\ [ChatNext]_chatVars => WholeInv'
<1> SUFFICES ASSUME WholeInv, [ChatNext]_chatVars PROVE WholeInv'
  OBVIOUS
<1>1. ChatInv'
  BY ChatInvStep DEF WholeInv
<1>2. ASSUME NEW t \in Threads, StartAnew(t) PROVE WholeInv'
  <2>1. PICK ok \in Writes : disk' = [disk EXCEPT !.history = WriteHistory(ok)]
    BY <1>2 DEF StartAnew
  <2>2. \A u \in Threads : disk'.history[u] \in {disk.history[u], history'[u]}
    BY <2>1 DEF WriteHistory, WholeInv, ChatInv, ChatShape
  <2> QED
    BY <1>1, <1>2, <2>2, ClearingWhole DEF StartAnew
<1>3. ASSUME NEW t \in Threads, DeleteThread(t) PROVE WholeInv'
  <2>1. PICK ok \in Writes, told \in Writes :
          disk' = [listed |-> WriteList(ok), history |-> WriteHistory(told)]
    BY <1>3 DEF DeleteThread
  <2>2. \A u \in Threads : disk'.history[u] \in {disk.history[u], history'[u]}
    BY <2>1 DEF WriteHistory
  <2> QED
    BY <1>1, <1>3, <2>2, ClearingWhole DEF DeleteThread
<1>4. CASE Rehydrate
  BY <1>1, <1>4, RehydratedWhole DEF Rehydrate, WholeInv, HistorySeqs, EnteredInv
<1>5. ASSUME NEW t \in Threads, SendDies(t) PROVE WholeInv'
  <2> DEFINE d == [disk EXCEPT !.listed = listed \union {t}]
  <2>1. d.history = disk.history
    BY DEF WholeInv, ChatInv, ChatShape
  <2> QED
    BY <1>1, <1>5, <2>1, RehydratedWhole DEF SendDies, WholeInv, HistorySeqs, EnteredInv
<1>6. ASSUME NEW t \in Threads, DeleteDies(t) PROVE WholeInv'
  <2> DEFINE d == HalfDeleted(t)
  <2>1. /\ d.history[t] = <<>>
        /\ \A u \in Threads \ {t} : d.history[u] = history[u]
    BY DEF HalfDeleted, WholeInv, ChatInv, ChatShape
  <2>2. \A u \in Threads : d.history[u] \in Seq(Messages)
    <3>1. <<>> \in Seq(Messages)
      OBVIOUS
    <3> QED
      BY <2>1, <3>1 DEF WholeInv, HistorySeqs
  <2>3. Rehydrated(d) /\ entered' = {x \in entered : turn[x].thread # t}
    BY <1>6 DEF DeleteDies
  <2>4. \A x \in entered' : Answered(x, d.history[turn[x].thread])
    BY <2>1, <2>3 DEF WholeInv, EnteredInv, ChatInv, ChatShape, IsTurn
  <2> HIDE DEF d
  <2> QED
    BY <1>1, <2>2, <2>3, <2>4, RehydratedWhole
<1>7. CASE UNCHANGED chatVars
  BY <1>1, <1>7 DEF chatVars, WholeInv, HistorySeqs, PromptInv, EnteredInv
<1> QED
  BY <1>1, <1>2, <1>3, <1>4, <1>5, <1>6, <1>7, SendWhole, GenerateWhole, NoAnswerWhole, EnterWhole
     DEF ChatNext

LEMMA WholeInit == ChatInit => WholeInv
<1> SUFFICES ASSUME ChatInit PROVE WholeInv
  OBVIOUS
<1>1. ChatInv
  BY ChatStarts
<1>2. HistorySeqs
  BY DEF ChatInit, HistorySeqs
<1>3. PromptInv /\ EnteredInv
  BY DEF ChatInit, PromptInv, EnteredInv, NoTurn
<1> QED
  BY <1>1, <1>2, <1>3 DEF WholeInv

(* A model is given the question it is to answer, and an answer stays with  *)
(* its question until the thread is cleared, though the array of the        *)
(* history is passed on while other turns, /new and deletions change it     *)
(* (agent.ts:178).                                                          *)
THEOREM TurnsStayWhole == ChatSpec => []TurnsAreWhole
<1>1. WholeInv => TurnsAreWhole
  BY DEF WholeInv, PromptInv, EnteredInv, Asked, Answered, TurnsAreWhole, AskedOfModel, AnswersStay
<1> QED
  BY <1>1, WholeInit, WholeInvStep, PTL DEF ChatSpec

(* Types, of the threads and of the turns.                                  *)
ChatTypes ==
  /\ listed \subseteq Threads /\ disk.listed \subseteq Threads /\ strayed \subseteq Threads
  /\ \A x \in Turns : /\ turn[x].at \in {"none", "asked", "answering", "over"}
                      /\ turn[x].prompt \in Seq(Messages)

LEMMA ChatTypesStep == WholeInv /\ ChatTypes /\ [ChatNext]_chatVars => ChatTypes'
<1> SUFFICES ASSUME WholeInv, ChatTypes, [ChatNext]_chatVars PROVE ChatTypes'
  OBVIOUS
<1> DEFINE L == listed \subseteq Threads /\ disk.listed \subseteq Threads /\ strayed \subseteq Threads
           P(v) == v.at \in {"none", "asked", "answering", "over"} /\ v.prompt \in Seq(Messages)
<1>1. /\ L /\ \A x \in Turns : P(turn[x]) /\ IsTurn(turn[x])
      /\ turn = [x \in Turns |-> turn[x]]
      /\ \A t \in Threads : history[t] \in Seq(Messages)
      /\ history = [t \in Threads |-> history[t]]
      /\ disk = [listed |-> disk.listed, history |-> disk.history]
  BY DEF ChatTypes, WholeInv, ChatInv, ChatShape, HistorySeqs
<1>2. <<>> \in Seq(Messages)
  OBVIOUS
<1>3. L'
  <2>1. ASSUME NEW x \in Turns, NEW t \in Threads, Send(x, t) PROVE L'
    BY <1>1, <2>1 DEF Send, WriteList
  <2>2. ASSUME NEW t \in Threads, DeleteThread(t) PROVE L'
    BY <1>1, <2>2 DEF DeleteThread, WriteList
  <2>3. ASSUME NEW x \in Turns, Generate(x) \/ Enter(x) \/ NoAnswer(x) PROVE L'
    BY <1>1, <2>3 DEF Generate, Enter, NoAnswer
  <2>4. ASSUME NEW t \in Threads, StartAnew(t) \/ SendDies(t) \/ DeleteDies(t) PROVE L'
    BY <1>1, <2>4 DEF StartAnew, SendDies, DeleteDies, Rehydrated, HalfDeleted
  <2>5. CASE Rehydrate \/ UNCHANGED chatVars
    BY <1>1, <2>5 DEF Rehydrate, Rehydrated, chatVars
  <2> HIDE DEF L
  <2> QED
    BY <2>1, <2>2, <2>3, <2>4, <2>5 DEF ChatNext
<1>4. \A x \in Turns : P(turn'[x])
  <2> DEFINE G == \A x \in Turns : P(turn'[x])
  <2>1. ASSUME NEW x \in Turns, NEW v, P(v), turn' = [turn EXCEPT ![x] = v] PROVE G
    BY <1>1, <2>1
  <2>2. ASSUME NEW x \in Turns, NEW t \in Threads, Send(x, t) PROVE G
    <3> DEFINE h == Append(history[t], Question(x))
    <3>1. h \in Seq(Messages)
      BY <1>1, Appending DEF Question, Messages
    <3>2. history'[t] = h
      BY <1>1, <2>2 DEF Send
    <3>3. ~Fits(h) => LastOf(h) \in Seq(Messages)
      <4> SUFFICES ASSUME ~Fits(h) PROVE LastOf(h) \in Seq(Messages)
        OBVIOUS
      <4> HIDE DEF h
      <4>1. Len(h) \in Nat /\ Window \in Nat /\ Len(h) > Window
        BY <3>1, ChatAssumption DEF Fits
      <4>2. \A i \in (Len(h) - Window + 1)..Len(h) : i \in 1..Len(h)
        BY <4>1
      <4> QED
        BY <3>1, <4>1, <4>2 DEF LastOf
    <3> DEFINE v == [at |-> "asked", thread |-> t, live |-> Fits(h),
                     prompt |-> IF Fits(h) THEN <<>> ELSE LastOf(h)]
    <3> HIDE DEF h
    <3>4. turn' = [turn EXCEPT ![x] =
            [at |-> "asked", thread |-> t, live |-> Fits(history'[t]),
             prompt |-> IF Fits(history'[t]) THEN <<>> ELSE LastOf(history'[t])]]
      BY <2>2 DEF Send
    <3>5. turn' = [turn EXCEPT ![x] = v]
      BY <3>2, <3>4, Zenon
    <3>6. P(v)
      BY <1>2, <3>3
    <3> HIDE DEF v, P
    <3> QED
      BY <2>1, <3>5, <3>6
  <2>3. ASSUME NEW x \in Turns, Generate(x) PROVE G
    <3> DEFINE p == IF turn[x].live THEN history[turn[x].thread] ELSE turn[x].prompt
               v == [at |-> "answering", thread |-> turn[x].thread, prompt |-> p,
                     live |-> turn[x].live]
    <3>1. p \in Seq(Messages)
      BY <1>1 DEF IsTurn
    <3>2. turn' = [turn EXCEPT ![x].at = "answering", ![x].prompt = p]
      BY <2>3 DEF Generate
    <3> HIDE DEF p
    <3>3. /\ x \in DOMAIN turn
          /\ turn[x] = [at |-> turn[x].at, thread |-> turn[x].thread,
                        prompt |-> turn[x].prompt, live |-> turn[x].live]
      BY <1>1 DEF IsTurn
    <3>4. turn'[x] = [[turn[x] EXCEPT !.at = "answering"] EXCEPT !.prompt = p]
      BY <3>2, <3>3
    <3>5. turn'[x] = v
      BY <3>3, <3>4
    <3>6. P(turn'[x])
      BY <3>1, <3>5
    <3>7. \A y \in Turns \ {x} : turn'[y] = turn[y]
      BY <1>1, <3>2
    <3> HIDE DEF v, P
    <3> QED
      BY <1>1, <3>6, <3>7
  <2>4. ASSUME NEW x \in Turns, Enter(x) \/ NoAnswer(x) PROVE G
    <3>1. turn' = [turn EXCEPT ![x].at = "over"]
      BY <2>4 DEF Enter, NoAnswer
    <3> QED
      BY <1>1, <3>1 DEF IsTurn
  <2>5. ASSUME NEW t \in Threads, ClearHistory(t) PROVE G
    BY <1>1, <2>5 DEF ClearHistory
  <2>6. ASSUME NEW d, Rehydrated(d) PROVE G
    BY <1>1, <2>6 DEF Rehydrated, IsTurn
  <2>7. UNCHANGED turn => G
    BY <1>1
  <2> HIDE DEF G
  <2>8. G
    BY <2>2, <2>3, <2>4, <2>5, <2>6, <2>7
       DEF ChatNext, StartAnew, DeleteThread, SendDies, DeleteDies, Rehydrate, chatVars
  <2> QED
    BY <2>8 DEF G
<1> QED
  BY <1>3, <1>4 DEF ChatTypes

(* Histories and prompts are sequences of messages of turns, of threads     *)
(* that are there.                                                          *)
THEOREM ChatTypeCorrect == ChatSpec => []ChatTypeOK
<1>1. ChatInit => ChatTypes
  <2>1. <<>> \in Seq(Messages)
    OBVIOUS
  <2>2. NoTurn.at = "none" /\ NoTurn.prompt = <<>>
    BY DEF NoTurn
  <2> SUFFICES ASSUME ChatInit PROVE ChatTypes
    OBVIOUS
  <2>3. listed = {} /\ strayed = {} /\ disk.listed = {}
    BY DEF ChatInit
  <2>4. \A x \in Turns : turn[x] = NoTurn
    BY DEF ChatInit
  <2> QED
    BY <2>1, <2>2, <2>3, <2>4 DEF ChatTypes
<1>2. WholeInv /\ ChatTypes => ChatTypeOK
  <2>1. Turns \X {"user", "assistant"} = Messages
    BY DEF Messages
  <2> QED
    BY <2>1, Zenon DEF WholeInv, ChatInv, ChatShape, IsTurn, HistorySeqs, EnteredInv, ChatTypes, ChatTypeOK
<1> QED
  BY <1>1, <1>2, WholeInit, WholeInvStep, ChatTypesStep, PTL DEF ChatSpec
=============================================================================

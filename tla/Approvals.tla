------------------------------ MODULE Approvals ------------------------------
(***************************************************************************)
(* The permissioned actions of workers: a primitive checks the worker's    *)
(* scopes, files a request, waits until the operator decides or a deadline *)
(* passes, acts, and records the outcome in the row of the request and in  *)
(* the event log.  The operator's route writes the same row.  A step is    *)
(* what happens between two awaits.                                        *)
(***************************************************************************)
EXTENDS Naturals, Sequences

CONSTANTS
  Requests,      \* calls of the primitives
  Kind,          \* "read", "write", "unchanged" (a write of what is there) or "shell"
  WorkerOf,      \* the worker that makes each
  Restricted,    \* the workers with permissions in their manifest
  Grants,        \* the permissions of each of these
  ActionFaults   \* "io": reading or writing the file fails, or the command exits with an error,
                 \* "spawn": the command cannot be started,
                 \* "store": an outcome or an event cannot be written to the database,
                 \* "crash": the process may be killed

ASSUME KindAssumption == Kind \in [Requests -> {"read", "write", "unchanged", "shell"}]
ASSUME ActionFaultsAssumption == ActionFaults \subseteq {"io", "spawn", "store", "crash"}

VARIABLES
  row,       \* state of the request's row in action_requests; "none": no row
  stage,     \* where the primitive is
  decision,  \* what the operator decided
  effect,    \* of the action: "none", "begun" or "done"
  audit,     \* events the primitive recorded: "requested", "outcome"
  spoilt,    \* history: requests of which something could not be stored, or the
             \* command not started
  unlisted,  \* restricted workers whose module the registry does not have
  unchecked  \* history: requests made while the registry did not have their worker

registryVars == <<unlisted, unchecked>>
actionVars == <<row, stage, decision, effect, audit, spoilt, registryVars>>

Ended == {"denied",  \* threw PermissionDeniedError
          "threw",   \* threw before it recorded an outcome
          "done",    \* recorded its outcome
          "lost"}    \* was under way when the process was killed
Stages == {"idle", "filed", "waiting", "perform", "running", "recordOk", "recordFailed",
           "recorded"} \union Ended

Gated(r) == Kind[r] \in {"write", "shell"}

ApprovalInit ==
  /\ row = [r \in Requests |-> "none"]
  /\ stage = [r \in Requests |-> "idle"]
  /\ decision = [r \in Requests |-> "none"]
  /\ effect = [r \in Requests |-> "none"]
  /\ audit = [r \in Requests |-> {}]
  /\ spoilt = {} /\ unlisted = {} /\ unchecked = {}

Goto(r, s) == stage' = [stage EXCEPT ![r] = s]
SetRow(r, s) == row' = [row EXCEPT ![r] = s]

(* recordEventSafe: an event that cannot be written is given up.            *)
LogEvent(r, e) ==
  \/ audit' = [audit EXCEPT ![r] = @ \union {e}] /\ UNCHANGED spoilt
  \/ "store" \in ActionFaults /\ spoilt' = spoilt \union {r} /\ UNCHANGED audit

-----------------------------------------------------------------------------
(* assertPermission *)
Scope(r) == CASE Kind[r] = "read" -> <<"file", "read", r>>
              [] Kind[r] = "shell" -> <<"shell", r>>
              [] OTHER -> <<"file", "write", r>>

InScope(r) ==
  WorkerOf[r] \in Restricted =>
    LET granted == Grants[WorkerOf[r]]
    IN Scope(r) \in granted \/ <<Scope(r)[1], Scope(r)[2], "*">> \in granted

(* The manifest is looked up in the registry when the request is made: a    *)
(* worker that is not there is unrestricted.                                *)
Allowed(r) == WorkerOf[r] \in unlisted \/ InScope(r)

Deny(r) ==
  /\ stage[r] = "idle" /\ ~Allowed(r)
  /\ Goto(r, "denied")
  /\ UNCHANGED <<row, decision, effect, audit, spoilt, registryVars>>

(* createActionRequest: what does not need an approval has it.              *)
Request(r) ==
  /\ stage[r] = "idle" /\ Allowed(r)
  /\ SetRow(r, IF Gated(r) THEN "pending" ELSE "approved")
  /\ Goto(r, CASE Gated(r) -> "filed"
               [] Kind[r] = "read" -> "perform"
               [] Kind[r] = "unchanged" -> "recordOk")
  /\ unchecked' = IF WorkerOf[r] \in unlisted THEN unchecked \union {r} ELSE unchecked
  /\ UNCHANGED <<decision, effect, audit, spoilt, unlisted>>

(* A worker is disabled, reloaded or deleted while a run of it is under     *)
(* way: its module leaves the registry ...                                  *)
Unlist(w) ==
  /\ w \notin unlisted
  /\ unlisted' = unlisted \union {w}
  /\ UNCHANGED <<row, stage, decision, effect, audit, spoilt, unchecked>>

(* ... and comes back when it is loaded or restored.                        *)
Relist(w) ==
  /\ unlisted' = unlisted \ {w}
  /\ UNCHANGED <<row, stage, decision, effect, audit, spoilt, unchecked>>

Announce(r) ==
  /\ stage[r] = "filed"
  /\ LogEvent(r, "requested")
  /\ Goto(r, "waiting")
  /\ UNCHANGED <<row, decision, effect, registryVars>>

-----------------------------------------------------------------------------
(* approveActionRequest and rejectActionRequest, from the dashboard.        *)

Decide(r, verdict) ==
  /\ row[r] = "pending"
  /\ SetRow(r, verdict)
  /\ decision' = [decision EXCEPT ![r] = verdict]
  /\ UNCHANGED <<stage, effect, audit, spoilt, registryVars>>

(* waitForDecision reads the row once in a while ...                        *)
\* whoever decided, the wait is over
Bug_SeeDecisionAny(r) ==
  /\ stage[r] = "waiting" /\ row[r] \in {"approved", "rejected"}
  /\ Goto(r, "perform")
  /\ UNCHANGED <<row, decision, effect, audit, spoilt, registryVars>>

SeeDecision(r) ==
  /\ stage[r] = "waiting" /\ row[r] \in {"approved", "rejected"}
  /\ Goto(r, IF row[r] = "approved" THEN "perform" ELSE "recordFailed")
  /\ UNCHANGED <<row, decision, effect, audit, spoilt, registryVars>>

(* ... and does not look again once the deadline has passed.                *)
TimeOut(r) ==
  /\ stage[r] = "waiting"
  /\ Goto(r, "recordFailed")
  /\ UNCHANGED <<row, decision, effect, audit, spoilt, registryVars>>

-----------------------------------------------------------------------------
Begin(r) ==
  /\ stage[r] = "perform"
  /\ Goto(r, "running")
  /\ effect' = [effect EXCEPT ![r] = "begun"]
  /\ UNCHANGED <<row, decision, audit, spoilt, registryVars>>

Succeed(r) ==
  /\ stage[r] = "running"
  /\ effect' = [effect EXCEPT ![r] = "done"]
  /\ Goto(r, "recordOk")
  /\ UNCHANGED <<row, decision, audit, spoilt, registryVars>>

(* A read that fails throws at once; a write and a command that ends with   *)
(* an error are recorded as failed.                                         *)
Fail(r) ==
  /\ stage[r] = "running" /\ "io" \in ActionFaults
  /\ Goto(r, IF Kind[r] = "read" THEN "threw" ELSE "recordFailed")
  /\ UNCHANGED <<row, decision, effect, audit, spoilt, registryVars>>

(* child.on('error', reject)                                                *)
SpawnFails(r) ==
  /\ stage[r] = "running" /\ Kind[r] = "shell" /\ "spawn" \in ActionFaults
  /\ Goto(r, "threw")
  /\ spoilt' = spoilt \union {r}
  /\ UNCHANGED <<row, decision, effect, audit, registryVars>>

Outcome(r) == IF stage[r] = "recordOk" THEN "executed" ELSE "failed"

(* markActionExecuted, whatever the row says by now ...                     *)
RecordOutcome(r) ==
  /\ stage[r] \in {"recordOk", "recordFailed"}
  /\ SetRow(r, Outcome(r))
  /\ Goto(r, IF Kind[r] = "unchanged" THEN "done" ELSE "recorded")
  /\ UNCHANGED <<decision, effect, audit, spoilt, registryVars>>

\* the event is left to the operator's route when nothing was executed
Bug_LogOutcomeExecuted(r) ==
  /\ stage[r] = "recorded"
  /\ IF row[r] = "executed" THEN LogEvent(r, "outcome") ELSE UNCHANGED <<audit, spoilt>>
  /\ Goto(r, "done")
  /\ UNCHANGED <<row, decision, effect, registryVars>>

(* ... and the event.                                                       *)
LogOutcome(r) ==
  /\ stage[r] = "recorded"
  /\ LogEvent(r, "outcome")
  /\ Goto(r, "done")
  /\ UNCHANGED <<row, decision, effect, registryVars>>

(* markActionExecuted throws: after a write this counts as its failure.     *)
RecordThrows(r) ==
  /\ "store" \in ActionFaults /\ stage[r] \in {"recordOk", "recordFailed"}
  /\ Goto(r, IF Kind[r] = "write" /\ stage[r] = "recordOk" THEN "recordFailed" ELSE "threw")
  /\ spoilt' = spoilt \union {r}
  /\ UNCHANGED <<row, decision, effect, audit, registryVars>>

(* The process is killed.  The rows stay, and stay listed when pending.     *)
Restart ==
  /\ "crash" \in ActionFaults
  /\ \E r \in Requests : stage[r] \notin {"idle"} \union Ended
  /\ stage' = [r \in Requests |-> IF stage[r] \in {"idle"} \union Ended THEN stage[r] ELSE "lost"]
  /\ UNCHANGED <<row, decision, effect, audit, spoilt, registryVars>>

-----------------------------------------------------------------------------
(* What a primitive does by itself.                                         *)
Advance(r) ==
  \/ Announce(r) \/ SeeDecision(r) \/ TimeOut(r)
  \/ Begin(r) \/ Succeed(r) \/ Fail(r) \/ SpawnFails(r)
  \/ RecordOutcome(r) \/ RecordThrows(r) \/ LogOutcome(r)

ApprovalNext ==
  \/ \E r \in Requests :
       \/ Deny(r) \/ Request(r) \/ Advance(r)
       \/ \E verdict \in {"approved", "rejected"} : Decide(r, verdict)
  \/ \E w \in Restricted : Unlist(w)
  \/ \E w \in unlisted : Relist(w)
  \/ Restart

ApprovalSpec == ApprovalInit /\ [][ApprovalNext]_actionVars

-----------------------------------------------------------------------------
RowStates == {"none", "pending", "approved", "rejected", "executed", "failed"}

(* Types; what was denied is not filed.                                     *)
ApprovalTypeOK ==
  /\ unlisted \subseteq Restricted /\ unchecked \subseteq Requests
  /\ row \in [Requests -> RowStates]
  /\ stage \in [Requests -> Stages]
  /\ decision \in [Requests -> {"none", "approved", "rejected"}]
  /\ effect \in [Requests -> {"none", "begun", "done"}]
  /\ \A r \in Requests : row[r] = "none" <=> stage[r] \in {"idle", "denied"}
  /\ audit \in [Requests -> SUBSET {"requested", "outcome"}]
  /\ spoilt \subseteq Requests

(* "File writes and shell commands a worker requests are approval-gated":   *)
(* none is begun that the operator did not approve; and no action is begun  *)
(* that the worker's scopes do not cover, unless the registry did not have  *)
(* the worker when it was asked for.                                        *)
NeverUnapproved ==
  \A r \in Requests : effect[r] # "none" =>
    (InScope(r) \/ r \in unchecked) /\ (Gated(r) => decision[r] = "approved")

(* A row that says executed is right, and so is one that says failed,       *)
(* unless an outcome could not be stored at first.                          *)
TruthfulRow ==
  \A r \in Requests :
    /\ row[r] = "executed" /\ Kind[r] # "unchanged" => effect[r] = "done"
    /\ row[r] = "failed" /\ r \notin spoilt => effect[r] # "done"

(* An operator's decision stands until the outcome replaces it, and the     *)
(* outcome is final: approving what is over brings nothing back.            *)
DecisionsStand ==
  [][\A r \in Requests :
       /\ row[r] = "approved" => row'[r] \in {"approved", "executed", "failed"}
       /\ row[r] = "rejected" => row'[r] \in {"rejected", "failed"}
       /\ row[r] \in {"executed", "failed"} => row'[r] = row[r]]_actionVars

(* "Every request and its outcome are audited via the existing event log":  *)
(* a write or a command that has come to its end left its outcome in the    *)
(* row and both events in the log, unless the database refused one or the   *)
(* command could not be started.                                            *)
OutcomeAudited ==
  \A r \in Requests \ spoilt : Gated(r) /\ stage[r] \in {"done", "threw"} =>
    row[r] \in {"executed", "failed"} /\ audit[r] = {"requested", "outcome"}

(* What the operator reads about an action, in its row and in the log, is   *)
(* what happened.                                                           *)
RecordsTrue == TruthfulRow /\ OutcomeAudited
=============================================================================

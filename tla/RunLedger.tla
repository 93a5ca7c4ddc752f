------------------------------ MODULE RunLedger ------------------------------
(***************************************************************************)
(* The list of runs that the dashboard shows: one JSON document under the  *)
(* key scheduler.runs.  Runs note their start, attempts and end in it, the *)
(* scheduler the slots that a job missed, one entry a job, and the         *)
(* operator dismisses those or recovers all of them.  Each operation loads *)
(* the document, then saves it; a chain of promises keeps them apart.      *)
(***************************************************************************)
EXTENDS Naturals, Sequences, FiniteSets

CONSTANTS
  Jobs,
  Retained,      \* RUN_RETENTION: how many records are saved
  MaxTime,       \* bound: runs started and slots missed, each at its own time
  MaxCalls,      \* bound: operations of the store waiting at a time
  LedgerFaults   \* "crash": the process is killed; "io": an operation fails

ASSUME LedgerAssumption ==
  Retained \in Nat \ {0} /\ MaxTime \in Nat /\ MaxCalls \in Nat /\ LedgerFaults \subseteq {"crash", "io"}

VARIABLES
  time,      \* the last time used
  backend,   \* of the process: "down", "starting" or "up"
  calls,     \* runStoreOperations, each call with the document it loaded
  ledger,    \* the records saved
  runs,      \* what each job's run is doing, and the id of its record
  late,      \* slots that passed without a run, not reported yet
  skips,     \* records opened for skipped slots, not asked to be closed yet
  recovery,  \* POST /api/scheduler-runs/recover
  dismissed, \* history: entries that the operator dismissed
  troubled   \* history: an operation of the store failed

ledgerVars == <<time, backend, calls, ledger, runs, late, skips, recovery, dismissed, troubled>>

Unread == {[id |-> 0, job |-> "none", status |-> "none", at |-> 0]}
Resting == [doing |-> "none", id |-> 0]
Closed == [step |-> "idle", jobs |-> {}, queued |-> {}]

LedgerInit ==
  /\ time = 0 /\ backend = "down" /\ calls = <<>> /\ ledger = {}
  /\ runs = [j \in Jobs |-> Resting] /\ late = {} /\ skips = {}
  /\ recovery = Closed /\ dismissed = {} /\ troubled = FALSE

Ids(records) == {r.id : r \in records}
IsMissed(r) == r.status = "missed"     \* isRecoverableMissedRun

(* saveRuns keeps the newest records.                                       *)
Newest(records) ==
  {r \in records : Cardinality({s \in records : s.at > r.at}) < Retained}

(* recordMissedScheduledRun: one entry a job; a second miss moves it.       *)
Collapse(call, records) ==
  LET mine == {r \in records : IsMissed(r) /\ r.job = call.job}
      head == CHOOSE r \in mine : \A s \in mine : s.at <= r.at
  IN IF mine = {}
     THEN records \cup {[id |-> call.id, job |-> call.job, status |-> "missed", at |-> call.id]}
     ELSE (records \ mine) \cup {[head EXCEPT !.at = IF call.id > @ THEN call.id ELSE @]}

\* the missed entries of every job are cleared
Bug_Cleared(call, records) == {r \in records : ~ IsMissed(r)}

(* dismissSkippedScheduledRunsForJobs.                                      *)
Cleared(call, records) == {r \in records : ~ (IsMissed(r) /\ r.job \in call.jobs)}

\* only the latest record is looked at
Bug_Abandoned(records) ==
  {IF r.status = "running" /\ \A s \in records : s.at <= r.at
   THEN [r EXCEPT !.status = "abandoned"] ELSE r : r \in records}

(* abandonRunningSchedulerRuns.                                             *)
Abandoned(records) ==
  {IF r.status = "running" THEN [r EXCEPT !.status = "abandoned"] ELSE r : r \in records}

(* What a call makes of the records that it loaded.                         *)
Rewritten(call, records) ==
  CASE call.op \in {"start", "skip"} -> records \cup
         {[id |-> call.id, job |-> call.job, status |-> "running", at |-> call.id]}
    [] call.op \in {"finish", "close"} ->
         {IF r.id = call.id THEN [r EXCEPT !.status = "ended"] ELSE r : r \in records}
    [] call.op = "miss" -> Collapse(call, records)
    [] call.op = "dismiss" -> {r \in records : ~ (IsMissed(r) /\ r.id = call.id)}
    [] call.op = "clear" -> Cleared(call, records)
    [] call.op = "abandon" -> Abandoned(records)
    [] OTHER -> records

Append1(op, id, job, jobs) ==
  /\ Len(calls) < MaxCalls
  /\ calls' = Append(calls, [op |-> op, id |-> id, job |-> job, jobs |-> jobs, read |-> Unread])

Does(j, doing) == runs' = [runs EXCEPT ![j].doing = doing]

-----------------------------------------------------------------------------
\* operations do not wait for one another
Bug_ReadAnyCall(i) ==
  /\ i \in DOMAIN calls /\ calls[i].read = Unread
  /\ calls' = [calls EXCEPT ![i].read = ledger]
  /\ UNCHANGED <<time, backend, ledger, runs, late, skips, recovery, dismissed, troubled>>

(* The store: the operation at the head of the chain loads the document ... *)
ReadCall(i) ==
  /\ i \in DOMAIN calls /\ i = 1 /\ calls[i].read = Unread
  /\ calls' = [calls EXCEPT ![i].read = ledger]
  /\ UNCHANGED <<time, backend, ledger, runs, late, skips, recovery, dismissed, troubled>>

(* What the caller does with the answer of its call.                        *)
Answer(call, ok) ==
  CASE call.op = "start" ->
         /\ runs' = [runs EXCEPT ![call.job] =
                       [doing |-> "working", id |-> IF ok THEN call.id ELSE 0]]
         /\ UNCHANGED <<backend, recovery>>
    [] call.op = "attempt" -> Does(call.job, "working") /\ UNCHANGED <<backend, recovery>>
    [] call.op = "finish" ->
         runs' = [runs EXCEPT ![call.job] = Resting] /\ UNCHANGED <<backend, recovery>>
    [] call.op = "list" ->
         /\ recovery' = IF ok THEN [step |-> "triggering", queued |-> {},
                                    jobs |-> {r.job : r \in {s \in call.read : IsMissed(s)}}]
                              ELSE Closed
         /\ UNCHANGED <<backend, runs>>
    [] call.op = "clear" -> recovery' = Closed /\ UNCHANGED <<backend, runs>>
    [] call.op = "abandon" -> backend' = "up" /\ UNCHANGED <<runs, recovery>>
    [] OTHER -> UNCHANGED <<backend, runs, recovery>>

(* ... and saves what it makes of it; the next one follows.                 *)
SaveCall ==
  /\ calls # <<>> /\ calls[1].read # Unread
  /\ calls' = Tail(calls)
  /\ ledger' = Newest(Rewritten(calls[1], calls[1].read))
  /\ dismissed' = IF calls[1].op = "dismiss"
                  THEN dismissed \cup (Ids(calls[1].read) \ Ids(Rewritten(calls[1], calls[1].read)))
                  ELSE dismissed
  /\ skips' = IF calls[1].op = "skip" THEN skips \cup {calls[1].id} ELSE skips
  /\ Answer(calls[1], TRUE)
  /\ UNCHANGED <<time, late, troubled>>

(* An operation that throws does not hold the chain up.                     *)
CallFails ==
  /\ "io" \in LedgerFaults /\ calls # <<>>
  /\ calls' = Tail(calls)
  /\ Answer(calls[1], FALSE)
  /\ troubled' = TRUE
  /\ UNCHANGED <<time, ledger, late, skips, dismissed>>

-----------------------------------------------------------------------------
(* A run of a job is triggered, opens its record and works ...              *)
Trigger(j) ==
  /\ backend = "up" /\ runs[j] = Resting
  /\ Does(j, "queued")
  /\ UNCHANGED <<time, backend, calls, ledger, late, skips, recovery, dismissed, troubled>>

OpenRecord(j) ==
  /\ runs[j].doing = "queued" /\ time < MaxTime
  /\ time' = time + 1
  /\ Append1("start", time + 1, j, {})
  /\ Does(j, "opening")
  /\ UNCHANGED <<backend, ledger, late, skips, recovery, dismissed, troubled>>

(* ... notes the attempts that it is to retry ...                           *)
NoteAttempt(j) ==
  /\ runs[j].doing = "working" /\ runs[j].id # 0
  /\ Append1("attempt", runs[j].id, j, {})
  /\ Does(j, "noting")
  /\ UNCHANGED <<time, backend, ledger, late, skips, recovery, dismissed, troubled>>

(* ... and its end.                                                         *)
End(j) ==
  /\ runs[j].doing = "working"
  /\ \/ /\ runs[j].id # 0
        /\ Append1("finish", runs[j].id, j, {})
        /\ Does(j, "closing")
     \/ /\ runs[j].id = 0
        /\ runs' = [runs EXCEPT ![j] = Resting]
        /\ UNCHANGED calls
  /\ UNCHANGED <<time, backend, ledger, late, skips, recovery, dismissed, troubled>>

(* A slot of the job passes without a run ...                               *)
PassSlot(j) ==
  /\ time < MaxTime
  /\ time' = time + 1
  /\ late' = late \cup {[job |-> j, at |-> time + 1]}
  /\ UNCHANGED <<backend, calls, ledger, runs, skips, recovery, dismissed, troubled>>

(* ... and is reported as missed, not always the oldest first ...           *)
ReportMiss ==
  /\ backend = "up"
  /\ \E slot \in late :
       /\ late' = late \ {slot}
       /\ Append1("miss", slot.at, slot.job, {})
  /\ UNCHANGED <<time, backend, ledger, runs, skips, recovery, dismissed, troubled>>

(* ... or was skipped: its job was busy, or had no work, or still ran when  *)
(* the slot was found missed.  A record is opened that says "running" ...   *)
SkipSlot ==
  /\ backend = "up"
  /\ \E slot \in late :
       /\ late' = late \ {slot}
       /\ Append1("skip", slot.at, slot.job, {})
  /\ UNCHANGED <<time, backend, ledger, runs, skips, recovery, dismissed, troubled>>

(* ... and then closed, by another operation.                               *)
CloseSkip(n) ==
  /\ skips' = skips \ {n}
  /\ Append1("close", n, "none", {})
  /\ UNCHANGED <<time, backend, ledger, runs, late, recovery, dismissed, troubled>>

-----------------------------------------------------------------------------
(* The operator removes an entry that the dashboard shows.                  *)
Dismiss ==
  /\ backend = "up"
  /\ \E r \in ledger : IsMissed(r) /\ Append1("dismiss", r.id, r.job, {})
  /\ UNCHANGED <<time, backend, ledger, runs, late, skips, recovery, dismissed, troubled>>

(* The operator recovers: the entries are listed ...                        *)
Recover ==
  /\ backend = "up" /\ recovery = Closed
  /\ Append1("list", 0, "none", {})
  /\ recovery' = [Closed EXCEPT !.step = "listing"]
  /\ UNCHANGED <<time, backend, ledger, runs, late, skips, dismissed, troubled>>

(* ... each job is triggered, unless it is busy or its worker disabled ...  *)
RecoverJob(j) ==
  /\ recovery.step = "triggering" /\ j \in recovery.jobs
  /\ \/ /\ runs[j] = Resting
        /\ Does(j, "queued")
        /\ recovery' = [recovery EXCEPT !.jobs = @ \ {j}, !.queued = @ \cup {j}]
     \/ recovery' = [recovery EXCEPT !.jobs = @ \ {j}] /\ UNCHANGED runs
  /\ UNCHANGED <<time, backend, calls, ledger, late, skips, dismissed, troubled>>

(* ... and the entries of those that were queued are cleared.               *)
RecoverClears ==
  /\ recovery.step = "triggering" /\ recovery.jobs = {}
  /\ \/ /\ recovery.queued # {}
        /\ Append1("clear", 0, "none", recovery.queued)
        /\ recovery' = [recovery EXCEPT !.step = "clearing"]
     \/ recovery.queued = {} /\ recovery' = Closed /\ UNCHANGED calls
  /\ UNCHANGED <<time, backend, ledger, runs, late, skips, dismissed, troubled>>

-----------------------------------------------------------------------------
(* startScheduler reconciles the runs that the last process left, before    *)
(* anything can start a run: between the moment the admin server listens    *)
(* and this call the process does not go back to its event loop.            *)
Reconcile ==
  /\ backend = "down"
  /\ Append1("abandon", 0, "none", {})
  /\ backend' = "starting"
  /\ UNCHANGED <<time, ledger, runs, late, skips, recovery, dismissed, troubled>>

Killed ==
  /\ "crash" \in LedgerFaults /\ backend # "down"
  /\ backend' = "down" /\ calls' = <<>> /\ recovery' = Closed
  /\ runs' = [j \in Jobs |-> Resting]
  /\ skips' = {}
  /\ UNCHANGED <<time, ledger, late, dismissed, troubled>>

LedgerNext ==
  \/ \E i \in 1..MaxCalls : ReadCall(i)
  \/ SaveCall \/ CallFails
  \/ \E j \in Jobs :
       Trigger(j) \/ OpenRecord(j) \/ NoteAttempt(j) \/ End(j) \/ PassSlot(j) \/ RecoverJob(j)
  \/ ReportMiss \/ SkipSlot \/ \E n \in skips : CloseSkip(n)
  \/ Dismiss \/ Recover \/ RecoverClears
  \/ Reconcile \/ Killed

LedgerSpec == LedgerInit /\ [][LedgerNext]_ledgerVars

-----------------------------------------------------------------------------
(* An entry that the operator dismissed never comes back: no operation      *)
(* saves a document that it loaded before the dismissal                     *)
(* (scheduler-runs.ts:16).                                                  *)
StaysDismissed == dismissed \cap Ids(ledger) = {}

(* A skipped slot in hand: its record is open, the operation that closes it *)
(* is still to be asked for, or waits.                                      *)
Skipping(n) ==
  n \in skips \/ \E i \in DOMAIN calls : calls[i].op = "close" /\ calls[i].id = n

(* Once the process is up, a record that says "running" is of a run that is *)
(* running, or of a skipped slot about to be closed: what a crash left was  *)
(* reconciled first.                                                        *)
RunningIsLive ==
  backend = "up" /\ ~troubled =>
    \A r \in ledger : r.status = "running" => Skipping(r.id) \/ \E j \in Jobs : runs[j].id = r.id

(* A missed slot leaves the list when it is dismissed, when a recovery has  *)
(* queued its job, or when newer records fill the document.                 *)
MissKept ==
  [][ \A r \in ledger :
        IsMissed(r) /\ r.id \notin Ids(ledger') =>
          \/ r.id \in dismissed'
          \/ recovery.step = "clearing" /\ r.job \in recovery.queued
          \/ Cardinality({s \in ledger' : s.at > r.at}) >= Retained]_ledgerVars
=============================================================================

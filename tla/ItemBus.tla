------------------------------ MODULE ItemBus ------------------------------
(***************************************************************************)
(* The rows of BFrost's item bus and those who change them under the lock: *)
(* a producer inserts one row, the dashboard and the publisher load all of *)
(* them, edit a copy and replace the table by it, the reaper deletes what  *)
(* is past its time.  (ReadCache has the reads without the lock.)          *)
(***************************************************************************)
EXTENDS QueueLock

CONSTANTS
  Items,             \* ids of items
  OpsOf,             \* what each caller of withQueueLock may be there for
  Stored,            \* the items that are queued in the initial state
  ApprovalRequired,  \* the publisher takes nothing the operator did not approve
  MaxAttempts,       \* the publisher's params.maxAttempts
  BusFaults          \* "save": the replacing of the table may fail,
                     \* "answer": X may take a post and answer with an error

ASSUME ItemBusAssumption ==
  /\ OpsOf \in [Callers -> SUBSET {"publish", "decide", "post", "reap"}]
  /\ Stored \subseteq Items
  /\ ApprovalRequired \in BOOLEAN /\ MaxAttempts \in Nat \ {0}
  /\ BusFaults \subseteq {"save", "answer"}

VARIABLES
  rows,      \* the table: state and attempts of each item
  expired,   \* the items whose lifecycle anchor is older than QUEUE_TTL_MS
  body,      \* where the body of each caller is, its copy, the rows it is about
  sent       \* history: was the item of a row published, "once" or "twice";
             \* "lost" is a publication that the table was not told of

busVars == <<rows, expired, body, sent>>

Row(s, n) == [state |-> s, tries |-> n]
Gone == Row("none", 0)
States == {"none", "queued", "approved", "rejected", "posted", "failed"}

Rest == [at |-> "begin", copy |-> [i \in Items |-> Gone], about |-> {}]

BusInit ==
  /\ QueueInit
  /\ rows = [i \in Items |-> IF i \in Stored THEN Row("queued", 0) ELSE Gone]
  /\ expired = {}
  /\ body = [t \in Callers |-> Rest]
  /\ sent = [i \in Items |-> "never"]

Body(t, s) == stage[t] = "held" /\ body[t].at = s
Begins(t, op) == Body(t, "begin") /\ op \in OpsOf[t]
Over(t) == body' = [body EXCEPT ![t] = [Rest EXCEPT !.at = "over"]]

-----------------------------------------------------------------------------
(* Faulty variants of steps below, none of them part of the specification.  *)

\* the copy is taken while the caller still waits for the lock
Bug_LoadOutsideLock(t) ==
  /\ stage[t] = "queued" /\ body[t].at = "begin"
  /\ \E op \in OpsOf[t] \intersect {"decide", "post"} :
       body' = [body EXCEPT ![t].at = op, ![t].copy = rows]
  /\ UNCHANGED <<rows, expired, sent>>

\* the outcome of the post is not put into the copy
Bug_MarkedNothing(copy, i, outcome) == copy

-----------------------------------------------------------------------------
\* A row that goes ends its history; one that changes gets a new anchor.
Table(new) ==
  /\ rows' = new
  /\ expired' = {i \in expired : new[i] = rows[i]}
  /\ sent' = [i \in Items |-> IF new[i] = Gone THEN "never" ELSE sent[i]]

(* publishItem: the row is added unless there is one with that id.          *)
Insert(t) ==
  /\ Begins(t, "publish")
  /\ \E i \in Items :
       Table(IF rows[i] = Gone THEN [rows EXCEPT ![i] = Row("queued", 0)] ELSE rows)
  /\ Over(t)

(* loadQueue: a private copy; the publisher prunes it.                      *)
Load(t) ==
  /\ \E op \in {"decide", "post"} :
       /\ Begins(t, op)
       /\ body' = [body EXCEPT
            ![t].at = op,
            ![t].copy = [i \in Items |->
               IF op = "post" /\ i \in expired THEN Gone ELSE rows[i]]]
  /\ UNCHANGED <<rows, expired, sent>>

(* saveQueue is called with a copy that has changes of the rows `about'.    *)
Save(t, copy, about) ==
  body' = [body EXCEPT ![t] = [at |-> "replace", copy |-> copy, about |-> about]]

(* updateDashboardQueueItem: approves or rejects, or throws.                *)
Approvable == {"queued", "failed", "rejected"}
Rejectable == States \ {"none", "posted"}

Decide(t) ==
  /\ Body(t, "decide")
  /\ \E i \in Items, verdict \in {"approved", "rejected"} :
       LET copy == body[t].copy
           ok == copy[i].state \in IF verdict = "approved" THEN Approvable ELSE Rejectable
       IN \/ ok /\ Save(t, [copy EXCEPT ![i].state = verdict], {i})
          \/ ~ok /\ Over(t)
  /\ UNCHANGED <<rows, expired, sent>>

(* isEligible, but for the age of an item: one that was added longer than   *)
(* eligibilityWindowHours ago is like one that the model does not pick.     *)
Eligible(row) ==
  /\ row.state \in {"approved", "failed"} \union (IF ApprovalRequired THEN {} ELSE {"queued"})
  /\ row.tries < MaxAttempts

(* runTweetPost: nothing is eligible or the model skips all, and the pruned *)
(* copy is saved as it is; the model picks an item; or it fails.            *)
Choose(t) ==
  /\ Body(t, "post")
  /\ LET eligible == {i \in Items : Eligible(body[t].copy[i])}
     IN \/ Save(t, body[t].copy, {})
        \/ \E i \in eligible :
             body' = [body EXCEPT ![t].at = "chosen", ![t].about = {i}]
        \/ eligible # {} /\ Over(t)
  /\ UNCHANGED <<rows, expired, sent>>

(* markQueueItemPosted, markQueueItemDuplicateRejected and                  *)
(* markQueueItemPostFailed                                                  *)
Marked(copy, i, outcome) ==
  [copy EXCEPT ![i] =
     CASE outcome = "sent" -> Row("posted", @.tries)
       [] outcome = "duplicate" -> Row("rejected", MaxAttempts)
       [] outcome = "error" -> Row("failed", @.tries + 1)]

After(s, told) ==
  IF s \in {"once", "twice"} THEN "twice"
  ELSE IF told /\ s = "never" THEN "once" ELSE "lost"

(* postTweet settles, and the copy with its outcome is about to be saved.   *)
Tweet(t) ==
  /\ Body(t, "chosen")
  /\ \E i \in body[t].about, outcome \in {"sent", "duplicate", "error"}, taken \in BOOLEAN :
       /\ outcome = "sent" => taken
       /\ outcome = "duplicate" => ~taken
       /\ outcome = "error" /\ taken => "answer" \in BusFaults
       /\ sent' = [sent EXCEPT ![i] = IF taken THEN After(@, outcome = "sent") ELSE @]
       /\ Save(t, Marked(body[t].copy, i, outcome), {i})
  /\ UNCHANGED <<rows, expired>>

(* saveQueue replaces the table in one transaction ...                      *)
Replace(t) ==
  /\ Body(t, "replace")
  /\ Table(body[t].copy)
  /\ Over(t)

(* ... or throws, which the publisher takes for a failed post when it comes *)
(* after a sent one, and saves that.                                        *)
Untold(t) == {i \in body[t].about : body[t].at = "replace" /\ body[t].copy[i].state = "posted"}
Lose(is) == sent' = [i \in Items |-> IF i \in is THEN "lost" ELSE sent[i]]

ReplaceFails(t) ==
  /\ "save" \in BusFaults
  /\ Body(t, "replace")
  /\ Lose(Untold(t))
  /\ \/ Untold(t) = {} /\ Over(t)
     \/ \E i \in Untold(t) : Save(t, Marked(body[t].copy, i, "error"), {i})
  /\ UNCHANGED <<rows, expired>>

(* reapExpiredQueueItems: reads the anchors and deletes by id.              *)
Select(t) ==
  /\ Begins(t, "reap")
  /\ IF expired = {} THEN Over(t)
     ELSE body' = [body EXCEPT ![t].at = "delete", ![t].about = expired]
  /\ UNCHANGED <<rows, expired, sent>>

Delete(t) ==
  /\ Body(t, "delete")
  /\ Table([i \in Items |-> IF i \in body[t].about THEN Gone ELSE rows[i]])
  /\ Over(t)

BodyStep(t) ==
  \/ Insert(t) \/ Load(t) \/ Decide(t) \/ Choose(t) \/ Tweet(t)
  \/ Replace(t) \/ ReplaceFails(t) \/ Select(t) \/ Delete(t)

(* The body has returned or thrown, and the lock is let go.                 *)
EndBody(t) ==
  /\ body[t].at = "over"
  /\ Release(t)
  /\ body' = [body EXCEPT ![t] = Rest]
  /\ UNCHANGED <<rows, expired, sent>>

-----------------------------------------------------------------------------
(* Time passes for a row. *)
Expire(i) ==
  /\ rows[i] # Gone /\ i \notin expired
  /\ expired' = expired \union {i}
  /\ UNCHANGED <<rows, body, sent>>

(* A process that dies takes its bodies along. *)
Die(p) ==
  /\ Crash(p)
  /\ body' = [t \in Callers |-> IF ProcOf[t] = p THEN Rest ELSE body[t]]
  /\ Lose(UNION {Untold(t) : t \in {u \in Callers : ProcOf[u] = p}})
  /\ UNCHANGED <<rows, expired>>

Approach(t) ==
  \/ Admit(t) \/ Create(t) \/ Stat(t) \/ LookAtOwner(t) \/ Unlink(t) \/ Recreate(t)
  \/ Poll(t)

LockStep ==
  \/ \E t \in Callers : Call(t) \/ Approach(t) \/ GiveUp(t) \/ CreateThrows(t)
  \/ \E p \in Processes : Start(p) \/ BootRead(p) \/ BootUnlink(p)
  \/ Age

BusStep ==
  \/ LockStep /\ UNCHANGED busVars
  \/ \E t \in Callers : EndBody(t)
  \/ \E p \in Processes : Die(p)
  \/ /\ \/ \E t \in Callers : BodyStep(t)
        \/ \E i \in Items : Expire(i)
     /\ UNCHANGED queueVars

BusNext == BusStep /\ calm' = (calm /\ ~Disturbed')

allVars == <<queueVars, calm, busVars>>

BusSpec == BusInit /\ [][BusNext]_allVars

(* As FairQueueSpec, with bodies that end: the model and X answer or time   *)
(* out, and statements of the database return.                              *)
stepVars == <<queueVars, busVars>>

BusFairness ==
  /\ \A t \in Callers :
       /\ WF_stepVars(\/ Approach(t) /\ UNCHANGED busVars
                      \/ BodyStep(t) /\ UNCHANGED queueVars
                      \/ EndBody(t))
       /\ SF_stepVars(GiveUp(t) /\ UNCHANGED busVars)
  /\ \A p \in Processes : WF_stepVars((BootRead(p) \/ BootUnlink(p)) /\ UNCHANGED busVars)

FairBusSpec == BusSpec /\ BusFairness

-----------------------------------------------------------------------------
BusTypeOK ==
  /\ QueueTypeOK
  /\ \A f \in {rows} \union {body[t].copy : t \in Callers} :
       f \in [Items -> [state : States, tries : 0..MaxAttempts]]
  /\ expired \subseteq Items
  /\ \A t \in Callers : /\ body[t].at \in {"begin", "decide", "post", "chosen", "replace",
                                            "delete", "over"}
                        /\ body[t].about \subseteq Items
                        /\ stage[t] # "held" => body[t] = Rest
  /\ sent \in [Items -> {"never", "once", "twice", "lost"}]

(* A whole-table save from a private copy undoes nobody else's change: of   *)
(* the rows that its caller is not about it only drops expired ones.        *)
NoLostUpdate ==
  [][calm' /\ rows' # rows =>
       \A t \in Callers : body[t].at = "replace" /\ body'[t].at = "over" =>
         \A i \in Items \ body[t].about :
           rows'[i] = rows[i] \/ (i \in expired /\ rows'[i] = Gone)]_allVars

(* What goes to X is, at that moment, due in the table itself, approved and *)
(* not rejected meanwhile; and it has not been published before, unless the *)
(* record of that never reached the table.                                  *)
PostsAreDue ==
  [][calm' => \A t \in Callers : body[t].at = "chosen" /\ body'[t].at = "replace" =>
       \A i \in body[t].about : Eligible(rows[i]) /\ sent'[i] # "twice"]_allVars
=============================================================================

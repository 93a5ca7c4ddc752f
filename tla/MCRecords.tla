------------------------------ MODULE MCRecords ------------------------------
(* Records that outlive a run: the slots of one job; the list of runs of    *)
(* two jobs; the actions that runs ask permission for, all but the command  *)
(* of a worker with wildcard and exact permissions in its manifest, which   *)
(* do not cover the second write; the record of a local worker; the news    *)
(* that digests file; and the histories of two chat threads.  The six have  *)
(* no variable in common: part says which of them TLC explores, not their   *)
(* product.  A unit of time of the slots is 16 hours: Lookback, 48 hours,   *)
(* is 3, and Base, 26 hours, is 1.  The gaps of the job are shorter than    *)
(* the lookback, exactly as long, and as wide as those of a weekly job.     *)
EXTENDS SlotLedger, RunLedger, Approvals, WorkerLifecycle, NewsDigest,
        Conversations, FiniteSets, TLC

CONSTANTS h1, h2, j1, j2, read, write, write2, noop, shell, x1, x2, d1, d2, p, q, s, m1, m2, t1, t2

TwoHandlers == {h1, h2}
TwoJobs == {j1, j2}
TwoCalls == {x1, x2}
TwoDigests == {d1, d2}

MCRequests == {read, write, write2, noop, shell}
MCKind == [r \in MCRequests |->
             CASE r = read -> "read"
               [] r \in {write, write2} -> "write"
               [] r = noop -> "unchanged"
               [] r = shell -> "shell"]
MCWorkerOf == [r \in MCRequests |-> IF r = shell THEN "free" ELSE "scoped"]
MCRestricted == {"scoped"}
MCGrants == [w \in MCRestricted |->
               {<<"file", "read", "*">>, <<"file", "write", write>>, <<"file", "write", noop>>}]

MCArticles == {p, q, s}
\* Two outlets have one story under the same title.
MCTitleOf == (p :> "story" @@ q :> "story" @@ s :> "other")

TwoTurns == {m1, m2}
TwoThreads == {t1, t2}

\* What is interchangeable is explored in one order only: the first point in
\* time is taken by j1; of two free handlers, calls, digests or turns, the
\* first one is taken; and the first thread is t1.  Only p is an article that
\* another producer files.
JobsInOrder ==
  time = 0 /\ time' = 1 => runs'[j1].doing = "opening" \/ \E slot \in late' : slot.job = j1
HandlersInOrder == handler[h1] = Idle /\ handler[h2] = Idle => handler'[h2] = Idle
CallsInOrder == ongoing[x1] = AtRest /\ ongoing[x2] = AtRest => ongoing'[x2] = AtRest
DigestsInOrder == digest[d1] = NoDigest /\ digest[d2] = NoDigest => digest'[d2] = NoDigest
TurnsInOrder == turn[m1] = NoTurn => turn'[m2] = NoTurn
ThreadsInOrder == turn[m1] = NoTurn /\ listed = {} => t2 \notin listed'

\* Bounds of MCNext.  A job is triggered while a point in time is left for
\* its record, or by a recovery.
TriggeredInTime ==
  \A j \in TwoJobs : runs[j] = Resting /\ runs'[j].doing = "queued" =>
    time < MaxTime \/ recovery' # recovery

\* One operation of the store of runs fails.
OneFailure == troubled /\ CallFails => SaveCall

\* Two of the five requests ask in one behaviour.
Asking == {r \in MCRequests : stage[r] # "idle"}

\* Once a reload or a deletion has overlapped another call, the calls end and
\* the process may start again, but nothing new begins.
NothingNewOnceRaced ==
  raced /\ boots' = boots =>
    /\ UNCHANGED <<edits, started>>
    /\ \A c \in TwoCalls : ongoing[c] = AtRest => ongoing'[c] = AtRest

VARIABLE part
Parts == {"slots", "runs", "actions", "worker", "news", "chat"}

MCVars == <<slotVars, ledgerVars, actionVars, lifecycleVars, newsVars, chatVars,
            part>>

MCInit ==
  /\ SlotInit /\ LedgerInit /\ ApprovalInit /\ LifecycleInit /\ NewsInit
  /\ ChatInit
  /\ part \in Parts

MCNext ==
  \/ part = "slots" /\ SlotNext /\ HandlersInOrder
     /\ UNCHANGED <<ledgerVars, actionVars, lifecycleVars, newsVars, chatVars, part>>
  \/ part = "runs" /\ LedgerNext /\ JobsInOrder /\ TriggeredInTime /\ OneFailure
     /\ UNCHANGED <<slotVars, actionVars, lifecycleVars, newsVars, chatVars, part>>
  \/ part = "actions" /\ ApprovalNext /\ Cardinality(Asking') <= 2
     /\ UNCHANGED <<slotVars, ledgerVars, lifecycleVars, newsVars, chatVars, part>>
  \/ part = "worker" /\ LifecycleNext /\ CallsInOrder /\ NothingNewOnceRaced
     /\ UNCHANGED <<slotVars, ledgerVars, actionVars, newsVars, chatVars, part>>
  \/ part = "news" /\ NewsNext /\ DigestsInOrder /\ others' \subseteq {p}
     /\ UNCHANGED <<slotVars, ledgerVars, actionVars, lifecycleVars, chatVars, part>>
  \/ part = "chat" /\ ChatNext /\ TurnsInOrder /\ ThreadsInOrder
     /\ UNCHANGED <<slotVars, ledgerVars, actionVars, lifecycleVars, newsVars, part>>

MCSpec == MCInit /\ [][MCNext]_MCVars
=============================================================================

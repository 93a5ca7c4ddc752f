------------------------------ MODULE QueueLock ------------------------------
(***************************************************************************)
(* The lock of BFrost's item bus: a file, queue.lock, created exclusively  *)
(* by one of several processes, behind a first-come-first-served chain of  *)
(* the callers of each process.  A file that is old and whose owner is     *)
(* dead is broken; a backend removes whatever it finds when it starts.     *)
(* Every file operation is awaited, so processes interleave between them.  *)
(***************************************************************************)
EXTENDS Naturals, Sequences

CONSTANTS
  Processes,  \* the backend and the processes of "npm run task"
  Callers,    \* calls of withQueueLock
  ProcOf,     \* the process of each call
  Backends,   \* processes that clear the lock when they start
  Started,    \* processes that are up in the initial state
  Nobody,     \* there is no lock file
  Faults      \* "crash": a process may be killed,
              \* "slow": a caller may hold the lock longer than LOCK_STALE_MS,
              \* "io": the creation of the file may fail

ASSUME ProcessesAssumption ==
  /\ ProcOf \in [Callers -> Processes]
  /\ Backends \subseteq Processes /\ Started \subseteq Processes
  /\ Nobody \notin Processes
ASSUME FaultsAssumption == Faults \subseteq {"crash", "slow", "io"}

VARIABLES
  status,  \* of each process: "absent", "booting", "clearing", "up" or "dead"
  file,    \* the process whose pid is in queue.lock, or Nobody
  age,     \* "old" when the file is older than LOCK_STALE_MS, else "young"
  chain,   \* inProcessLockChain of each process: its callers, first one first
  stage,   \* where each caller is
  calm     \* history: no boot was disturbing, no living owner's file was old

queueVars == <<status, file, age, chain, stage>>

Stages == {"idle",
           "queued",    \* awaits the caller before it
           "create",    \* will create the file
           "stat",      \* found one, will look at its age
           "owner",     \* it is old, will look at its owner
           "unlink",    \* the owner is not alive, will remove it
           "recreate",  \* removed it, will create one
           "sleep",     \* polls
           "held"}      \* runs the body

QueueInit ==
  /\ status = [p \in Processes |-> IF p \in Started THEN "up" ELSE "absent"]
  /\ file = Nobody /\ age = "young"
  /\ chain = [p \in Processes |-> <<>>]
  /\ stage = [t \in Callers |-> "idle"]
  /\ calm = TRUE

Goto(t, s) == stage' = [stage EXCEPT ![t] = s]
File(p) == file' = p /\ age' = "young"

-----------------------------------------------------------------------------
(* Faulty variants of steps below, none of them part of the specification.  *)

\* the file is written without the flag 'wx'
Bug_TryCreateOverwrites(t, no) ==
  File(ProcOf[t]) /\ Goto(t, "held")

\* the deadline is pushed back by every poll
Bug_GiveUpPollsOn(t) ==
  /\ stage[t] = "sleep"
  /\ Goto(t, "create")
  /\ UNCHANGED <<status, file, age, chain>>

-----------------------------------------------------------------------------
(* withQueueLock: joins the chain of its process ...                        *)
Call(t) ==
  /\ status[ProcOf[t]] = "up" /\ stage[t] = "idle"
  /\ chain' = [chain EXCEPT ![ProcOf[t]] = Append(@, t)]
  /\ Goto(t, "queued")
  /\ UNCHANGED <<status, file, age>>

(* ... and goes on when the caller before it is done.                       *)
Admit(t) ==
  /\ stage[t] = "queued"
  /\ chain[ProcOf[t]] # <<>> /\ Head(chain[ProcOf[t]]) = t
  /\ Goto(t, "create")
  /\ UNCHANGED <<status, file, age, chain>>

(* tryCreateLock *)
TryCreate(t, no) ==
  \/ file = Nobody /\ File(ProcOf[t]) /\ Goto(t, "held")
  \/ file # Nobody /\ Goto(t, no) /\ UNCHANGED <<file, age>>

(* acquireFileLock *)
Create(t) ==
  stage[t] = "create" /\ TryCreate(t, "stat") /\ UNCHANGED <<status, chain>>

Stat(t) ==
  /\ stage[t] = "stat"
  /\ Goto(t, IF file # Nobody /\ age = "old" THEN "owner" ELSE "sleep")
  /\ UNCHANGED <<status, file, age, chain>>

(* lockOwnerIsAlive: an owner that cannot be read counts as dead.           *)
LookAtOwner(t) ==
  /\ stage[t] = "owner"
  /\ Goto(t, IF file # Nobody /\ status[file] # "dead" THEN "sleep" ELSE "unlink")
  /\ UNCHANGED <<status, file, age, chain>>

(* Whatever file is there by now is removed.                                *)
Unlink(t) ==
  /\ stage[t] = "unlink"
  /\ File(Nobody)
  /\ Goto(t, IF file = Nobody THEN "sleep" ELSE "recreate")
  /\ UNCHANGED <<status, chain>>

Recreate(t) ==
  stage[t] = "recreate" /\ TryCreate(t, "sleep") /\ UNCHANGED <<status, chain>>

Poll(t) ==
  /\ stage[t] = "sleep"
  /\ Goto(t, "create")
  /\ UNCHANGED <<status, file, age, chain>>

(* releaseInProcess *)
Leave(t) ==
  /\ chain' = [chain EXCEPT ![ProcOf[t]] = Tail(@)]
  /\ Goto(t, "idle")

(* After LOCK_WAIT_TIMEOUT_MS the caller throws. *)
GiveUp(t) ==
  stage[t] = "sleep" /\ Leave(t) /\ UNCHANGED <<status, file, age>>

(* writeFile fails otherwise than with EEXIST.                              *)
CreateThrows(t) ==
  "io" \in Faults /\ stage[t] = "create" /\ Leave(t) /\ UNCHANGED <<status, file, age>>

(* The body is done, or throws: the file is removed, whoever owns it.       *)
Release(t) ==
  stage[t] = "held" /\ File(Nobody) /\ Leave(t) /\ UNCHANGED status

-----------------------------------------------------------------------------
(* The file grows old: that of a dead owner, or one that is held for long.  *)
Age ==
  /\ file # Nobody /\ age = "young"
  /\ status[file] = "dead" \/ "slow" \in Faults
  /\ age' = "old"
  /\ UNCHANGED <<status, file, chain, stage>>

Become(p, s) == status' = [status EXCEPT ![p] = s]

(* A process starts; one backend at a time, as the runtime lock has it.     *)
Start(p) ==
  /\ status[p] = "absent"
  /\ \/ p \notin Backends /\ Become(p, "up")
     \/ /\ p \in Backends
        /\ \A q \in Backends : status[q] \in {"absent", "dead"}
        /\ Become(p, "booting")
  /\ UNCHANGED <<file, age, chain, stage>>

(* releaseStaleQueueLockOnBoot: reads the file, then removes it.            *)
BootRead(p) ==
  /\ status[p] = "booting"
  /\ Become(p, IF file = Nobody THEN "up" ELSE "clearing")
  /\ UNCHANGED <<file, age, chain, stage>>

BootUnlink(p) ==
  /\ status[p] = "clearing"
  /\ Become(p, "up")
  /\ File(Nobody)
  /\ UNCHANGED <<chain, stage>>

(* A process ends; its file stays.  Its pid is not used again.              *)
Crash(p) ==
  /\ "crash" \in Faults
  /\ status[p] \notin {"absent", "dead"}
  /\ Become(p, "dead")
  /\ chain' = [chain EXCEPT ![p] = <<>>]
  /\ stage' = [t \in Callers |-> IF ProcOf[t] = p THEN "idle" ELSE stage[t]]
  /\ UNCHANGED <<file, age>>

-----------------------------------------------------------------------------
(* What a caller does by itself, other than giving up.                      *)
Acquire(t) ==
  \/ Admit(t) \/ Create(t) \/ Stat(t) \/ LookAtOwner(t) \/ Unlink(t)
  \/ Recreate(t) \/ Poll(t) \/ Release(t)

QueueStep ==
  \/ \E t \in Callers : Call(t) \/ Acquire(t) \/ GiveUp(t) \/ CreateThrows(t)
  \/ \E p \in Processes : Start(p) \/ BootRead(p) \/ BootUnlink(p) \/ Crash(p)
  \/ Age

(* A backend clears the lock beside another live process, or a body has run *)
(* for longer than LOCK_STALE_MS.                                           *)
Disturbed ==
  \/ \E p \in Backends : /\ status[p] \in {"booting", "clearing"}
                        /\ \E q \in Processes \ {p} : status[q] \notin {"absent", "dead"}
  \/ age = "old" /\ status[file] # "dead"

QueueNext == QueueStep /\ calm' = (calm /\ ~Disturbed')

QueueSpec == QueueInit /\ [][QueueNext]_<<queueVars, calm>>

(* Awaits resume, bodies end, and the deadline of the poll is a point in    *)
(* time: a caller that is back at it again and again passes it.             *)
FairQueueSpec ==
  /\ QueueSpec
  /\ \A t \in Callers : WF_queueVars(Acquire(t)) /\ SF_queueVars(GiveUp(t))
  /\ \A p \in Processes : WF_queueVars(BootRead(p) \/ BootUnlink(p))

-----------------------------------------------------------------------------
QueueTypeOK ==
  /\ status \in [Processes -> {"absent", "booting", "clearing", "up", "dead"}]
  /\ file \in Processes \union {Nobody}
  /\ age \in {"young", "old"} /\ (age = "old" => file # Nobody)
  /\ chain \in [Processes -> Seq(Callers)]
  /\ stage \in [Callers -> Stages]
  /\ calm \in BOOLEAN

(* The body of withQueueLock is run by one caller at a time: within a       *)
(* process and among processes.                                             *)
Exclusive ==
  calm => \A t, u \in Callers : stage[t] = "held" /\ stage[u] = "held" => t = u

(* "Only break the lock when it's truly stale: older than LOCK_STALE_MS and *)
(* the process that owns it is no longer alive": the file of a caller that  *)
(* runs its body is removed by nobody else, as long as no backend boots     *)
(* beside a live process and bodies are shorter than that.                  *)
LockKept ==
  [][calm' => \A t \in Callers :
       stage[t] = "held" /\ file = ProcOf[t] /\ stage'[t] = "held" => file' = file]_queueVars

(* The callers that are past the chain are at its head: "a failing body     *)
(* releases the lock for whoever is waiting".                               *)
ChainInOrder ==
  /\ \A t \in Callers : stage[t] \notin {"idle", "queued"} =>
       chain[ProcOf[t]] # <<>> /\ Head(chain[ProcOf[t]]) = t
  /\ \A p \in Processes : \A i \in 1..Len(chain[p]) : stage[chain[p][i]] # "idle"

(* Whoever calls gets the lock, or an error, in the end.                    *)
EveryCallEnds == \A t \in Callers : stage[t] = "queued" ~> stage[t] = "idle"
=============================================================================

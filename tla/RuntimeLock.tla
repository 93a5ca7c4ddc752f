---------------------------- MODULE RuntimeLock ----------------------------
(***************************************************************************)
(* The runtime lock of BFrost: one row of app_runtime_locks, by which at   *)
(* most one backend process owns the data directory.  A row whose owner is *)
(* dead is taken over.  Each step is one SQL statement or one kill(pid, 0);*)
(* the statements of one process are interleaved with those of others.     *)
(* A pending restore replaces the database file, row included, before the  *)
(* lock is taken; who has the file open keeps the old one.                 *)
(***************************************************************************)
EXTENDS Naturals

CONSTANTS
  Pids,        \* process ids; the operating system uses them again
  NoPid,       \* there is no row
  MaxRestores  \* bound: restores asked for by the operator

ASSUME NoPidAssumption == NoPid \notin Pids
ASSUME MaxRestoresAssumption == MaxRestores \in Nat

Files == 0..MaxRestores

VARIABLES
  row,      \* owner_pid of the row, in each database file there has been
  current,  \* the file at config.appDbPath
  pending,  \* restore-pending.json: "none" or "set"
  file,     \* the file that each process has open
  state,    \* of the process that has the pid
  seen      \* the owner that its SELECT returned, until it is dealt with

lockVars == <<row, current, pending, file, state, seen>>

States == {"absent",                     \* no process has the pid
           "starting", "insert", "select", "check", "delete", "again",
           "owner",                      \* runs the backend
           "leaving",                    \* gave up the lock or was refused
           "foreign"}                    \* some other program has the pid

Alive(p) == state[p] # "absent"

LockInit ==
  /\ row = [f \in Files |-> NoPid]
  /\ current = 0 /\ pending = "none"
  /\ file = [p \in Pids |-> 0]
  /\ state = [p \in Pids |-> "absent"]
  /\ seen = [p \in Pids |-> NoPid]

Goto(p, s) == state' = [state EXCEPT ![p] = s]
RowOf(p) == row[file[p]]
SetRow(p, r) == row' = [row EXCEPT ![file[p]] = r]
Forget(p) == seen' = [seen EXCEPT ![p] = NoPid]

(* getAppDb opens what is at config.appDbPath. *)
OpenDb(p) == file' = [file EXCEPT ![p] = current']

(* A pid comes back into use, but not within the instant between the check  *)
(* that its last process is gone and the removal of that process's row.     *)
NotJustChecked(p) == \A q \in Pids : state[q] = "delete" => seen[q] # p

-----------------------------------------------------------------------------
(* Faulty variants of steps below, none of them part of the specification.  *)

\* the row is removed whoever owns it by now
Bug_DeleteAny(p) ==
  /\ state[p] = "delete"
  /\ SetRow(p, NoPid)
  /\ Goto(p, "again")
  /\ UNCHANGED <<current, pending, file, seen>>

\* a row of one's own pid is taken for that of another process
Bug_SelectOwnIsOther(p) ==
  /\ state[p] = "select"
  /\ seen' = [seen EXCEPT ![p] = RowOf(p)]
  /\ Goto(p, IF RowOf(p) = NoPid THEN "again" ELSE "check")
  /\ UNCHANGED <<row, current, pending, file>>

-----------------------------------------------------------------------------
Start(p) ==
  /\ state[p] = "absent"
  /\ NotJustChecked(p)
  /\ Goto(p, "starting")
  /\ UNCHANGED <<row, current, pending, file, seen>>

(* scheduleRestoreOnNextBoot and cancelPendingRestore, from the dashboard   *)
(* of the owner.                                                            *)
RequestRestore(p) ==
  /\ state[p] = "owner"
  /\ current < MaxRestores
  /\ pending' = IF pending = "set" THEN "none" ELSE "set"
  /\ UNCHANGED <<row, current, file, state, seen>>

(* applyPendingRestoreIfAny: a backup replaces the file, with whatever row  *)
(* was in it when it was made.                                              *)
BeginStart(p) ==
  /\ state[p] = "starting"
  /\ \/ pending = "none" /\ UNCHANGED <<row, current>>
     \/ /\ pending = "set"
        /\ current' = current + 1
        /\ \E r \in Pids \union {NoPid} : row' = [row EXCEPT ![current'] = r]
  /\ pending' = "none"
  /\ OpenDb(p)
  /\ Goto(p, "insert")
  /\ UNCHANGED seen

(* tryInsertRuntimeLock: INSERT OR IGNORE. *)
Insert(p, refused) ==
  \/ RowOf(p) = NoPid /\ SetRow(p, p) /\ Goto(p, "owner")
  \/ RowOf(p) # NoPid /\ Goto(p, refused) /\ UNCHANGED row

TryInsert(p) ==
  state[p] = "insert" /\ Insert(p, "select") /\ UNCHANGED <<current, pending, file, seen>>

(* A row of this pid was left by an earlier process of that pid.            *)
Select(p) ==
  /\ state[p] = "select"
  /\ \/ RowOf(p) = p /\ Goto(p, "owner") /\ UNCHANGED seen
     \/ RowOf(p) = NoPid /\ Goto(p, "again") /\ UNCHANGED seen
     \/ /\ RowOf(p) \notin {p, NoPid}
        /\ Goto(p, "check") /\ seen' = [seen EXCEPT ![p] = RowOf(p)]
  /\ UNCHANGED <<row, current, pending, file>>

(* processExists(existing.owner_pid): a live owner refuses this process.    *)
CheckOwner(p) ==
  /\ state[p] = "check"
  /\ \/ Alive(seen[p]) /\ Goto(p, "leaving") /\ Forget(p)
     \/ ~Alive(seen[p]) /\ Goto(p, "delete") /\ UNCHANGED seen
  /\ UNCHANGED <<row, current, pending, file>>

DeleteStale(p) ==
  /\ state[p] = "delete"
  /\ IF RowOf(p) = seen[p] THEN SetRow(p, NoPid) ELSE UNCHANGED row
  /\ Goto(p, "again") /\ Forget(p)
  /\ UNCHANGED <<current, pending, file>>

(* "another backend started first" *)
InsertAgain(p) ==
  state[p] = "again" /\ Insert(p, "leaving") /\ UNCHANGED <<current, pending, file, seen>>

(* releaseRuntimeLock removes the row only if it is this process's own.     *)
Release(p) ==
  /\ state[p] = "owner"
  /\ IF RowOf(p) = p THEN SetRow(p, NoPid) ELSE UNCHANGED row
  /\ Goto(p, "leaving")
  /\ UNCHANGED <<current, pending, file, seen>>

(* The process ends: after a release or a refusal, by a fault, or killed;   *)
(* without a release the row stays.                                         *)
Exit(p) ==
  /\ state[p] # "absent"
  /\ Goto(p, "absent")
  /\ file' = [file EXCEPT ![p] = 0] /\ Forget(p)
  /\ UNCHANGED <<row, current, pending>>

Reuse(p) ==
  /\ state[p] = "absent"
  /\ Goto(p, "foreign")
  /\ UNCHANGED <<row, current, pending, file, seen>>

-----------------------------------------------------------------------------
Acquire(p) ==
  \/ BeginStart(p) \/ TryInsert(p) \/ Select(p) \/ CheckOwner(p)
  \/ DeleteStale(p) \/ InsertAgain(p)

LockNext ==
  \E p \in Pids :
    Start(p) \/ Acquire(p) \/ RequestRestore(p) \/ Release(p) \/ Exit(p) \/ Reuse(p)

LockSpec == LockInit /\ [][LockNext]_lockVars

(* Startup runs to its end. *)
LockFairness == \A p \in Pids : WF_lockVars(Acquire(p))

FairLockSpec == LockSpec /\ LockFairness

-----------------------------------------------------------------------------
LockTypeOK ==
  /\ row \in [Files -> Pids \union {NoPid}]
  /\ current \in Files /\ pending \in {"none", "set"}
  /\ pending = "set" => current < MaxRestores
  /\ file \in [Pids -> 0..current]
  /\ state \in [Pids -> States]
  /\ seen \in [Pids -> Pids \union {NoPid}]

(* "A competing backend must be rejected": at most one backend runs ...     *)
OneOwner == \A p, q \in Pids : state[p] = "owner" /\ state[q] = "owner" => p = q

(* ... on a database file: however starts, crashes and restores interleave. *)
OneOwnerPerFile ==
  \A p, q \in Pids :
    state[p] = "owner" /\ state[q] = "owner" /\ file[p] = file[q] => p = q

(* Nobody takes the row from a backend that runs, in the file it has open.  *)
OwnerHasRow == \A p \in Pids : state[p] = "owner" => RowOf(p) = p

(* Whatever row a crash or a restored backup left, where one process alone  *)
(* starts there will be an owner, unless it ends or another comes up.       *)
Alone(p) == Alive(p) /\ \A q \in Pids \ {p} : ~Alive(q)

Takeover ==
  (\E p \in Pids : Alone(p) /\ state[p] = "starting")
    ~> \A p \in Pids : Alone(p) => state[p] = "owner"
=============================================================================

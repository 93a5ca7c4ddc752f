------------------------------- MODULE Restore -------------------------------
(***************************************************************************)
(* Restoring a backup at the next start of BFrost.  The dashboard leaves a *)
(* marker; the next startup checks the backup, keeps a copy of the old     *)
(* database, stages a copy of the backup, removes the write-ahead log and  *)
(* renames the staged copy over the database.  Startup may be cut off at   *)
(* every await, and begins again with what it finds on disk.               *)
(***************************************************************************)
EXTENDS Naturals

CONSTANTS
  MaxCrashes,  \* bound: times the program is cut off
  RestoreFaults       \* "crash": startup may be cut off,
               \* "kill": the running program may be cut off,
               \* "io": a copy, a removal or a rename may fail,
               \* "rot": the backup may rot or be pruned

ASSUME MaxCrashesAssumption == MaxCrashes \in Nat
ASSUME RestoreFaultsAssumption == RestoreFaults \subseteq {"crash", "kill", "io", "rot"}

VARIABLES
  main,     \* the database file: the "old" one, the "backup", or "torn"
  wal,      \* the database whose later transactions the -wal file has, or "none"
  pre,      \* what .pre-restore holds: "none", "torn", "stale", or a database
  staging,  \* .restore-staging: "none", "torn" or "backup"
  backup,   \* the selected backup is "good", "bad" or "missing"
  marker,   \* restore-pending.json: "none" or "set"
  step,     \* where the program is
  found,    \* <<main, wal>> as startup found them
  crashes,  \* counts them
  failed    \* history: a copy, removal or rename failed since the last request

disk == <<main, wal, pre, staging, backup, marker>>
restoreVars == <<disk, step, found, crashes, failed>>

Startup == {"marker", "verify", "keep", "keeping", "stage", "staging", "reverify",
            "dropLog", "swap", "abort", "cancel", "open"}

RestoreInit ==
  /\ main = "old" /\ wal = "none"
  /\ pre = "none" /\ staging = "none"
  /\ backup = "good" /\ marker = "none"
  /\ step = "up" /\ found = <<main, wal>>
  /\ crashes = 0 /\ failed = FALSE

(* A step of startup: from one await to the next.                           *)
Advance(from, to) ==
  step = from /\ step' = to /\ UNCHANGED <<found, crashes, failed>>

(* The file operation of such a step fails.                                 *)
Fail(from, to) ==
  /\ "io" \in RestoreFaults
  /\ step = from /\ step' = to
  /\ failed' = TRUE
  /\ UNCHANGED <<found, crashes>>

-----------------------------------------------------------------------------
(* Faulty variants of steps below, none of them part of the specification.  *)

\* the log of the replaced database stays
Bug_DropLogKeeps ==
  /\ Advance("dropLog", "swap")
  /\ UNCHANGED disk

\* the marker goes before the swap
Bug_ReverifyCancels ==
  /\ \/ Advance("reverify", "dropLog") /\ staging = "backup"
     \/ Advance("reverify", "abort") /\ staging # "backup"
     \/ Fail("reverify", "abort")
  /\ marker' = "none"
  /\ UNCHANGED <<main, wal, pre, staging, backup>>

\* a rename that did its work is reported as failed
Bug_SwapFailsLate ==
  /\ \/ Advance("swap", "cancel") \/ Fail("swap", "abort")
  /\ main' = staging /\ staging' = "none"
  /\ UNCHANGED <<wal, pre, backup, marker>>

-----------------------------------------------------------------------------
(* The running program commits to the log; a checkpoint empties it.         *)
Commit ==
  /\ step = "up"
  /\ wal' \in {main, "none"}
  /\ UNCHANGED <<main, pre, staging, backup, marker, step, found, crashes, failed>>

(* scheduleRestoreOnNextBoot, once: the database still is the old one.      *)
ScheduleRestore ==
  /\ step = "up" /\ main = "old"
  /\ marker' = "set" /\ backup' = "good" /\ failed' = FALSE
  /\ UNCHANGED <<main, wal, pre, staging, step, found, crashes>>

(* The backup is lost between the request and the start.                    *)
Rot ==
  /\ "rot" \in RestoreFaults
  /\ step = "down"
  /\ backup' \in {"bad", "missing"}
  /\ UNCHANGED <<main, wal, pre, staging, marker, step, found, crashes, failed>>

(* closeDb checkpoints. *)
Shutdown ==
  /\ step = "up"
  /\ wal' = "none" /\ step' = "down"
  /\ UNCHANGED <<main, pre, staging, backup, marker, found, crashes, failed>>

CutOff ==
  /\ crashes < MaxCrashes
  /\ crashes' = crashes + 1
  /\ \/ "kill" \in RestoreFaults /\ step = "up"
     \/ "crash" \in RestoreFaults /\ step \in Startup
  /\ step' = "down"
  /\ UNCHANGED <<disk, found, failed>>

Boot ==
  /\ step = "down"
  /\ step' = "marker"
  /\ found' = <<main, wal>>
  /\ UNCHANGED <<disk, crashes, failed>>

-----------------------------------------------------------------------------
(* applyPendingRestoreIfAny *)
ReadMarker ==
  /\ Advance("marker", IF marker = "set" THEN "verify" ELSE "open")
  /\ UNCHANGED disk

(* A backup that is gone, or fails its integrity check, is not restored.    *)
VerifyBackup ==
  /\ \/ Advance("verify", "keep") /\ backup = "good"
     \/ Advance("verify", "cancel") /\ backup # "good"
  /\ UNCHANGED disk

(* copyFile copies the main file only: transactions in the log are missing. *)
(* A copy that fails is ignored.                                            *)
KeepOld ==
  /\ Advance("keep", "keeping")
  /\ pre' = "torn"
  /\ UNCHANGED <<main, wal, staging, backup, marker>>

OldKept ==
  /\ \/ Advance("keeping", "stage") /\ pre' = IF wal = main THEN "stale" ELSE main
     \/ Fail("keeping", "stage") /\ UNCHANGED pre
  /\ UNCHANGED <<main, wal, staging, backup, marker>>

Stage ==
  /\ Advance("stage", "staging")
  /\ staging' = "torn"
  /\ UNCHANGED <<main, wal, pre, backup, marker>>

(* The copy may fail, and may fail unnoticed. *)
Staged ==
  /\ \/ Advance("staging", "reverify") /\ staging' = "backup"
     \/ Fail("staging", "reverify") /\ UNCHANGED staging
     \/ Fail("staging", "abort") /\ UNCHANGED staging
  /\ UNCHANGED <<main, wal, pre, backup, marker>>

Reverify ==
  /\ \/ Advance("reverify", "dropLog") /\ staging = "backup"
     \/ Advance("reverify", "abort") /\ staging # "backup"
     \/ Fail("reverify", "abort")
  /\ UNCHANGED disk

(* "A WAL belongs to one exact main-database image."                        *)
DropLog ==
  /\ \/ Advance("dropLog", "swap") /\ wal' = "none"
     \/ Fail("dropLog", "abort") /\ UNCHANGED wal
  /\ UNCHANGED <<main, pre, staging, backup, marker>>

Swap ==
  /\ \/ Advance("swap", "cancel") /\ main' = staging /\ staging' = "none"
     \/ Fail("swap", "abort") /\ UNCHANGED <<main, staging>>
  /\ UNCHANGED <<wal, pre, backup, marker>>

Abort ==
  /\ Advance("abort", "cancel")
  /\ staging' = "none"
  /\ UNCHANGED <<main, wal, pre, backup, marker>>

CancelPendingRestore ==
  /\ Advance("cancel", "open")
  /\ marker' = "none"
  /\ UNCHANGED <<main, wal, pre, staging, backup>>

(* getDb opens what is there: main, with the log it finds.                  *)
Open ==
  /\ Advance("open", "up")
  /\ UNCHANGED disk

-----------------------------------------------------------------------------
ApplyPendingRestore ==
  \/ ReadMarker \/ VerifyBackup \/ KeepOld \/ OldKept \/ Stage \/ Staged
  \/ Reverify \/ DropLog \/ Swap \/ Abort \/ CancelPendingRestore \/ Open

RestoreNext ==
  \/ Commit \/ ScheduleRestore \/ Rot \/ Shutdown \/ CutOff \/ Boot
  \/ ApplyPendingRestore

RestoreSpec == RestoreInit /\ [][RestoreNext]_restoreVars

(* Startup goes on, and the operator starts and in the end stops BFrost.    *)
RestoreFairness ==
  WF_restoreVars(ApplyPendingRestore) /\ WF_restoreVars(Boot) /\ WF_restoreVars(Shutdown)

-----------------------------------------------------------------------------
RestoreTypeOK ==
  /\ main \in {"old", "backup", "torn"}
  /\ wal \in {"none", "old", "backup", "torn"}
  /\ pre \in {"none", "torn", "stale", "old", "backup"}
  /\ staging \in {"none", "torn", "backup"}
  /\ backup \in {"good", "bad", "missing"} /\ marker \in {"none", "set"}
  /\ step \in Startup \union {"down", "up"}
  /\ crashes \in 0..MaxCrashes /\ failed \in BOOLEAN

(* "An observer sees either the old database or the new one, never a        *)
(* partial", wherever startup is cut off.                                   *)
NeverPartial == main # "torn"

(* The database is never opened with the log of another one.                *)
OwnLog == step \in {"open", "up"} => wal \in {"none", main}

(* Startup opens a whole database, wherever an earlier one was cut off.     *)
DatabaseIntact == NeverPartial /\ OwnLog

(* A restore that was asked for is carried out at a later start, however    *)
(* often startup is cut off, or its backup turns out to be no good, or a    *)
(* file operation failed.                                                   *)
RestoreSettled ==
  RestoreFairness => (marker = "set" ~> marker = "none" /\ (main = "backup" \/ backup # "good" \/ failed))

(* "Abandoning the staging file leaves the installation exactly as it was", *)
(* unless startup found transactions in the log.                            *)
AbortLeavesAll == step = "abort" /\ found[2] = "none" => <<main, wal>> = found

(* "Keep the outgoing database for rollback and post-mortem": it is kept,   *)
(* complete, if nothing is cut off and nothing fails.                       *)
OutgoingKept == main = "backup" /\ crashes = 0 /\ ~failed => pre = "old"

(* Either way the outgoing database is not lost.                            *)
OutgoingSafe == AbortLeavesAll /\ OutgoingKept
=============================================================================

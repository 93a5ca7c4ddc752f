----------------------------- MODULE MCItemBus -----------------------------
(* What others change while it is used: the item bus, by a backend and a    *)
(* process of "npm run task"; the read cache of a process; the files of a   *)
(* restore; and the data of two workers as the dashboard shows it.  The     *)
(* four have no variable in common: part says which TLC explores, not their *)
(* product.                                                                 *)
EXTENDS ItemBus, ReadCache, Restore, DashboardData, TLC

CONSTANTS backend, task, a, b, c, x, r1, r2, w1, w2, s1, s2, f1, f2, f3

MCProcesses == {backend, task}
MCBackends == {backend}
MCCallers == {a, b, c}
MCProcOf == (a :> backend @@ b :> backend @@ c :> task)
MCOpsOf == (a :> {"decide", "publish"} @@ b :> {"reap"} @@ c :> {"post"})

VARIABLE part  \* "bus", "cache", "restore" or "dashboard"

MCVars == <<allVars, cacheVars, restoreVars, dashboardVars, part>>

MCInit ==
  /\ BusInit /\ CacheInit /\ RestoreInit /\ DashboardInit
  /\ part \in {"bus", "cache", "restore", "dashboard"}

MCNext ==
  \/ part = "bus" /\ BusNext
     /\ UNCHANGED <<cacheVars, restoreVars, dashboardVars, part>>
  \/ part = "cache" /\ CacheNext
     /\ UNCHANGED <<allVars, restoreVars, dashboardVars, part>>
  \/ part = "restore" /\ RestoreNext
     /\ UNCHANGED <<allVars, cacheVars, dashboardVars, part>>
  \/ part = "dashboard" /\ DashboardNext
     /\ UNCHANGED <<allVars, cacheVars, restoreVars, part>>

MCSpec == MCInit /\ [][MCNext]_MCVars /\ BusFairness
=============================================================================

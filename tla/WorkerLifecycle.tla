--------------------------- MODULE WorkerLifecycle ---------------------------
(* A local worker: its source in the worker directory, the bundle compiled  *)
(* from it, the module in the live registry, and the record of worker.state *)
(* (src/workers/bootstrap.ts, watch.ts, loader.ts, build.ts, state.ts,      *)
(* registry.ts, http/routes/workers.ts, admin-worker-ops.ts).               *)
(*                                                                          *)
(* Enabling, disabling, installing and deleting are HTTP requests, the hot  *)
(* reload a timer; each awaits the file system, the compiler or a hook of   *)
(* the worker, and nothing keeps them apart.  A step of the model runs from *)
(* one such await to the next.  A read-modify-write of worker.state awaits  *)
(* no I/O (better-sqlite3 is synchronous), so it is within a step.          *)
(*                                                                          *)
(* An edit is a number, and the time of the file.  The compiler skips a     *)
(* bundle newer than the files directly beside the entry point: source.near *)
(* is the last edit of those, bundle.at the last one when it was written.   *)
(* The worker is in TypeScript; one in JavaScript is not compiled, its      *)
(* entry point is required as it is (loader.ts:51).                         *)
EXTENDS Naturals

CONSTANTS
  Calls,       \* calls that can be under way at once
  MaxRequests, \* bound: calls in a behaviour
  MaxEdits,    \* bound: edits, an installation being one
  MaxBoots,    \* bound: restarts
  Versions,    \* versions a manifest can state
  HotReload,   \* config.workerHotReloadEnabled
  WorkerFaults \* "store": worker.state cannot be written

ASSUME LifecycleAssumption ==
  /\ MaxRequests \in Nat /\ MaxEdits \in Nat /\ MaxBoots \in Nat
  /\ HotReload \in BOOLEAN /\ WorkerFaults \subseteq {"store"}

VARIABLES
  source,    \* the worker's directory: Missing, or the edit and what it compiles to
  bundle,    \* the compiled entry point on disk: Missing or a module
  required,  \* the entry point's module in require.cache, or Missing
  module,    \* the module in the live registry, or Missing
  record,    \* the worker's entry of worker.state, or Missing
  data,      \* the version that the worker's own storage was migrated to
  ongoing,   \* what is under way
  timer,     \* the debounce timer of the directory is set
  edits, started, boots,   \* counted, for the bounds
  raced,     \* history: a reload or a deletion overlapped another call in this process
  skewed,    \* history: the flag was switched off without the module, or could not be
             \* switched on with it; the worker was not enabled or disabled since
  overtaken  \* history: calls whose compiler works on a source edited since

bounds == <<edits, started, boots>>
histories == <<skewed, overtaken>>
lifecycleVars == <<source, bundle, required, module, record, data, ongoing, timer, bounds,
                   raced, histories>>

Missing == [edit |-> 0]
Unversioned == 0
AtRest == [op |-> "none", at |-> "over"]

Sources == [edit : 1..MaxEdits, near : 1..MaxEdits, version : Versions, builds : BOOLEAN]
Records == [enabled : BOOLEAN, version : Versions \union {Unversioned}]

\* What require() of the compiled source exports: the module and its manifest.
Compiled(s) == [edit |-> s.edit, version |-> s.version]

\* rememberSeenWorkers: a worker that has no record gets one, a discovered one a
\* disabled one; a registered module is passed for built in, and those start enabled.
Remembered(r, on) == IF r = Missing THEN [enabled |-> on, version |-> Unversioned] ELSE r

\* setWorkerInstalledVersion: a worker without a record becomes an enabled one.
Installed(r, v) == [enabled |-> IF r = Missing THEN TRUE ELSE r.enabled, version |-> v]

\* setWorkerEnabled.
Switched(r, on) == [Remembered(r, on) EXCEPT !.enabled = on]

\* workerCatalog: the workers discovered and those registered.
Known == source # Missing \/ module # Missing

Alone(c) == \A d \in Calls \ {c} : ongoing[d] = AtRest
Booting == \E c \in Calls : ongoing[c].op = "boot"
Intrusive(op) == op \in {"reload", "delete"}

LifecycleInit ==
  /\ source = Missing /\ bundle = Missing /\ required = Missing
  /\ module = Missing /\ record = Missing
  /\ data = Unversioned
  /\ ongoing = [c \in Calls |-> AtRest]
  /\ timer = FALSE /\ raced = FALSE /\ skewed = FALSE /\ overtaken = {}
  /\ edits = 0 /\ started = 0 /\ boots = 0

-----------------------------------------------------------------------------
(* A call is under way as op, awaiting what at names; it ends as AtRest.    *)
Moves(c, call) == ongoing' = [ongoing EXCEPT ![c] = call]
Awaits(c, at) == Moves(c, [ongoing[c] EXCEPT !.at = at])
Ends(c) == Moves(c, AtRest)

Starts(c, op) ==
  /\ ongoing[c] = AtRest /\ ~Booting
  /\ raced' = \/ raced
              \/ ~Alone(c) /\ (Intrusive(op) \/ \E d \in Calls : Intrusive(ongoing[d].op))

Requested(c, op) ==
  /\ Starts(c, op)
  /\ started < MaxRequests /\ started' = started + 1
  /\ UNCHANGED boots

\* activateLocalWorker up to its first await.  It does nothing if the module is
\* registered; prev is the version the caller takes the worker to have had.
Activates(c, op, prev) ==
  Moves(c, [op |-> op, at |-> "load", prev |-> prev, loaded |-> Missing])

\* As a bug would have it: the flag before the module.
Bug_EnableFlagsFirst(c) ==
  /\ Requested(c, "enable")
  /\ Known
  /\ record' = Switched(record, TRUE)
  /\ IF module # Missing
     THEN Moves(c, [op |-> "enabled", at |-> "dashboard"])
     ELSE Activates(c, "enabled", Remembered(record, FALSE).version)
  /\ UNCHANGED <<source, bundle, required, module, data, timer, edits, histories>>

\* POST /api/workers/:id {enabled: true}: the module first, then the flag.  (A
\* registered worker whose directory is missing has its module: no await.)
Enable(c) ==
  /\ Requested(c, "enable")
  /\ Known
  /\ IF module # Missing
     THEN /\ record' = Switched(record, TRUE)
          /\ skewed' = FALSE
          /\ Moves(c, [op |-> "enable", at |-> "dashboard"])
     ELSE /\ Activates(c, "enable", Remembered(record, FALSE).version)
          /\ UNCHANGED <<record, skewed>>
  /\ UNCHANGED <<source, bundle, required, module, data, timer, edits, overtaken>>

\* POST /api/workers/:id {enabled: false}: the flag first, then the module.
Disable(c) ==
  /\ Requested(c, "disable")
  /\ Known \/ record # Missing
  /\ record' = Switched(record, FALSE)
  /\ Moves(c, [op |-> "disable",
               at |-> IF module # Missing THEN "onDisable" ELSE "dashboard"])
  /\ UNCHANGED <<source, bundle, required, module, data, timer, edits, histories>>

\* POST /api/admin/disable-all-workers: what is registered and enabled is read ...
DisableAll(c) ==
  /\ Requested(c, "disableAll")
  /\ module # Missing /\ (record # Missing => record.enabled)
  /\ Moves(c, [op |-> "disableAll", at |-> "others"])
  /\ UNCHANGED <<source, bundle, required, module, record, data, timer, edits, histories>>

\* ... and, after the workers before this one, it is disabled like by a request.
DisableNext(c) ==
  /\ ongoing[c].at = "others"
  /\ record' = Switched(record, FALSE)
  /\ IF module # Missing THEN Awaits(c, "onDisable") ELSE Ends(c)
  /\ UNCHANGED <<source, bundle, required, module, data, timer, bounds, raced, histories>>

\* The tools of the control worker switch the flag of a registered worker, and
\* neither load nor unload it.
ToolSwitches(on) ==
  /\ ~Booting /\ module # Missing
  /\ started < MaxRequests /\ started' = started + 1
  /\ record' = Switched(record, on)
  /\ skewed' = (skewed \/ ~on)
  /\ UNCHANGED <<source, bundle, required, module, data, ongoing, timer, edits, boots, raced,
                 overtaken>>

\* DELETE /api/workers/:id, which the Control Room offers for a disabled worker.
Delete(c) ==
  /\ Requested(c, "delete")
  /\ record # Missing /\ ~record.enabled
  /\ Moves(c, [op |-> "delete", at |-> "remove"])
  /\ UNCHANGED <<source, bundle, required, module, record, data, timer, edits, histories>>

\* An upload, or an installation from the store: no directory and no worker of
\* this id is there when it looks.
Install(c) ==
  /\ Requested(c, "install")
  /\ ~Known
  /\ edits < MaxEdits /\ edits' = edits + 1
  /\ Moves(c, [op |-> "install", at |-> "move", edit |-> edits'])
  /\ UNCHANGED <<source, bundle, required, module, record, data, timer, histories>>

\* A dashboard read, or a rescan.
Look(c) ==
  /\ Requested(c, "look")
  /\ Moves(c, [op |-> "look", at |-> "dashboard"])
  /\ UNCHANGED <<source, bundle, required, module, record, data, timer, edits, histories>>

\* The debounce timer fires, and the directory is scanned: only a registered
\* worker is reloaded.
TimerFires(c) ==
  /\ timer /\ timer' = FALSE
  /\ Starts(c, "reload")
  /\ IF source # Missing /\ module # Missing
     THEN Moves(c, [op |-> "reload", at |-> "onDisable", prev |-> module.version,
                    loaded |-> Missing])
     ELSE UNCHANGED ongoing
  /\ UNCHANGED <<source, bundle, required, module, record, data, bounds, histories>>

-----------------------------------------------------------------------------
\* onDisable settles: the module leaves the registry.  A reload goes on to
\* remove the compiled output, and to forget what was required.
OnDisableSettles(c) ==
  /\ ongoing[c].at = "onDisable"
  /\ module' = Missing
  /\ \/ ongoing[c].op = "disable" /\ Awaits(c, "dashboard") /\ skewed' = FALSE
     \/ ongoing[c].op = "disableAll" /\ Ends(c) /\ skewed' = FALSE
     \/ ongoing[c].op = "reload" /\ Awaits(c, "rm") /\ UNCHANGED skewed
  /\ UNCHANGED <<source, bundle, required, record, data, timer, bounds, raced, overtaken>>

\* As a bug would have it: the bundle is left to the compiler, which may find it new enough.
Bug_OutputKept(c) ==
  /\ ongoing[c].at = "rm"
  /\ required' = Missing
  /\ IF module = Missing THEN Awaits(c, "load") ELSE Ends(c)
  /\ UNCHANGED <<source, bundle, module, record, data, timer, bounds, raced, histories>>

OutputRemoved(c) ==
  /\ ongoing[c].at = "rm"
  /\ bundle' = Missing /\ required' = Missing
  /\ IF module = Missing THEN Awaits(c, "load") ELSE Ends(c)
  /\ UNCHANGED <<source, module, record, data, timer, bounds, raced, histories>>

\* compileLocalWorker: none without a source, none when the output is newer.
Recompiles == source # Missing /\ (bundle # Missing => bundle.at < source.near)

\* The compiler reads the source, of which it makes a bundle.
Compile(c) ==
  /\ ongoing[c].at = "load" /\ Recompiles /\ source.builds
  /\ Moves(c, [ongoing[c] EXCEPT !.at = "build", !.loaded = Compiled(source)])
  /\ UNCHANGED <<source, bundle, required, module, record, data, timer, bounds, raced, histories>>

\* require() answers from its cache.
Exports(b) == IF required # Missing THEN required ELSE Compiled(b)

\* A module joins the registry.  One that another call registered meanwhile
\* stays, and this call fails.
Registers(c, m) ==
  /\ required' = m
  /\ IF module = Missing
     THEN /\ module' = m
          /\ Moves(c, [ongoing[c] EXCEPT !.at = "hooks", !.loaded = m])
     ELSE Ends(c) /\ UNCHANGED module

\* The compiler has written the bundle, newer than every file saved until now ...
LoadBuilt(c) ==
  /\ ongoing[c].at = "build"
  /\ LET m == ongoing[c].loaded
     IN bundle' = [edit |-> m.edit, version |-> m.version, at |-> edits] /\ Registers(c, Exports(m))
  /\ overtaken' = overtaken \ {c}
  /\ UNCHANGED <<source, record, data, timer, bounds, raced, skewed>>

\* ... or has left the one there is.
LoadModule(c) ==
  /\ ongoing[c].at = "load" /\ ~Recompiles
  /\ required # Missing \/ bundle # Missing
  /\ Registers(c, Exports(bundle))
  /\ UNCHANGED <<source, bundle, record, data, timer, bounds, raced, histories>>

LoadFails(c) ==
  /\ ongoing[c].at = "load"
  /\ IF Recompiles THEN ~source.builds ELSE required = Missing /\ bundle = Missing
  /\ Ends(c)
  /\ UNCHANGED <<source, bundle, required, module, record, data, timer, bounds, raced, histories>>

\* onMigrate, if the version differs, and onEnable have settled.  The version is
\* recorded unless the migration failed, and an enabling switches the flag on.
\* When one of these cannot be written the call fails, and the module stays.
HooksSettle(c) ==
  /\ ongoing[c].at = "hooks"
  /\ LET v == ongoing[c].loaded.version
         migrates == ongoing[c].prev # v
     IN \E fails \in IF migrates THEN BOOLEAN ELSE {FALSE} :
          LET kept == IF fails THEN record ELSE Installed(record, v)
          IN /\ data' = IF migrates /\ ~fails THEN v ELSE data
             /\ \/ /\ ongoing[c].op = "enable"
                   /\ record' = Switched(kept, TRUE) /\ skewed' = FALSE
                   /\ Awaits(c, "dashboard")
                \/ /\ ongoing[c].op # "enable"
                   /\ record' = kept /\ UNCHANGED skewed
                   /\ Ends(c)
                \/ /\ "store" \in WorkerFaults
                   /\ record' \in {record, kept} /\ skewed' = (skewed \/ ongoing[c].op = "enable")
                   /\ Ends(c)
  /\ UNCHANGED <<source, bundle, required, module, timer, bounds, raced, overtaken>>

\* The files are gone, the compiled ones too, and the record is dropped.
Removed(c) ==
  /\ ongoing[c].at = "remove"
  /\ source' = Missing /\ bundle' = Missing /\ record' = Missing
  /\ Awaits(c, "dashboard")
  /\ UNCHANGED <<required, module, data, timer, bounds, raced, histories>>

\* The directory is moved into place; if one is there by now, the installation
\* fails and its cleanup removes that one.
Moved(c) ==
  /\ ongoing[c].at = "move"
  /\ IF source = Missing
     THEN /\ \E v \in Versions, ok \in BOOLEAN :
               source' = [edit |-> ongoing[c].edit, near |-> ongoing[c].edit,
                          version |-> v, builds |-> ok]
          /\ record' = Remembered(record, FALSE)
          /\ timer' = HotReload
          /\ Awaits(c, "dashboard")
          /\ UNCHANGED bundle
     ELSE /\ source' = Missing /\ bundle' = Missing
          /\ Ends(c)
          /\ UNCHANGED <<record, timer, histories>>
  /\ UNCHANGED <<required, module, data, bounds, raced, histories>>

\* buildDashboardState scans the directory, then remembers what it found and
\* what is registered by then.
Scan(c) ==
  /\ ongoing[c].at = "dashboard"
  /\ Moves(c, [op |-> ongoing[c].op, at |-> "remember", found |-> source # Missing])
  /\ UNCHANGED <<source, bundle, required, module, record, data, timer, bounds, raced, histories>>

Remember(c) ==
  /\ ongoing[c].at = "remember"
  /\ record' = IF ongoing[c].found \/ module # Missing
               THEN Remembered(record, module # Missing) ELSE record
  /\ Ends(c)
  /\ UNCHANGED <<source, bundle, required, module, data, timer, bounds, raced, histories>>

\* The record cannot be written: an installation is undone, the files that a
\* deletion removed are gone, and a dashboard read fails.
Unrecorded(c) ==
  /\ "store" \in WorkerFaults
  /\ \/ ongoing[c].at = "remove" /\ source' = Missing /\ bundle' = Missing
     \/ ongoing[c].at = "move" /\ source = Missing /\ UNCHANGED <<source, bundle>>
     \/ ongoing[c].at = "remember" /\ UNCHANGED <<source, bundle>>
  /\ Ends(c)
  /\ UNCHANGED <<required, module, record, data, timer, bounds, raced, histories>>

-----------------------------------------------------------------------------
\* The author saves a file of the worker: beside the entry point or deeper.
Edit ==
  /\ source # Missing
  /\ edits < MaxEdits /\ edits' = edits + 1
  /\ \E v \in Versions, ok \in BOOLEAN, n \in {source.near, edits'} :
       source' = [edit |-> edits', near |-> n, version |-> v, builds |-> ok]
  /\ timer' = (HotReload /\ ~Booting)
  /\ overtaken' = overtaken \union {c \in Calls : ongoing[c].at = "build"}
  /\ UNCHANGED <<bundle, required, module, record, data, ongoing, started, boots, raced, skewed>>

\* The process ends, whatever is under way, and starts again: bootstrapLocalWorkers
\* loads the enabled worker before requests are served and directories watched.
Reboot(c) ==
  /\ boots < MaxBoots /\ boots' = boots + 1
  /\ required' = Missing /\ module' = Missing
  /\ timer' = FALSE /\ raced' = FALSE /\ skewed' = FALSE /\ overtaken' = {}
  /\ LET loads == source # Missing /\ record # Missing /\ record.enabled
     IN ongoing' = [d \in Calls |->
                    IF d = c /\ loads
                    THEN [op |-> "boot", at |-> "load", prev |-> record.version,
                          loaded |-> Missing]
                    ELSE AtRest]
  /\ UNCHANGED <<source, bundle, record, data, edits, started>>

LifecycleNext ==
  \/ Edit \/ \E on \in BOOLEAN : ToolSwitches(on)
  \/ \E c \in Calls :
       \/ Enable(c) \/ Disable(c) \/ Delete(c) \/ Install(c) \/ Look(c)
       \/ DisableAll(c) \/ DisableNext(c)
       \/ TimerFires(c) \/ Reboot(c) \/ OnDisableSettles(c) \/ OutputRemoved(c)
       \/ Compile(c) \/ LoadBuilt(c) \/ LoadModule(c) \/ LoadFails(c)
       \/ HooksSettle(c) \/ Removed(c) \/ Moved(c) \/ Scan(c) \/ Remember(c) \/ Unrecorded(c)

LifecycleSpec == LifecycleInit /\ [][LifecycleNext]_lifecycleVars
-----------------------------------------------------------------------------
LifecycleTypeOK ==
  /\ source \in Sources \union {Missing}
  /\ record \in Records \union {Missing}
  /\ timer \in BOOLEAN /\ raced \in BOOLEAN /\ skewed \in BOOLEAN
  /\ DOMAIN ongoing = Calls

Quiet == \A c \in Calls : ongoing[c] = AtRest

(* Whatever order requests that switch a worker on and off come in, fail,   *)
(* or are cut off by a restart, a worker that worker.state says is disabled *)
(* has no module in the registry once they have ended: enabling loads the   *)
(* module before it sets the flag, disabling clears the flag before it      *)
(* unloads (src/http/routes/workers.ts:112-137).  Not so for a hot reload   *)
(* or a deletion that overlaps them, nor, until the worker is enabled or    *)
(* disabled again, after an enabling that loaded the module and could not   *)
(* write the flag, or when a tool wrote the flag alone.                     *)
DisabledIsUnloaded ==
  Quiet /\ ~raced /\ ~skewed /\ module # Missing /\ record # Missing => record.enabled

\* The module of a call that loads is registered in this step.
Loads(c, op) ==
  ongoing[c].op = op /\ ongoing[c].at \in {"load", "build"} /\ ongoing'[c].at = "hooks"

(* A hot reload that no other call overlaps loads the source as it is, of   *)
(* whatever depth the edit was, and whatever was compiled or required       *)
(* before (src/workers/watch.ts:15), unless it is edited once more after    *)
(* the compiler has read it.                                                *)
ReloadsAreFresh ==
  [][\A c \in Calls :
       Loads(c, "reload") /\ ~raced /\ c \notin overtaken
         => source # Missing /\ module'.edit = source.edit]_lifecycleVars

(* Enabling serves an edit made, beside the entry point, while the worker   *)
(* was disabled: a change to a disabled worker "will be picked up the next  *)
(* time the operator enables it" (src/workers/watch.ts:9).                  *)
EnableServesEdits ==
  [][\A c \in Calls :
       Loads(c, "enable") /\ c \notin overtaken /\ source.near = source.edit
         => module'.edit = source.edit]_lifecycleVars

(* The version on record is one that the worker's storage was migrated to:  *)
(* a failed onMigrate "leaves the recorded installedVersion unchanged so    *)
(* the next attempt will retry it" (src/workers/bootstrap.ts:103).          *)
RecordedIsMigrated ==
  record # Missing /\ record.version # Unversioned => data = record.version
=============================================================================

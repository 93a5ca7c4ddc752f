---------------------------- MODULE LocalRuntime ----------------------------
(***************************************************************************)
(* BFrost's use of the one local model runtime of the machine (LM Studio). *)
(* Jobs and chat turns prepare the model they need, run and put things     *)
(* back, one at a time behind a first-come-first-served chain; the         *)
(* operator may pin a model that stays resident when others have run.      *)
(* A run that cannot get its model goes on to the next candidate.          *)
(***************************************************************************)
EXTENDS Naturals, Sequences

CONSTANTS
  Models,         \* ids of local models
  None,           \* no model
  ModelRuns,      \* calls of runWithModelFailover: of jobs and of chat turns
  CandidatesOf,   \* the local models each of them tries, first one first
  Pins,           \* calls of pinAndLoadModel and unpinAndUnloadModel
  PinOf,          \* the model each of them pins, or None
  RuntimeFaults   \* commands that may fail: "start", "list", "load", "unload"

ASSUME LocalRuntimeAssumption ==
  /\ None \notin Models
  /\ ModelRuns \intersect Pins = {}
  /\ CandidatesOf \in [ModelRuns -> Seq(Models) \ {<<>>}]
  /\ PinOf \in [Pins -> Models \union {None}]
  /\ RuntimeFaults \subseteq {"start", "list", "load", "unload"}

VARIABLES
  server,    \* the runtime serves
  loaded,    \* the models in its memory
  pinned,    \* the pin, as it is cached and stored
  turns,     \* localRuntimeRunQueue: the calls in it, the first one runs
  at,        \* where each call is
  tries,     \* the candidate each run is at
  run,       \* what the call at the head of the chain remembers
  meddled,   \* history: the operator used the runtime beside the chain
  failed,    \* history: a command failed, or the operator did that
  overtaken  \* history: a pin call was overtaken between its load and its store

callVars == <<server, loaded, pinned, turns, at, tries, run, failed, overtaken>>
runtimeVars == <<callVars, meddled>>

Calls == ModelRuns \union Pins
NoRun == [pin |-> None, started |-> FALSE, sole |-> FALSE, ready |-> FALSE]

RuntimeInit ==
  /\ server \in BOOLEAN /\ loaded = {} /\ pinned = None
  /\ turns = <<>>
  /\ at = [c \in Calls |-> "idle"]
  /\ tries = [r \in ModelRuns |-> 1]
  /\ run = NoRun
  /\ meddled = FALSE /\ failed = FALSE /\ overtaken = FALSE

Go(c, s) == at' = [at EXCEPT ![c] = s]
At(c, s) == at[c] = s
MayFail(f) == f \in RuntimeFaults
ModelOf(r) == CandidatesOf[r][tries[r]]

-----------------------------------------------------------------------------
(* Faulty variants of steps below, none of them part of the specification.  *)

\* the call does not wait for the one before it
Bug_JoinUnqueued(c) == turns' = turns \o <<c>> /\ Go(c, "start")

\* a turn that failed to unload is not given on
Bug_DoneKeepsTurn(r, unavailable) ==
  /\ run' = NoRun
  /\ IF run.ready THEN turns' = turns ELSE turns' = Tail(turns)
  /\ Go(r, "idle")
  /\ UNCHANGED tries

\* the pinned model is not loaded again
Bug_RestoreNoPin(r) ==
  /\ At(r, "restore")
  /\ Go(r, "stop")
  /\ UNCHANGED <<server, loaded, pinned, turns, tries, run, failed, overtaken>>

-----------------------------------------------------------------------------
(* runWithLocalRuntimeExclusive: joins the chain, gets its turn, lets go.   *)
Join(c) == turns' = Append(turns, c) /\ Go(c, "queued")

Turn(c) ==
  /\ At(c, "queued") /\ Head(turns) = c
  /\ Go(c, "start")
  /\ UNCHANGED <<server, loaded, pinned, turns, tries, run, failed, overtaken>>

(* runWithModelFailover, runWithPreparedModel: a run asks for the runtime.  *)
StartRun(r) ==
  /\ r \in ModelRuns /\ At(r, "idle")
  /\ Join(r)
  /\ tries' = [tries EXCEPT ![r] = 1]
  /\ UNCHANGED <<server, loaded, pinned, run, failed, overtaken>>

(* The section is over; one that could not prepare its model is tried again *)
(* with the next candidate, behind those who wait by now.                   *)
Done(r, unavailable) ==
  /\ run' = NoRun
  /\ IF unavailable /\ tries[r] < Len(CandidatesOf[r])
     THEN /\ tries' = [tries EXCEPT ![r] = @ + 1]
          /\ turns' = Append(Tail(turns), r) /\ Go(r, "queued")
     ELSE /\ turns' = Tail(turns) /\ Go(r, "idle")
          /\ UNCHANGED tries

(* runWithPreparedLocalRuntimeModel: the pin is read once, then the runtime *)
(* is started, ...                                                          *)
Prepare(r) ==
  /\ r \in ModelRuns /\ At(r, "start")
  /\ \/ /\ server' = TRUE
        /\ run' = [run EXCEPT !.pin = pinned, !.started = ~server]
        /\ Go(r, "list")
        /\ overtaken' = (overtaken \/ \E p \in Pins : at[p] = "store")
        /\ UNCHANGED failed
     \/ /\ MayFail("start")
        /\ run' = [run EXCEPT !.pin = pinned]
        /\ Go(r, "finally") /\ failed' = TRUE
        /\ UNCHANGED <<server, overtaken>>
  /\ UNCHANGED <<loaded, pinned, turns, tries>>

(* ... what is loaded is looked at (if that fails, it is nothing), ...      *)
List(r) ==
  /\ At(r, "list")
  /\ \E seen \in {loaded} \union (IF MayFail("list") THEN {{}} ELSE {}) :
       /\ run' = [run EXCEPT !.sole = (seen = {ModelOf(r)})]
       /\ Go(r, IF seen = {ModelOf(r)} THEN "run" ELSE "unloadAll")
  /\ UNCHANGED <<server, loaded, pinned, turns, tries, failed, overtaken>>

(* ... everything is unloaded, which restarts the runtime and does not mind *)
(* if that fails, and the model is loaded.                                  *)
UnloadAll(r) ==
  /\ r \in ModelRuns /\ At(r, "unloadAll")
  /\ \/ /\ loaded' = {} /\ Go(r, "load")
        /\ server' \in {TRUE} \union (IF MayFail("start") THEN {FALSE} ELSE {})
        /\ failed' = (failed \/ ~server')
     \/ /\ MayFail("unload")
        /\ Go(r, "finally") /\ failed' = TRUE
        /\ UNCHANGED <<server, loaded>>
  /\ UNCHANGED <<pinned, turns, tries, run, overtaken>>

LoadModel(r) ==
  /\ r \in ModelRuns /\ At(r, "load")
  /\ \/ loaded' = loaded \union {ModelOf(r)} /\ Go(r, "run") /\ UNCHANGED failed
     \/ MayFail("load") /\ Go(r, "finally") /\ failed' = TRUE /\ UNCHANGED loaded
  /\ UNCHANGED <<server, pinned, turns, tries, run, overtaken>>

(* The job or the chat turn is over, well or not.                           *)
RunEnds(r) ==
  /\ At(r, "run")
  /\ run' = [run EXCEPT !.ready = TRUE]
  /\ Go(r, "finally")
  /\ UNCHANGED <<server, loaded, pinned, turns, tries, failed, overtaken>>

(* The finally block.  A failure to unload skips the rest of it.            *)
Finally(r) ==
  /\ At(r, "finally")
  /\ LET unloads == run.ready /\ ~run.sole /\ run.pin # ModelOf(r)
     IN \/ /\ loaded' = IF unloads THEN loaded \ {ModelOf(r)} ELSE loaded
           /\ Go(r, "restore")
           /\ UNCHANGED <<turns, tries, run, failed, overtaken>>
        \/ /\ unloads /\ MayFail("unload")
           /\ Done(r, FALSE) /\ failed' = TRUE
           /\ UNCHANGED loaded
  /\ UNCHANGED <<server, pinned, overtaken>>

(* The model that was pinned when the run began is loaded again.            *)
Restore(r) ==
  /\ At(r, "restore")
  /\ LET restores == run.pin \notin {None, ModelOf(r)}
     IN \/ /\ loaded' = IF restores THEN loaded \union {run.pin} ELSE loaded
           /\ UNCHANGED failed
        \/ restores /\ MayFail("load") /\ failed' = TRUE /\ UNCHANGED loaded
  /\ Go(r, "stop")
  /\ UNCHANGED <<server, pinned, turns, tries, run, overtaken>>

(* The runtime is stopped by the run that started it, unless it is pinned.  *)
Stop(r) ==
  /\ At(r, "stop")
  /\ server' = (server /\ ~(run.pin = None /\ run.started))
  /\ Done(r, ~run.ready)
  /\ UNCHANGED <<loaded, pinned, failed, overtaken>>

-----------------------------------------------------------------------------
(* pinAndLoadModel: the model is loaded in a turn of the chain ...          *)
PinLoad(p) ==
  /\ PinOf[p] # None /\ At(p, "idle")
  /\ Join(p)
  /\ UNCHANGED <<server, loaded, pinned, tries, run, failed, overtaken>>

PinSection(p) ==
  /\ p \in Pins /\ PinOf[p] # None /\ At(p, "start")
  /\ server' = TRUE
  /\ loaded' = {PinOf[p]}
  /\ turns' = Tail(turns) /\ Go(p, "store")
  /\ overtaken' = (overtaken \/ \E q \in Pins : at[q] = "store")
  /\ UNCHANGED <<pinned, tries, run, failed>>

PinSectionFails(p) ==
  /\ p \in Pins /\ PinOf[p] # None /\ At(p, "start")
  /\ RuntimeFaults # {}
  /\ loaded' \in {loaded, {}}
  /\ turns' = Tail(turns) /\ Go(p, "idle")
  /\ failed' = TRUE
  /\ UNCHANGED <<server, pinned, tries, run, overtaken>>

(* ... and the pin is stored when that is over.                             *)
StorePin(p) ==
  /\ At(p, "store")
  /\ pinned' = PinOf[p]
  /\ Go(p, "idle")
  /\ UNCHANGED <<server, loaded, turns, tries, run, failed, overtaken>>

(* unpinAndUnloadModel: the pin is cleared, then all models are unloaded.   *)
ClearPin(p) ==
  /\ PinOf[p] = None /\ At(p, "idle")
  /\ pinned' = None
  /\ Join(p)
  /\ overtaken' = (overtaken \/ \E q \in Pins : at[q] # "idle")
  /\ UNCHANGED <<server, loaded, tries, run, failed>>

UnpinSection(p) ==
  /\ p \in Pins /\ PinOf[p] = None /\ At(p, "start")
  /\ \/ loaded' = {} /\ UNCHANGED failed
     \/ MayFail("unload") /\ failed' = TRUE /\ UNCHANGED loaded
  /\ turns' = Tail(turns) /\ Go(p, "idle")
  /\ UNCHANGED <<server, pinned, tries, run, overtaken>>

-----------------------------------------------------------------------------
RunStep(r) ==
  \/ Prepare(r) \/ List(r) \/ UnloadAll(r) \/ LoadModel(r) \/ RunEnds(r)
  \/ Finally(r) \/ Restore(r) \/ Stop(r)
PinStep(p) == PinSection(p) \/ PinSectionFails(p) \/ StorePin(p) \/ UnpinSection(p)

CallStep ==
  \/ \E c \in Calls : Turn(c)
  \/ \E r \in ModelRuns : StartRun(r) \/ RunStep(r)
  \/ \E p \in Pins : PinLoad(p) \/ ClearPin(p) \/ PinStep(p)

(* POST /api/local-runtime: the operator starts or stops the runtime, loads *)
(* or unloads a model or unloads all of them, whoever is using it.  (Bound: *)
(* once, and not after another failure.)                                    *)
Operator ==
  /\ ~failed
  /\ \/ server' \in BOOLEAN /\ UNCHANGED loaded
     \/ \E m \in Models : loaded' = loaded \union {m} /\ server' = TRUE
     \/ loaded' \in {{}} \union {loaded \ {m} : m \in Models} /\ UNCHANGED server
  /\ failed' = TRUE
  /\ UNCHANGED <<pinned, turns, at, tries, run, overtaken>>

RuntimeNext ==
  \/ CallStep /\ meddled' = (meddled /\ turns' # <<>>)
  \/ Operator /\ meddled' = (turns # <<>>)

(* The commands have timeouts and the work of a run is bounded.             *)
RuntimeFairness ==
  /\ \A c \in Calls : WF_callVars(Turn(c))
  /\ \A r \in ModelRuns : WF_callVars(RunStep(r))
  /\ \A p \in Pins : WF_callVars(PinStep(p))

RuntimeSpec == RuntimeInit /\ [][RuntimeNext]_runtimeVars
FairRuntimeSpec == RuntimeSpec /\ RuntimeFairness

-----------------------------------------------------------------------------
RuntimeTypeOK ==
  /\ server \in BOOLEAN /\ loaded \subseteq Models
  /\ pinned \in Models \union {None}
  /\ turns \in Seq(Calls)
  /\ at \in [Calls -> {"idle", "queued", "start", "list", "unloadAll", "load", "run", "finally",
                       "restore", "stop", "store"}]
  /\ tries \in [ModelRuns -> Nat \ {0}]
  /\ meddled \in BOOLEAN /\ failed \in BOOLEAN /\ overtaken \in BOOLEAN

(* "Chat and jobs never race for the GPU": while a run uses its model that  *)
(* model is loaded and no other one takes its memory, unless the operator   *)
(* meddles.                                                                 *)
ModelAlone == ~meddled => \A r \in ModelRuns : At(r, "run") => loaded = {ModelOf(r)}

(* "The prep machinery restores the pinned model so it stays resident       *)
(* afterward": when no call is under way the pinned model is loaded and the *)
(* runtime is up, unless a command failed or the operator undid it.         *)
PinSticky ==
  ~failed /\ (\A c \in Calls : at[c] = "idle") /\ pinned # None
    => server /\ pinned \in loaded

(* The same, but a pin call that has loaded its model and not yet stored it *)
(* has not been overtaken by a run, by another pin call, or by a call that  *)
(* clears the pin.                                                          *)
PinResident == ~overtaken => PinSticky

(* A turn at the runtime comes, whatever those before it ran into.          *)
TurnsCome == \A c \in Calls : At(c, "queued") ~> ~At(c, "queued")
=============================================================================

# BFrost in TLA+

BFrost is a personal automation server in TypeScript: workers (plug-ins, built in or
local) bring jobs that run on schedules, on demand, when the work of another job opens
work for them, or when an item is published for them. One Node process, one SQLite
database, one dashboard. This directory models the parts of it whose correctness depends
on the order in which things happen, checks them with TLC on small instances, and proves
the most important properties with TLAPS for all instances.

Paths below are relative to the repository (`src/scheduler.ts` is the scheduler).

1. [The system](#1-the-system)
2. [Modules and plan](#2-modules-and-plan)
3. [The models](#3-the-models)
4. [What is proved](#4-what-is-proved)
5. [Where code and comments disagree](#5-where-code-and-comments-disagree)
6. [What is not modelled](#6-what-is-not-modelled)
7. [Running the checks](#7-running-the-checks)

## 1. The system

The concurrency is that of one event loop: code between two `await`s is one step, and at
every `await` anything else may happen. On top of that there are a second process on the
same files (`npm run task`, a second start of the server), the operator at the dashboard,
handlers that outrun their deadline and go on executing, and processes that die.

| Component | State it keeps | Operations | Talks to | What is hard | What makes it correct |
|---|---|---|---|---|---|
| Job execution pool (`scheduler.ts` 204-331) | worker locks with their queues, slots with their queue, the limit | enqueue, release | runJob | lock before slot, direct hand-over, a limit that shrinks under it | serial within a worker, within the limit, no waiter forgotten |
| Job run lifecycle (`scheduler.ts` 1149-1700) | queued and running flags in `runtimeCache`, `abandonedJobRuns` | runJob, triggerJobNow, executeQueuedJob with retries and timeouts, records of slots | pool, run ledger, handlers | check and claim across awaits, orphans, writes of flags by several actors, failing writes | no job twice at once, flags that mean what they say, nothing leaked |
| Event wakes (`scheduler.ts` 590-705, `jobs/item-bus.ts`) | requested and handled versions, timers per job | publish, wake, schedule the next wake | runJob, Item Bus | items published while a pass of the job runs | every item meets a pass that begins after it |
| Pipeline tick (`scheduler.ts` 406-470, 716-809) | tick in flight, one queued follow-up, kick and sweep timers | tick, kick, interval, boot sweep, start (with awaits), stop | hasWork, runJob | requests in the middle of a tick, a stop in the middle of a start | no request dropped, chains of work advance, no tick once stopped |
| Scheduled slots (`scheduler.ts` 834-1135, `scheduler-locks.ts`, `cron-internals.ts`) | claims in `scheduler_execution_locks`, cron tasks, skipped records | fire, missed report, catch-up at boot, reload | cron library, runJob, run ledger | sleep, restarts, windows of time, claims that outlive the process | each slot run at most once and none passed over in silence |
| Runtime lock (`runtime-lock.ts`, `index.ts`) | one row with a pid | acquire, release, heartbeat | operating system | races of starts, stale rows, reused pids | one backend |
| Restore (`app-backup.ts` 149-322, `sqlite.ts`) | marker, staging copy, kept copy, database and log files | schedule, apply at startup, cancel | SQLite | a cut at any step, failing file operations | the database is whole, old or new |
| Queue lock (`jobs/queue.ts` 789-920) | lock file, its age, a promise chain per process | with lock, break a stale one, clear at boot | file system | unlink by path, two processes, slow bodies | one body at a time |
| Permissioned actions (`actions/`) | rows of requests, the events | request, decide, wait, execute, record | operator, file system, shell | a decision racing a deadline, a death while waiting, failing records | nothing unapproved is done, what was done is recorded |
| Run ledger (`scheduler-runs.ts`, `http/routes/config.ts`) | one document of 200 records, a promise chain | start, attempt, finish, miss, dismiss, recover, abandon at boot | scheduler, dashboard | load-change-save of one document by many, recovery racing a new miss | what was dismissed stays away, what nobody dealt with stays, running means running |
| Local runtime (`job-runner.ts`, `local-model-pin.ts`) | a promise chain, the pinned model | run with a model, pin, unpin | provider processes | pin written outside the exclusive section, failures in the `finally` block | one user of the runtime, the pinned model stays, every turn comes |
| Item Bus rows (`jobs/queue.ts`, `jobs/item-bus.ts`, `jobs/queue-service.ts`) | rows of items, read cache with a generation | publish, approve, reject, post, fail, reap | workers, dashboard | whole-table saves of old copies, a post whose outcome is lost, a cache filled from a read that a write overtook | no change undone, nothing posted that is not due, readers see every write |
| Worker lifecycle (`workers/bootstrap.ts`, `watch.ts`, `loader.ts`, `build.ts`, `state.ts`, `http/routes/workers.ts`, `admin-worker-ops.ts`) | registry, require cache, compiled bundles, `worker.state` | install, enable, disable (one, or all), delete, hot reload, migrate, scan | loader, compiler, hooks, dashboard | requests, reloads and restarts that meet in awaits of hooks and compiler; three caches of one source | what is disabled is not loaded, what is loaded is the source as it is, what is recorded happened |
| News digest (`workers/builtin/news/job.ts`) | `seenUrls` of the worker, its rows on the bus | run | search, model, Item Bus | minutes without a lock between reading what is known and the merge | an article is filed once, and not again |
| Chat (`channel.ts`, `agent.ts`, `conversation.ts`, `chat-threads.ts`) | the list of threads and the histories, each one document | send, answer, start anew, delete, hydrate | models, dashboard, Telegram | minutes between a question and its answer, in which the thread goes on, is cleared or deleted; two writes of one change | what was asked is what is answered, answers stay, no history that nothing can reach |
| Dashboard data (`web/src/app-shell/useDashboardData.ts`) | slices of the workers in the browser, requests in flight, gathered events | event, gather, fetch, merge, reconnect, hide, show | event stream, dashboard API | requests that overlap, wait for and join each other; events lost or dropped | when nothing is under way, what is shown is current |
| Schedule reload, backups, settings, process faults | reload in flight; files, one JSON value each, one flag | reload; create, prune; load-change-save; clean up once | - | little: only microtasks between their steps | no request or update lost |

Everything else (HTTP routing and views, channels, providers, the other built-in workers,
scaffolding, presentation) is listed with its reason in section 6.

## 2. Modules and plan

```
SerialWorkers  <=refines=  JobPool  <=EXTENDS=  Scheduler        (pool, and the life of a run in it)
BusWake        PipelineTick        SlotLedger                    (three of the ways a run comes about)
RunLedger                                                        (what is remembered of runs)
LocalRuntime                                                     (the model a run needs)
QueueLock      <=EXTENDS=  ItemBus     ReadCache   NewsDigest    (items, and those who change and read them)
RuntimeLock    Restore                                           (processes and files)
WorkerLifecycle                                                  (what a worker is at the moment)
Approvals      Conversations   DashboardData                     (what the operator decides, says and sees)
```

`Scheduler` composes with `JobPool` and `ItemBus` with `QueueLock`: each EXTENDS the other
module, and its steps contain the steps of that module which the code takes in the same
tick. `BusWake`, `PipelineTick` and `SlotLedger` take a run as few steps, with the guards of
`runJob`, since what they are about is who asks for a run and what happens to the request.

Modules that share no variable are checked side by side in one run: an MC module EXTENDS
all of them and has a variable `part`, chosen at the start, that says which one moves while
the others keep their initial states. TLC then explores the sum of their state spaces and
not the product. A property of one of them holds of a behaviour in which its module does
not move for a reason its initial state shows, and fairness is stated of each module's own
variables, whose steps are disabled or no change while another part moves. In
`MCRecords`, identities that are interchangeable are used in one order only (of two free
handlers or calls the first is taken, the first point in time is that of job `j1`), which
leaves out nothing but the same behaviours under other names.

| Run | MC module | Parts |
|---|---|---|
| `pool`, `pin_overtaken` | `MCJobPool` | JobPool, LocalRuntime, RuntimeLock |
| `sched_guard`, `sched_live`, `sched_no_work_overlap` | `MCScheduler` | Scheduler |
| `events` | `MCEvents` | BusWake, PipelineTick |
| `runtime_restore` | `MCRuntimeLock` | RuntimeLock |
| `queue` | `MCItemBus` | ItemBus, ReadCache, Restore, DashboardData |
| `records` | `MCRecords` | SlotLedger, RunLedger, Approvals, WorkerLifecycle, NewsDigest, Conversations |
| `worker_enable_edits`, `worker_migration_retry` | - | WorkerLifecycle |
| `dashboard_crossing` | - | DashboardData |

A module also holds plausible bugs (`Bug_...`), no part of its specification, each of which
breaks a property of a run. The theorems are in modules of their own:

| Module | Theorems about |
|---|---|
| `JobPoolProofs` | JobPool, and how it implements SerialWorkers |
| `SchedulerProofs` | Scheduler; EXTENDS JobPoolProofs |
| `EventProofs` | BusWake, PipelineTick |
| `RuntimeProofs` | RuntimeLock, LocalRuntime |
| `ItemBusProofs` | QueueLock, ItemBus |
| `DataProofs` | ReadCache, Restore, DashboardData |
| `RecordProofs` | SlotLedger, RunLedger, NewsDigest |
| `OperatorProofs` | Approvals, WorkerLifecycle, Conversations |

Written, in this order, the most important behaviour first: pool and its abstraction; run
lifecycle; wakes; tick; runtime lock; restore; queue lock; slots; actions; rows of the bus
and their cache; local runtime; run ledger; worker lifecycle; news digest; chat turns; the dashboard's data.

Still to come, in this order:

1. Abstractions: a register that `ReadCache` implements, a mutex with one resident model
   that `LocalRuntime` implements, a slot register that `SlotLedger` implements.
2. `RunLedger` composed with the stages of `Scheduler` that write it.

## 3. The models

Faults are values of a constant `Faults`, so a run says which of them occur. A step of the
event loop is an action; an `await` is the end of one. Every counter is bounded by a
constant whose comment says *bound*.

Some promises of the code hold until one particular thing happens, and section 5 says what
happens then. A history variable tells the two apart, and its comment lists what clears or
sets it: `unharmed` (BusWake), `calm` (PipelineTick, QueueLock, ItemBus), `failed` (Restore,
LocalRuntime), `cutShort` (PipelineTick), `lost` (SlotLedger), `spoilt` and `unchecked`
(Approvals), `troubled` (RunLedger), `meddled` and `overtaken` (LocalRuntime), `raced`,
`skewed` and `overtaken` (WorkerLifecycle), `strayed` (Conversations), `missed`
(DashboardData). No guard reads one, but for
`failed` in LocalRuntime, which bounds how often the operator meddles. The model goes on after the thing
has happened, and the properties that mention no history variable hold there as well.

### SerialWorkers, JobPool

`pc[r]` says how far the call `r` of `enqueueJobExecution` is; the other variables have the
names of the code. `Enqueue` is the call up to its first await (the lock is taken or queued
for), `AcquireJobSlot` the part between the two awaits, `Finish` the `finally` blocks:
work ends, slot released (handed to the first waiter unless the limit shrank), worker lock
handed on. `SetLimit` is the operator's change of `jobMaxConcurrency`. `SerialWorkers` is
what the pool promises: each worker's calls are served one at a time and in order of
arrival, and no step starts a call above the limit.

* `pool` (5 calls, 3 of one worker, limits 1-3 changed at any time): the refinement
  `ImplementsSerialWorkers`, and under fairness `EveryRunStarts`. Three calls of one worker
  are the least for which a queue behind the holder has two members; three workers are the
  least for which the slot queue fills while slots are taken by others. A raised limit wakes
  nobody before the next release, so a call may wait beside a free slot; it is only never
  forgotten (`NoStall`, proved). The pool's books (`PoolAccounted`) are proved, section 4.

### LocalRuntime

`turns` is the promise chain `localRuntimeRunQueue`, `at` where each call is in
`runWithPreparedLocalRuntimeModel`, `pinAndLoadModel` or `unpinAndUnloadModel`, one stage
for each awaited command; `run` is what the call at the head keeps in its local variables.
Each command may fail, the `finally` block puts back what the code puts back, and a run
that could not prepare its model joins the chain again with its next candidate. `Operator`
is `/api/local-runtime`, whose start, stop, load and unload bypass the chain. Part of run
`pool`, with two runs (one with two candidates, the second of which is the other's only
one), a call that pins and one that unpins:

* `ModelAlone`: while a run uses its model, exactly that one is loaded, unless the operator
  meddled while a call was under way.
* `PinResident`: when nobody is under way the pinned model is loaded and the runtime up,
  unless a command failed or the pin call was overtaken between its load and its store, by
  a run or by another call that pins. `pin_overtaken` shows that case (section 5).
* `TurnsCome`: every call in the chain gets its turn, whatever failed before it.

### Scheduler

Every trigger is a process with a `stage`, one for each await on its way: the check of the
worker's state, `hasWork`, the writes of `markJobQueued`, the pool, the writes at the
start, the handler against its deadline, the pause before a retry, the record, the last
writes. `cache` is `runtimeCache`, `abandoned` and `orphans` are the handlers that outran
their deadline. `Claim` is the synchronous part after the last guard. A slot record
(`RecordSkipped`, no work) writes the flags without being the owner of the run, exactly as
the code does.

* `sched_guard` (two triggers of one job, one of a sibling, one of another worker; missed
  slots, deadlines, failing writes, a limit that changes): `NeverTwice`, and whichever
  write fails, a trigger that is over holds neither slot nor lock (`NothingLeaked`).
* `sched_live` (manual and scheduled triggers, deadlines, records at boot): the flags mean
  what they say (`FlagsAreLive`: `RunningIsLive`, `QueuedIsLive`), handlers of one worker
  that keep their deadline never overlap (`SerialHandlers`), and `EveryClaimEnds`.
* `sched_no_work_overlap`: `NeverTwice` fails when a scheduled slot finds no work
  (section 5).

Two attempts are the least that has a retry, one orphan the least that blocks a job, and
two runs of one job the least that race. What the two passing runs leave out of each other
is what section 5 is about: scheduled slots write over the flags of others, a failing write
leaves a flag behind.

### BusWake

`requested` and `handled` are the versions of `busWakeRequestedVersion` and
`busWakeHandledVersion`; `waiting` is what the latch is for: an item that no pass has read.
A wake reads the version, awaits settings and worker, and calls `runJob`; whoever runs the
job schedules the next wake when it ends. Part of run `events`:

* `ItemNotForgotten`, an invariant: in a calm history an item that waits has a timer, a wake
  or a pass that will see it, whatever else runs the job. `WakesDeliver`: then the wakes
  alone get it read. Calm means no deadline missed, no write failed, nothing disabled.
* `TickDelivers`: after any of those the interval of the tick gets it read, unless the job
  stays disabled or its orphan never settles.

Two wakes at a time and two items cover an item before, during and after a pass; the
third process is a run of another trigger.

### PipelineTick

A tick checks the jobs in the order of `knownJobs`, calls `runJob` for those with work and
waits for them. `queued` is `pipelineTickQueued`; `kick`, `sweep` and `interval` are the
timers. `startScheduler` marks the scheduler started (`StartScheduler`), awaits four steps,
and sets the timers (`StartTimers`) without another look at `started`; nor does the
callback of the interval look at it. `starting` counts the starts in their awaits, two of
them at the most (`Starts`): a second one begins when a stop came during the first. Part of
run `events` (a chain of three jobs whose order in `knownJobs` is not that of the chain; at
most two accidents, the least for one accident to meet another):

* `Cascades`: in a calm history (no tick throws, no manual run, no missed deadline) kicks
  and the one follow-up carry work down the chain without the interval. A job that is in flight
  on somebody else's behalf when the tick comes to it is passed over, which is why manual
  runs end the calm.
* `PickedUp`: what the kicks miss, the interval picks up, while the scheduler is started.
* `NoTickAfterStop`: no tick begins on a stopped scheduler, though one was queued behind a
  tick that settles after the stop. A stop during the awaits of a start is excepted
  (`cutShort`, section 5).

### RuntimeLock

`row[f]` is the owner's pid in database file `f` (a restore makes a new file, and who has
the old one open keeps it), `state` where each process is in `acquireRuntimeLock`: insert,
select, look whether the owner lives, delete, insert again. Pids are reused, also by other
programs; what a process had read is gone with it. The heartbeat is left out: nobody reads it. Part of run `pool` (three
processes, one restore): `OneOwnerPerFile`, and `Takeover`: where one process alone
starts there will be an owner, whatever row a crash or a restored backup left, unless it ends
or another comes up. Three processes
are the least for which two race for the row of a third. `runtime_restore`: `OneOwner`
fails when the file is replaced.

### Restore

One action per file operation of `applyPendingRestore`, in order: marker, verify, keep the
old database, stage, verify again, remove the log, rename, remove the marker, open. A copy
that is cut off is `torn`. `Open` is SQLite's recovery: a log of another database, or one
beside a torn file, leaves it torn. As part of run `queue`, TLC cuts startup and program off up to three
times (one cut in each of the copies and one at the swap), with a backup that may rot and
operations that may fail:

* `DatabaseIntact`: the database is whole (`NeverPartial`) and has no foreign log
  (`OwnLog`), wherever startup is cut off.
* `OutgoingSafe`: an abandoned restore leaves a database that was closed properly as it was
  (`AbortLeavesAll`), and one that is neither cut off nor fails keeps the old database
  (`OutgoingKept`).
* `RestoreSettled`: in the end the restore is done, or was given up for a reason.

### QueueLock, ItemBus

A caller first joins the promise chain of its process, then creates the file, or looks at
its age, then at its owner, removes it and tries again, or polls until a deadline. `age` is
`"old"` past LOCK_STALE_MS. `ItemBus`
adds what the bodies under the lock do to the rows: a producer inserts one, the dashboard
and the publisher load all, change a copy and replace the table by it, the reaper deletes.
`copy` is the caller's array, `about` the rows it changes on purpose, `sent` a history of
what X has published. Rows expire at any time, a save may throw, X may take a post and
answer with an error. The publisher passes over items that are too old
(`eligibilityWindowHours`) and ranks the rest: in the model it may choose any that is due,
or none.

Part of run `queue`: a backend with two calls (dashboard or producer; reaper), which starts
beside the task or without it and may be killed, as may the task with its publisher, over
one row with one attempt. Two calls of a process are what the chain needs, the task is what races the file,
and one row is enough for a lost update of it: a copy of the others is as old as its copy.

* `Exclusive`: one body at a time in a calm history: no backend boots beside a live
  process, no living owner's file becomes old. With one task there are never two processes
  that break the file of a third; that case is in section 5.
* `NoLostUpdate`: replacing the table changes, of the rows its caller is not about, only
  expired ones, in a calm history. What the caller decided about a row it decided from the
  row as it still is.
* `PostsAreDue`: what goes to X is due and approved in the table at that moment, and was not
  published before, unless the record of that never reached the table.
* `EveryCallEnds` holds in every history.

### ReadCache

`read` is `inFlightRead` with the generation compared to the present one (generations are
only ever compared for equality), `cached` the cached array; rows are `fresh` if they have
every write. A writer empties the cache before its first await, its statement runs later;
statements run in the order in which they were asked for, which `ahead` keeps. A part of
run `queue` with two readers and two writers, the least for which one read is joined and
another is overtaken: `CacheFresh`, what the cache holds has every write of its process. A
write of another process (`npm run task`) does not empty the cache; what the dashboard
shows then is old until the next write, and no comment says otherwise.

### SlotLedger

Time is a number, in the instance with a unit of 16 hours: the look-back of 48 hours is 3,
the base window of 26 hours is 1. `Slots` are the matches of one cron expression. A handler takes a
slot from `fire`, a missed report or boot, awaits, claims it in `locks`, awaits, and runs
or records it. The claim survives the process. The overlap report of the cron library is
left out: the callback returns at once, so the library never finds one. Part of run
`records`, with a job whose gaps are shorter than the look-back, exactly as long, and as wide
as those of a weekly job; crashes, sleep, reloads, settings on and off:

* `NeverRunTwice`.
* `NoSlotDropped`: a task passes no slot over in silence that the look-back reaches from the
  slot that follows (`Near`: the gap is shorter than the look-back).
* `BootRecovers`: a start takes up the slot that elapsed last, within the 26 hours that every
  job has, and within the wider window of a job whose slots are `Near`.

Of a slot that is not `Near` both fail on this instance, at a gap of exactly the look-back
and at a wider one (section 5). Five slots and a horizon of ten let a slot be reported late,
found again by boot and fall out of the window. Two handlers are two claims at a time, the
most that a report and boot need to race.

### Approvals

`row` is the state in `action_requests`, `stage` where the primitive is, `decision` what
the operator said, `effect` what happened outside, `audit` the events. `Announce`, `Record`
and `LogOutcome` are steps of their own, since a process can die and a write can fail
between them. A read that fails before its request is filed leaves no trace and is left
out; commands are taken to end. The permissions of a worker are looked up in the registry
when it asks: a worker that was disabled, reloaded or deleted while its run goes on is not
there (`unlisted`; `Unlist`, `Relist`), and passes for one without permissions in its
manifest. Its part of run `records` has a worker with such permissions, which makes a read
and three writes (one outside its scopes, one with nothing to change), and one without,
which runs a command; any two of the five requests come in one behaviour (a crash and the
registry are all that they share), with every fault: `NeverUnapproved` (an action outside
its worker's scopes begins only if the registry did not have the worker when it asked,
`unchecked`); `RecordsTrue`: rows tell the truth (`TruthfulRow`) and
outcomes reach row and log (`OutcomeAudited`), of requests that are not `spoilt` by a write
the database refused or a command that could not be started.

### RunLedger

`calls` is the promise chain `runStoreOperations`: the call at its head loads the document,
then saves it; `Rewritten` is what each operation makes of the records it loaded, `Answer`
what its caller does next. A slot that is skipped (its job was busy, had no work, or still
ran when the slot was found missed) gets a record that says running by one operation and
has it closed by another (`SkipSlot`, `CloseSkip`; `skips` are the ones in between). A
record is identified by the time of its start, and newer ones
push the oldest out (`Newest`). Part of run `records`: two jobs, two records kept, three
points in time for runs and missed slots, two operations waiting at a time; the process may
be killed and an operation may throw. Two records are the least of which one pushes the
other out, two jobs the least for which one is recovered and the other busy.

* `StaysDismissed`: an entry that the operator dismissed never comes back.
* `RunningIsLive`: once the process is up, a record that says running is of a run of it, or
  of a skipped slot that is about to be closed, unless an operation of the store failed
  (`troubled`).
* `MissKept`: a missed slot leaves the list when it is dismissed, when a recovery has queued
  its job, or when newer records fill the document.

### WorkerLifecycle

One local worker and what stands for it in five places: the source in its directory, the
compiled bundle, the module that `require` has cached, the module in the registry, and the
record in `worker.state`; `data` is the version its storage was migrated to. Requests and
hot reloads are calls with a place `at` for each await (the move of a directory, the
compiler, a hook, the scan for the dashboard). An edit is a number, which is also the time
at which the file is saved; `near` is the last one of a file beside the entry point, the only
ones the compiler compares. It reads the source at one step (`Compile`) and writes the bundle
at a later one (`LoadBuilt`), in which the module is registered; `bundle.at` is the time of
the bundle, so an edit saved in between is older than it. The other switches are there too:
`DisableAll`, which reads who is enabled and then disables one after another, and the tools
of the control worker, which write the flag and neither load nor unload (`ToolSwitches`). A
write of `worker.state` may fail (`WorkerFaults`). Part of run
`records`: two calls at a time, three in a behaviour, two edits, one restart, two
versions, sources that do or do not build. Two edits are an old and a new source; three
calls are install, enable and one that interferes.

* `DisabledIsUnloaded`: when the calls have ended, a worker that is recorded disabled is not
  in the registry. Not so after a reload or a deletion that overlapped another call
  (`raced`), nor when an enabling could not write the flag or a tool wrote it alone
  (`skewed`, section 5).
* `ReloadsAreFresh`: a reload that no other call overlaps loads the source as it is,
  whatever was compiled or required before, unless the source is edited while it is compiled
  (`overtaken`, section 5).
* `worker_enable_edits` and `worker_migration_retry` check, with one call at a time, two
  sentences of comments, which fail (section 5).

### NewsDigest

An article stands for its canonical URL. A run reads `seenUrls`, then the bus, works
for minutes without the lock (`slow`), and merges under it: rows first, then `seenUrls`.
`known` is what it read at first, `old` a history of what had been settled when it began.
Another producer files articles, rows are deleted, entries of `seenUrls` grow old. Part of
run `records`: two runs at a time (one outlived its deadline, or is of `npm run task`), three
articles of which two have one title, one of another producer on the bus at a time; saves
may throw and the process of a run may be killed.

* `FiledOnce`: digests that overlap or are cut off have one row an article between them
  (`OneRowPerArticle`), and what a digest filed does not come back in one that began after
  it ended, though the row has gone since (`NotFiledAgain`).

### Conversations

A turn is a call of `processChannelMessage`: `Send` is its part before the first await
(thread, question, prompt), `Generate` the moment at which a model is given the messages,
again for the next model when one fails, `Enter` the part after the answer. `getHistory`
hands out the array of the history itself while it is short; such a prompt is `live` and
shows what other turns append meanwhile, until the array is taken out of the map. `disk` is
the two documents; `SendDies` and `DeleteDies` are deaths between their two writes. Part of
run `records`: two turns, two threads, a window of one message, so that a history outgrows
it; writes and models may fail, the process may be killed. Two turns are what overlaps, the
second thread what must not be touched.

* `NothingStranded`: a history is that of a listed thread, in memory and in the database,
  wherever the process dies: the list is written first when a thread comes and last when it
  goes. Not so for a thread deleted under a turn, or after a failed write (`strayed`).
* `TurnsAreWhole`: a model is given the question it is to answer (`AskedOfModel`); question
  and answer, once written, stay and in that order, until the thread is cleared
  (`AnswersStay`).

### DashboardData

`served` and `shown` are the slices' versions at the server and in the browser. A run
changes the slice of its worker, and emits an event that names it or nobody (`Change`); a
run of one of the `Feeders` changes the slice of another worker as well, which its event
does not name (`Feed`): `finance-news` publishes what `finance-analyst` counts. `fetch` are the
calls of `fetchSection`: waiting for the requests in `on`, or sent, with what the server has
read for them in `got`. `events` are on their way over the stream, `pending` and `timer` are
what `queueStreamSections` gathers. Part of run `queue`: two slices, three calls at a time
(one that is awaited, one that waits, one that comes between), each slice changed once;
requests fail, the stream breaks, the tab is hidden.

* `QuietIsCurrent`: when nothing is under way and the tab is open, it shows what the server
  has, whatever was gathered, dropped, lost or crossed. `missed` has the slices of which
  that is not true: no event named them, their request failed, was joined after it had read
  them, or an older answer came last.
* `dashboard_crossing`: a full answer may overwrite a newer slice (section 5).

### Fairness

Weak fairness of the steps that the event loop owes: an await resumes, a timer fires, a
handler settles or meets its deadline. A person owes nothing: no fairness of triggers,
decisions, changes of settings, starts. Nothing owes an orphan its end, and the interval is
left out of the fairness of the tick; a property that needs either says so in its
antecedent (`TickDelivers`, `PickedUp`). The lock of
the queue takes strong fairness of giving up: the deadline of the poll is a point in time,
and a caller that comes back to it again and again passes it; with `ItemBus` around it, the
bodies end, as calls of models and of X do by their timeouts. `RuntimeLock` and `Restore` take
it that startup goes on unless it is cut off, and the latter that the operator starts the
program again and, in the end, stops it. The local runtime takes it that commands, which
have timeouts, and the work of a run end. `SlotLedger`, `RunLedger`, `Approvals`,
`ReadCache`, `WorkerLifecycle`, `NewsDigest`, `Conversations` and `DashboardData` have no
liveness.

`CHECK_DEADLOCK FALSE` stands where a system may stop: `queue` (calls made, restore
settled), `records` (the horizon reached, all requests ended), `events` (the scheduler
stopped), and the small runs of `WorkerLifecycle` and `DashboardData` (calls and changes used
up).

## 4. What is proved

Each theorem holds for every value of the constants that the named assumptions of the
module allow. Assumptions in the ASSUME of a theorem are listed here.

| Theorem | Says | Beyond the module's assumptions |
|---|---|---|
| `PoolBooksCorrect`, `PoolIsSerialWithinWorker`, `PoolNeverStalls`, `PoolAdmitsWithinLimit` | the pool's accounting and safety | - |
| `PoolImplementsSerialWorkers` | the pool refines `SerialWorkers` | - |
| `SchedTypeCorrect`, `SchedNothingLeaked` | types; nothing leaked by any failing write | - |
| `SchedOneClaim`, `SchedNeverTwice`, `SchedExecutingIsBusy` | one run and one handler of a job | `FlagsKept`: no slot record writes over the flags of a run |
| `SchedFlagsAreLive` | what a job reports is a run on its way, or its orphan | `FlagsTrusted`: no write fails, and no slot is recorded as missed over an orphan |
| `SchedDrivesPool` | the runs use the pool by its own operations only | - |
| `SchedSerialHandlers` | handlers of a worker that keep their deadline never overlap | - |
| `ItemsAreNotForgotten` | an item that waits has somebody who will look at it | - |
| `NoTickOnceStopped` | no tick begins once the scheduler is stopped, unless the stop came during the awaits of a start | - |
| `OneOwnerPerFileCorrect`, `OwnerHasRowCorrect`, `LockTypeCorrect` | one backend per database file, whose row stays | - |
| `OneOwnerCorrect` | one backend | no restore |
| `RestoreIntact` | the database is whole and has its own log | - |
| `RestoreKeepsOutgoing` | a restore given up leaves what was there, one carried out without a cut or a failure keeps a copy of it | - |
| `ChainCorrect`, `QueueTypeCorrect` | the chain of a process is a queue | - |
| `OneBodyAtATime`, `HeldFileStays` | one body at a time, whose file stays | `OneBreaker`: no process is killed, or there are two, or there is one task beside backends that follow each other |
| `RowsAreBehindTheLock` | who changes the rows uses the lock by its own operations only | - |
| `NoUpdateIsLost`, `PostsGoOutDue` | nobody's change of the rows is undone, nothing is posted that is not due | `[]Exclusive`: one caller at a time has the lock |
| `RowsAreSafe` | both | `OneBreaker` |
| `SlotNeverRunTwice`, `SlotTypeCorrect` | no slot is run twice | - |
| `ClaimsAreAccounted` | a claimed slot is run, recorded or in hand, or its process died | - |
| `NoSlotPassedOver` | no slot is passed over that the look-back reaches from the next one | - |
| `BootCatchesUp` | a start takes up the slot that elapsed last, within the window of every job and, where the look-back reaches it from the next slot, within the wider one | the window of every job is below the look-back |
| `RunningRecordsAreLive` | a record that says running is of a run that is running, or of a skipped slot about to be closed | - |
| `MissesAreKept` | a miss leaves the list for three reasons only | - |
| `CacheAlwaysFresh` | readers see every write that ended | - |
| `DismissedStaysAway` | a dismissed entry never comes back | - |
| `DigestsFileOnce` | an article is filed once, and not again | - |
| `NoHistoryIsStranded` | a history is that of a listed thread | - |
| `TurnsStayWhole` | a model is given its question, an answer stays behind it | - |
| `RunHasItsModelAlone` | one model in memory while a run uses it | - |
| `PinnedModelStays` | the pinned model comes back | - |
| `DisabledWorkersAreUnloaded` | what is recorded as disabled has no module, whatever failed, unless the flag could not be written with the module or a tool wrote it alone | - |
| `ReloadsLoadTheSource` | a hot reload loads the source as it is, if it is not edited while it is compiled | - |
| `BusTypeCorrect` | types; the failed attempts of an item are `MaxAttempts` at the most, however many have the lock | - |
| `RuntimeTypeCorrect` | types; a run is at a candidate of its list, what is loaded are models | - |
| `TickTypeCorrect` | types; a tick waits for calls and runs that are there | - |
| `DashboardTypeCorrect` | types; no two requests in flight ask for the same | - |
| `WakeTypeCorrect`, `CacheTypeCorrect`, `RestoreTypeCorrect`, `NewsTypeCorrect`, `LifecycleTypeCorrect`, `ChatTypeCorrect` | types | - |
| `DashboardIsCurrent` | a tab at rest shows what the server has, of every slice whose change an event named and whose refresh did not fail, join one too late or cross an older one | - |
| `ApprovalGate`, `ApprovalRecordsTrue`, `ApprovalDecisionsStand`, `ApprovalTypeCorrect` | nothing unapproved, and nothing outside the scopes of a worker that the registry has; rows tell the truth, outcomes are logged, decisions stand | - |

The conditions are not for convenience: section 5 says how each property fails without it.
Neither are the history variables in the statements (`troubled`, `raced`, `unchecked` and
the others of section 3): each stands for accidents that section 5 shows to break the property.

Some assumptions on constants are there for the proofs. A call that pins is not a run
(in `LocalRuntimeAssumption`), since they are calls of different functions, the jobs of
the pipeline are a sequence (`JobsAssumption`), and the bounds on publications, on
accidents and on starts are numbers (`MaxPublishedAssumption`, `AccidentsAssumption`,
`StartsAssumption`).

The arguments:

* **Pool.** `IInv` joins the parts of `PoolAccounted` and `SerialWithinWorker`: they are inductive together
  and not apart. `SerialWithinWorker` needs that the queue of a lock holds exactly the calls
  that wait for it (`QueuesExact`) and that a taken lock has a holder; `NoStall` needs the
  count of slots. The refinement maps a worker's line to its holder followed by its queue;
  `LineStable` says that only the steps of its calls change it.
* **Scheduler.** `ClaimInv`: a claim under way is the only one of its job and shows in its
  flags, an orphan shows in `abandoned`. It is inductive as long as only the owner of a run
  clears its flags. `SchedDrivesPool` shows that each step of the scheduler is a step of
  the pool or leaves it alone, so the pool's invariant holds of the whole; `PoolLink` ties
  the stage of a trigger to its place in the pool, from which `NothingLeaked` and
  `SerialHandlers` follow. `FlagInv` ties each flag to a run of the job in
  one of the stages the flag stands for, and a mark in `abandoned` to an orphan; a step that
  takes a trigger out of those stages has to clear the flag as well.
* **BusWake.** `WakeInv`: while an item waits its version is above the handled one and above
  that of every wake that has had its answer from `hasWork`, so that no wake that ends can
  take the item for handled; and there is a timer, a wake or a run.
* **PipelineTick.** `StoppedInv`: on a scheduler that is not started, no follow-up is queued
  and no timer is left, nor a start that would set one, unless the last stop cut one short;
  and a tick in its check only shortens what it has still to do.
* **RuntimeLock.** `LockInv`: an owner's row is in its file; who was found dead stays away,
  or is foreign, until its row is removed. The second is what makes the DELETE safe, and it
  holds because a start goes for a new row only under a pid it has itself.
* **Restore.** `SwapInv`: only a verified copy reaches the rename, and then the log is gone.
  `FoundInv`: up to the rename the database is as startup found it, and the log is at most
  gone. `KeptInv`: a program that was never cut off emptied its log when it stopped, so the
  copy of the file alone is complete.
* **QueueLock.** `ChainInv` (members, no repeats, who is past the chain is its head) gives
  one caller per process. `FileInv` adds that in a calm history the file is that of the
  caller that runs its body, and that whoever is to break a file is of the only process
  alive: of two the other one is the file's dead owner, and without kills there is none.
  Beside one task there may be any number of backends, one alive at a time (`OneBackend`):
  one that is up has cleared the file of its predecessors (`EarlierGone`), so a dead owner
  is, for the backend, the task, and for the task, a backend, the last one. `HeldAlone` and
  `BootAlone` draw from it that nobody is disturbed.
* **ItemBus.** A step on the rows is, for the lock, the step that it contains or none: all
  of them happen inside a body. `CalmSays` carries what the two modules say of the same
  history. `RowInv`: what a caller has read is the table as it is, but for the items its
  change is about and those that expired since, because everybody else who changes rows has
  to have the lock; and what was published is known to the table or to that copy. With
  `Exclusive` it is inductive, and without it is not: so the theorems have `[]Exclusive` as
  their condition, and `RowsAreSafe` gets it from `OneBodyAtATime`. The types need no such
  condition: that the attempts of an item stay within the limit follows from the copy of
  each caller alone, since the publisher chooses from its copy what has an attempt left, and
  keeps to that item while it may yet take its post for a failed one.
* **SlotLedger.** `SlotInv`: a slot that was run is in the table or so old that nobody who
  would run it can still take it up. It needs Retention >= MaxWindow + Patience. `DropInv`
  adds that a slot between the loading of the schedule and the one its task waits for is
  accounted for, whatever node-cron reports and in whichever order. The search for the
  previous slot gives up at the look-back, so all it says of a slot is conditional on the
  next one being within reach (`Near`). A start that finds a slot within a window wider than
  the look-back is before its next slot, hence within reach if that one is.
* **Approvals.** `Sound(r)` relates stage, row, decision and effect of one request, and
  `Audited(r)` its events; steps of other requests touch neither.
* **ReadCache.** `CacheInv`: a read that is still current was not overtaken by a write that
  began after it; every writer under way is one that it saw.
* **RunLedger.** `StoreInv`: only the head of the chain has loaded the document, which
  nobody has saved since, and the ids that calls and late reports are still to enter are new
  and pairwise different. `Rewriting` says what an operation makes of any set of records:
  no id but the one it brings is new.
  `LiveInv` is about who is behind a record that says running: a run that has not left it,
  or, before the process is up, the reconciliation, which is ahead of every call of the new
  process. `LedgerInv`: records have ids and times of
  their own, so that the document, when it is cut to its newest records, loses a miss only to
  that many newer ones. `RecoveryInv`: a recovery has one call at
  most, and what it clears are the jobs that it queued.
* **NewsDigest.** `NewsInv`: what was settled when a digest began is among what it knows,
  what it wants to file is not, and an article has one row or none, since the merge leaves
  out what is on the bus.
* **Conversations.** `ChatInv`: a thread that has a history, or a turn under way, is in the
  list, in memory and on disk, unless it strayed. The open turns are what makes it
  inductive: an answer enters a history long after its thread was listed. `WholeInv` says
  where the prompt of an open turn comes from (the history's array while it is shared, a
  copy otherwise) and that what was entered is in memory and, once written, on disk.
* **LocalRuntime.** `TurnInv`: the chain lists each caller once, and only its head is past
  the queue; `AloneInv`: from the moment its model is prepared the head has it alone.
  `PinInv` says for each stage of the head what has become of the pin it read and of the
  memory, and of a pin call what its model is between load and store. `OrderInv` is about
  the chain: a call that unpins has written its pin before it joins, and while it waits every
  other call that pins waits behind it.
* **WorkerLifecycle.** `LifeInv`: a module of a worker that is switched off has a call that
  is about to remove it or to switch the worker on, unless it is `skewed`; a call that reloads
  or boots is of a worker that is on, has a source and, past `rm`, nothing older compiled or
  required, and what its compiler works on is the source unless it is `overtaken`. It
  holds because a reload, a deletion or a boot has no other call beside it; where it has,
  that is `raced`.
* **DashboardData.** `DashInv`: each slice that is stale is announced by an event, gathered
  for a targeted request, part of a request that was read late enough or will be, or missed.

Theorems that name no property of a run (types, the pool's books, `ChainCorrect`,
`ClaimsAreAccounted`, `SchedExecutingIsBusy`, `ApprovalDecisionsStand`, `SchedDrivesPool`,
`RowsAreBehindTheLock`) are what the others rest on, or say more than
is worth a run. `PinInv`, `RowInv`, `LifeInv` and `DashInv`, the longest of the inductive
invariants, were checked by TLC on the instances of the runs before they were proved.

Every safety invariant of a passing run is proved, and so are all its action properties:
`NoLostUpdate`, `PostsAreDue`, `MissKept`, `ReloadsAreFresh`, `BootRecovers` and
`NoTickAfterStop`; so is the type invariant of every module that has one, which no run
lists. Only model-checked is liveness: `EveryRunStarts`, `TurnsCome`, `EveryCallEnds`,
`WakesDeliver`, `TickDelivers`, `Cascades`, `PickedUp`, `Takeover`, `EveryClaimEnds` and
`RestoreSettled`. Liveness under fairness and ENABLED are beyond the prover.

## 5. Where code and comments disagree

Six runs show TLC violating what a comment says; `PROJECT.json` quotes it.

* `sched_no_work_overlap`: a scheduled slot without work clears the flag of a run that
  started during its check (`scheduler.ts` 1357).
* `runtime_restore`: a second start swaps the database under a running backend, before it
  asks for the lock (`index.ts` 64).
* `pin_overtaken`: a run that takes the runtime between the load and the store of a pin
  unloads the model that is then pinned (`job-runner.ts` 150).
* `worker_enable_edits`: a worker edited while it is disabled is enabled with its old module,
  since only a reload empties `require.cache` (`workers/loader.ts` 80). An edit below the
  entry point's directory is not even compiled.
* `worker_migration_retry`: after a migration that failed in a hot reload, the next reload
  compares with the module it replaces, does not migrate, and records the version
  (`workers/watch.ts` 141).
* `dashboard_crossing`: a full refresh of the workers' data waits for targeted ones and is
  seen by nobody while it waits; one that is sent meanwhile is overwritten by its older
  answer (`web/src/app-shell/useDashboardData.ts` 409).

The other disagreements are the conditions under which the properties are stated. To see
one, remove the condition, or add the fault, and TLC finds it.

| Condition | Without it | Where |
|---|---|---|
| no `"missed"` in `sched_live` | a slot recorded as missed while an orphan executes stores the derived running flag for ever (`RunningIsLive`); the comment at 323 says until the handler settles | `scheduler.ts` 982 |
| no `"store"` in `sched_live` | a failing write after the claim leaves the job queued for ever (`QueuedIsLive`) | `scheduler.ts` 1252 |
| `SerialHandlers` is about handlers in time | at the deadline the worker lock goes to a sibling job beside the orphan; the comment at 210 promises serial within a worker | `scheduler.ts` 295 |
| `unharmed` in BusWake | a wake that meets only an orphan is left to a pass that is over; the comment at 686 says the item cannot be lost | `scheduler.ts` 685 |
| `calm` in PipelineTick | a request during a tick that throws is forgotten until the interval | `scheduler.ts` 433 |
| no other pid in use in `Takeover` | the pid of a dead owner, reused by another program, blocks every start, though the heartbeat is old | `runtime-lock.ts` 43 |
| `found[2] = "none"` in `AbortLeavesAll` | a failing rename after an unclean end loses the log's transactions; the comment at 297 says nothing is lost | `app-backup.ts` 292 |
| `crashes = 0` in `OutgoingKept` | the copy that is kept lacks the log, or a restore applied twice overwrites it | `app-backup.ts` 251 |
| `calm` in QueueLock and ItemBus, boot | a starting backend clears the lock of a live task | `jobs/queue.ts` 793 |
| `calm` in QueueLock, age | a slow body's file is released and another caller's removed in its place | `jobs/queue.ts` 869 |
| `cutShort` in `NoTickAfterStop` | a stop during the awaits of a start is forgotten: the start goes on to set the interval, and ticks begin on a stopped scheduler; the comment at 385 says a tick must not fire against one | `scheduler.ts` 362 |
| one task in `queue` | two processes break the file of a dead one, and the second removes the first one's new file | `jobs/queue.ts` 871 |
| `Near` in SlotLedger | a look-back of 48 hours does not find a slot exactly 48 hours back or more: a Friday's missed slot is not recorded (`NoSlotDropped`), and a weekly slot not run within its wider window (`BootRecovers`) | `cron-internals.ts` 4 |
| `lost` in SlotLedger | a claim whose process died before the run counts as run | `scheduler.ts` 1066 |
| one row of each item in ItemBus | the publisher takes its target by URL among all rows: of two rows with one URL the wrong one may be marked posted, and the article goes out again | `workers/builtin/publisher-x/job.ts` 339 |
| `sent # "lost"` in `PostsAreDue` | a post whose outcome could not be saved is a failed one, and is posted again | `workers/builtin/publisher-x/job.ts` 399 |
| `troubled` in RunLedger | an operation of the store that fails leaves a record running for ever | `scheduler.ts` 1707 |
| `skewed` in `DisabledIsUnloaded` | an enabling that cannot write the version or the flag fails with the worker registered, and recorded as disabled | `workers/bootstrap.ts` 149, `http/routes/workers.ts` 130 |
| `skewed`, a tool | the control worker's tool writes the flag and leaves the module registered until the next start | `workers/builtin/control/tools.ts` 130 |
| `raced` in `DisabledIsUnloaded` | disabling waits in `onDisable` while a reload registers the worker again; a deletion leaves the module registered | `workers/watch.ts` 138 |
| `raced` in `ReloadsAreFresh` | two reloads of one worker: the older compile can be what stays | `workers/watch.ts` 138 |
| `overtaken` in `ReloadsAreFresh` | an edit saved while the compiler works is older than the bundle without it, and the next compile skips it; the timer of that edit may find no registered worker, and is lost | `workers/build.ts` 60 |
| digests that began later, in `NotFiledAgain` | the merge re-checks the bus and not `seenUrls`: if the row was deleted meanwhile, an overlapping digest files the article again | `workers/builtin/news/job.ts` 657 |
| `strayed` in Conversations | the answer of a turn whose thread was deleted meanwhile enters a history again, which is saved and is of no thread: nothing lists it and nothing can delete it, though README 111 says every conversation is deletable | `agent.ts` 196 |
| `missed` in DashboardData | a call that joins a request in flight gets what was read before the change it was made for; of two targeted answers the older may come last; a request that fails is not repeated | `web/src/app-shell/useDashboardData.ts` 419 |
| `missed` in DashboardData, events | the comment at 179 says the event of a change names its worker, or nobody; a run of `finance-news` changes the `pendingCount` of `finance-analyst` (`workers/builtin/finance-analyst/module.ts` 79) and its events name `finance-news` only | `workers/builtin/finance-news/job.ts` 412 |
| `unchecked` in Approvals | a worker that was disabled, reloaded or deleted while its run goes on is not in the registry, and passes for one that states no permissions: a read outside its scopes is done, and a write only waits for its approval | `actions/primitives.ts` 69 |
| `spoilt` in Approvals | a command that cannot be started leaves its row approved and no outcome in the log | `actions/primitives.ts` 427 |

More concern what no property here asks for: prompts are to be capped at `MODEL_WINDOW`
(`conversation.ts` 79), and a history of just that length is handed out itself and grows
with what other turns append before the model is called; a turn that names a project
deleted in the meantime puts its id back on the thread (`chat-threads.ts` 145); an approval in the last second is
overwritten by the timeout (`actions/primitives.ts` 161); after a restart the dashboard
lists requests nobody waits for (`actions/store.ts` 106); and `shell:*`, which the comment
at `actions/primitives.ts` 333 offers, allows no command, since the wildcard of a scope is
built from its first two parts (line 72). A built-in worker that was deleted cannot be
installed from the store again, since the registry finds its id twice (`workers/registry.ts`
84), though `http/routes/workers.ts` 172 says it can. After a reload that failed the worker
is out of the registry, and only what is registered is reloaded: the log's "disabled until
the error is fixed" (`workers/watch.ts` 169) means enabling it by hand. Of two installations
into one directory the one that fails removes the other's files (`admin-worker-ops.ts` 273).
A finance scan publishes its items one by one and saves what it has seen at the end: one
that is cut off publishes them again (`workers/builtin/finance-news/job.ts` 405). A write
that waits for the operator replaces the file whole, also one that changed since the diff
was shown (`actions/primitives.ts` 281). Nothing reads the stored pin before the first chat
turn or dashboard read, so that after a restart a job may unload what is pinned.

## 6. What is not modelled

* *One step in the models*: reload of schedules, settings, backups, process faults. Between
  the steps of a reload or of a load-change-save only microtasks run, since better-sqlite3
  is synchronous; creating a backup is one call of the library. Pruning may delete a backup
  that a pending restore names; the restore then says so and starts with what is there.
* *No interplay to model*: HTTP routing and views (`http/`, `admin-*.ts`), sign-in, usage
  metering, event log, configuration, SDK types, worker storage: single synchronous
  statements or data.
* *Outside the program*: answers of language models, channels, search and publishing
  services, and the jobs of single domains in `workers/builtin` other than the news digest
  and the publisher.
* *Text*: scaffolding, validation, parsing of manifests and of cron expressions (a
  schedule is its set of matches), previews and diffs, presentation, forms and drafts in
  `web/`.

Left out inside the modelled parts: texts of events and records; the content of items; a
chat's choice of model, titles, projects and tools; the dashboard's sections other than the
workers' data, which take the same path without slices; in Scheduler the run records (one
await where the code writes one; RunLedger has them); in WorkerLifecycle built-in workers,
which are hidden and never reloaded and are all that a recipe switches, local workers in
JavaScript, which are not compiled (`workers/loader.ts` 51), the generation of a worker (an
installation and an enabling, one after the other, `admin-worker-ops.ts` 390), and the
checks of a package; that an await other than that of a handler never settles (a channel
that never answers `notifyOperatorChannels` keeps its run's slot, `scheduler.ts` 1700);
`node-cron` is modelled by the callbacks and reports that `scheduler.ts` subscribes to;
clocks do not go backwards.

## 7. Running the checks

`tlc -config <run>.cfg <module>` for each run of `PROJECT.json`, and `tlapm
<Module>Proofs.tla` for each module of proofs. All passing runs end within minutes, the
proofs within a few minutes each.

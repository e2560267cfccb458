# Formal models of the Avtomatika worker

TLA+ specifications of the worker SDK (`src/src/avtomatika_worker/`), TLC
configurations that model-check them, and proofs checked by TLAPS. Line numbers
below are those of `src/src/avtomatika_worker/worker.py` unless a file is named.

To repeat everything: `tlc -config <cfg> <module>` for each run of
`PROJECT.json`, and `tlapm` for each `*_proofs.tla`.

## 1. The system

A `Worker` is one asyncio event loop. Between two awaits a coroutine has the
whole state to itself, so the unit of interleaving is the code from one await to
the next, and that is what an action of the models is. Outside the loop run only
the threads of synchronous handlers (`to_thread`, 1061).

| Part | State | Operations | Hard behaviour |
|---|---|---|---|
| Polling and slot accounting (586-726) | `_current_load`, `_current_load_by_type`, `_active_tasks` | compute the available skills, poll, count and start a task | the check precedes an await, the count follows it; a task id may come twice |
| Task execution (843-1224) | `result_obj`, the stage of each coroutine, threads | convert and check the payload, prepare parameters, call the handler, upload outputs, report, release | an exception or a cancellation at every await, the finally block included; threads survive cancellation |
| Result uploader (1620-1670) | `_result_queue` and its count of unfinished items | take, send, sleep, retry, `task_done` | retries and rate limits in one loop, cancellation with a result in hand |
| Heartbeat throttle (1329-1335, 1577-1614) | `_last_heartbeat_times`, `_debouncing_flags` | send, debounce, delayed heartbeat | several callers between the check of the cooldown and the answer that restarts it |
| Catalog synchronisation (1235-1327, 1501-1600) | `_last_synced_skills_hash` | register, full or light heartbeat, handle the answer | one variable shared by all orchestrators; lost answers; restarts of the orchestrator |
| Orchestrator manager (1337-1398) | `registered`, the back-off | register, heartbeat for ever, register again when not found | its requests interleave with the heartbeats that changes spawn |
| Polling scheduler (626-726, 728-779, 1548-1575) | weights, `_poll_backoffs`, `_next_poll_time`, `any_task_found` | three modes of choosing an orchestrator | back-off, weights, a load that changes between polls; the loop must neither spin nor starve |
| Graceful shutdown (1706-1773) | stage of `_perform_shutdown_cleanup` | cancel, tell, drain, await, close | everything else goes on meanwhile; three timeouts; cancellation passing through `suppress` |
| Telemetry (1469-1546) | `_last_sent_usage`, the time it was sent | deadband, force interval | shared by the orchestrators, written before the request |
| Commands over websocket (1833-1860) | listeners | cancel a task, custom commands | `cancel()` at any point of a task; heartbeat answers do the same (1601-1606) |
| Files of tasks (`s3.py`, `task_files.py`) | cache directory, task directories, `_active_ops`, the semaphore | look up, download, link, upload, clean up | several tasks download the same blob; failures and cancellations half-way; threads that outlive their task |
| Others | - | skill registration, configuration, token rotation, health check, logging, command line | no behaviour over time worth a model |

How they meet: a poll that brings a task and a task that ends change the load and
spawn a heartbeat to every orchestrator; a heartbeat's answer may cancel tasks;
tasks hand results to the uploader through the queue, or send them themselves
once the uploader is gone; a manager's registration and all heartbeats share the
synced hash and the last sent usage; all tasks share the blob cache and the transfer
slots; shutdown cancels, awaits and closes all of them.

What makes each part correct:

- *slots*: the counters are what the coroutines say; limits hold; every accepted
  task gives its slot back and reports, exactly once; a cancel finds its task;
- *uploader*: order, number of attempts, `join()` returns when and only when the
  work is done, no result waits for ever;
- *throttle*: changes are consolidated and not lost, heartbeats are spaced, the
  flag never sticks;
- *catalog*: a light heartbeat only to an orchestrator that holds the catalog,
  a full one only when needed, and everyone gets it at last; the same of the usage,
  within the deadband;
- *scheduler*: the mode's order or shares, the floor after a 429, at most one poll of
  each orchestrator between sleeps, and polling never stops;
- *files*: a handler reads the object it asked for, directories end with their tasks,
  the counters of transfers are what the coroutines hold;
- *shutdown*: it ends, in order, sends what was due, speaks last where it can, and closes no
  transport under a task or a result.

## 2. Modules

| Module | Models | Kind |
|---|---|---|
| `SlotPool` | what the worker promises about slots | abstract specification |
| `TaskLifecycle` | polling, execution and release of tasks | detailed, implements `SlotPool` |
| `TaskLifecycle_proofs`, `ResultUploader_proofs`, `HeartbeatThrottle_proofs`, `PollScheduling_proofs`, `TaskWorkspace_proofs`, `CatalogSync_proofs`, `GracefulShutdown_proofs` | | proofs |
| `HeartbeatThrottle` | cooldown, debouncing and the manager's periodic heartbeat | detailed |
| `CatalogSync` | registration, heartbeats, the synced hash and the telemetry, with the orchestrators | detailed |
| `PollScheduling` | the polling loop: modes, weights, back-off | detailed |
| `TaskWorkspace` | inputs, cache, task directories, outputs | detailed |
| `ResultUploader` | queue and queue worker | detailed |
| `GracefulShutdown` | the cleanup and the tasks, around `ResultUploader`, which it extends | composition |
| `MC*` | the instances TLC checks | |

Operators commented `MUTANT` are not part of the specifications: each is a
mutated form of the definition below it, the kind of mistake a change of that
code could make, and shows that the property named beside it in `PROJECT.json`
notices.

### TaskLifecycle

`phase[d]` is where the coroutine of delivery `d` stands, named after the await it
stands at. `created`: the `Task` exists but has not run; `preparing`: in
`process_params`; `running`: in the handler; `finishing`: in `process_result`;
`cleanup` and `sending`: the two awaits of the finally block; `released`: its last
lines ran; `leaked`: the coroutine ended without them. The other variables are the
worker's own. A poll is two actions, `PollRequest` (state read, request sent) and
`PollDelivers` or `PollEmpty` (answer counted). The application's
`capacity_checker` may hide any skill. An orchestrator answers with a skill it was
offered or with one the worker has no handler for; it may hand over the same id
twice. `Cancel` is `Task.cancel()`; what it does depends on where the coroutine
stands when it next runs: `Cancelled` (in the try block), `SwallowsCancel` (a handler
that catches it), `CancelledOutsideTry` (before the first step, or in the finally
block). The heartbeats a change spawns are in HeartbeatThrottle; here they change
nothing. Which error code a failure gets is abstracted to "failure".

`SlotPool` keeps one value per task (none, held, returned, lost). A slot is taken only
while one is free, overall and in its group, and returned once. *Lost* is there
because the code has such paths; a lost slot still counts against the capacity.

### HeartbeatThrottle

One orchestrator, since all state is kept per orchestrator. A caller is a coroutine
inside `_send_single_heartbeat` or about to enter it; time is counted in ticks left or
passed, so nothing grows. `Tick` may happen at any time, also while something is
due: the loop may be late, and it may handle an answer before a timer that was due
earlier, as asyncio does. A delayed heartbeat is `created` when the cooldown spawns its
task; its sleep, of a length computed then, begins when the task first runs (`Starts`),
so that it may wake after the end of the cooldown it waited for. The wall clock that the
cooldown is measured with and the clock of the sleeps are taken for one. `unsent` and
`carrying` follow, outside the code's state, whether the last change is in some
heartbeat; `overlapped` records that one was sent while another was unanswered,
`overtaken` that one was answered while a delayed one was still to be sent.

### CatalogSync

A version stands for a catalog and its hash. Requests are handled by the orchestrator
(external: modelled from the answers the worker expects) at some moment between
sending and answer, or fail on either way. Not modelled: a request the
orchestrator handles after the worker has timed out on it.

The telemetry is one number (the code compares processor, memory and GPUs, each with the deadband): a heartbeat
carries it when there is no last one, when the force interval is over, or when it left
the deadband, and it is the last one sent from then on, before the request leaves
(1512). `told` is what the orchestrator heard of last.

`BeliefIsRight` and `FullOnlyWhenChanged` say in their hypotheses that the worker has one
orchestrator: the hash is shared, so with two they are false (finding 3).

### PollScheduling

The polling task has four places: `starting` (waiting for the first registration),
`loop` (code without an await), `polling` and `sleeping`. In `loop` nothing else of
the event loop can run, so no task can end; the load it sees is that of the moment.
`next` is the rest of the round's `for` loop. A task ends with its slot (`TaskEnds`) or,
as in finding 1, without (`TaskLeaks`): `leaked` is the part of the load nobody will
return. `_get_current_state` is `Status`: *full* at
the capacity, *busy* when every skill is at its type's limit, else *idle*. With a
`capacity_checker` (`HasChecker`) an idle worker is *busy* at any look at which the checker
refuses every skill, and it may answer two looks of one moment differently: the loop
looks once before a round and once before each orchestrator, the poll looks again
(`Looks`). So `AskNext` and `PassOver` are one orchestrator's place in a round, `TakeTurn` that of
ROUND_ROBIN, and the round is through at the end of the list, after a task in WATERFALL or at a
look that finds the worker busy (`AtEnd`). Only *busy*
makes the loop sleep at once; a full worker enters the round, where
`_poll_for_tasks_with_status` returns without asking anybody. Times are ticks left
(`wait`) or passed (`since`). The history variables `asked`, `passed` and `got` say whom
the loop asked since it slept or a task came, whom it passed over in this round, and whether
this round brought a task. Orchestrators are numbered in the order of priority that the
configuration sorts them in. `_parse_retry_after` is `ParsedRetryAfters`: any of the
header's values, or none.

### TaskWorkspace

A delivery's `stage` is the await of `process_params`, the handler, `process_result` or
`cleanup` it stands at; `Holding` are those inside the semaphore, `Counted` those
inside `_active_ops`. A content is the bytes of an object and their etag; a file is
a function from its pieces to what was written there, so a file half written, or written
by two, is visible as such. Two of the files' writers are the code's own, the third is a
handler that writes to the path of its input, through the link. A task has one
input and one output. Folders, and several inputs whose base names differ, repeat the
same steps; of two inputs with one base name, which the code puts at one path
(`s3.py:208`), the model says nothing. An upload is followed by an await of its file's size, which
fails when another delivery of the id removed the directory meanwhile. A thread of a cancelled
handler goes on (`threads`, `late`). `spoilt` names the cache files whose bytes are not, or not all,
those of their etag: a transfer into one broke off midway, it was filled from an object replaced
after its etag was asked for, or a handler wrote through its link. A file that is opened again with nobody
else writing it, from the object of its name, is spoilt no longer. Opening a file others have found, also
a complete one under a running handler, is no spoiling: the second download makes it whole again,
and while it does the file has a writer.
A file operation is one step at the end of its await; that a cancelled `to_thread` call
itself finishes later is left out, except in the cleanup, where a
cancelled `rmtree` may or may not have removed the directory.

### ResultUploader and GracefulShutdown

The uploader's loop has an action per await and outcome; the length of its sleeps is
abstracted. An attempt is a call of `send_result`; how often a transport tries within one (it is
created with `result_retries`, 475) is its own affair. A rate limit without details makes its
handler raise (1644), and the result is `abandoned` before its last attempt. `GracefulShutdown` extends the module, uses its actions unchanged and adds
the stages of the cleanup, with a task per result, and the heartbeats to one orchestrator:
`manager` is the periodic one, `notice[c]` the one that a change `c` spawns - the end of a task, or
something before the shutdown (`Earlier`), which also stands for a delayed heartbeat. When
they leave is HeartbeatThrottle's matter; here they may at any time. A task that is rejected, or cancelled outside its
try block, ends without a result and without a heartbeat. The module's own specification is
`ShutdownSpec`, and a step of it is one of the uploader's, of a task, of a heartbeat or of the
cleanup. The websocket listeners, which are closed with their transports and send nothing by themselves,
are left out, and so is the thread of a synchronous handler that was cancelled: the cleanup does not
wait for it, the interpreter does when the process exits. That a result can be queued between the moment `join()` is woken and the
`cancel()` that follows is real: the woken coroutine is only scheduled, and on Python
3.11 (the lowest version `pyproject.toml` allows) `wait_for` runs `join()` in a task
of its own, one more turn of the loop.

## 3. What the runs check

| Run | Bounds | Shows |
|---|---|---|
| `task_lifecycle` | 4 deliveries (two of one id, one forbidden and unknown), 2 slots, one type limited to 1, a synchronous skill, 2 cancellations, shutdown at any time | the counters, the registry and the results agree; limits hold; while no task is cancelled no more than 2 handlers execute, threads included; the slot pool is implemented; accepted tasks end |
| `task_reports` | the same | finding: tasks can end without giving back their slot |
| `heartbeat_throttle` | 3 spawned calls and the manager, cooldown 2 ticks, interval 3, one failure | the flag is exact; no change is left without a call unless heartbeats overlapped, failed or overtook a delayed one; they are spaced unless they overlapped or failed; every change is reported |
| `heartbeat_loss` | the same, no failures | finding: a change can be left without a call |
| `catalog_sync` | 1 orchestrator, 3 versions, manager plus one spawned heartbeat, 2 faults, 3 levels of usage with a deadband of 1, one change of it | a light heartbeat is right, a full one needed, the usage known within the deadband, while requests do not overlap; catalog and usage arrive in any case |
| `catalog_shared` | 2 orchestrators, 2 versions, managers only, no fault | finding: the second orchestrator may never get the catalog |
| `result_uploader` | 3 results for 2 orchestrators, 2 attempts | order, `join()`, attempts, and that every result is resolved, through rate limits with and without details |
| `graceful_shutdown` | 2 tasks, 2 attempts, a heartbeat of each end, one of an earlier change, the manager's | the offline heartbeat is the last, and none is under way when transports are closed, if tasks and heartbeats were over when it left; transports are never closed under a task, a result or a manager; due results are sent unless a timeout expires; the cleanup ends |
| `shutdown_broken` | the same | finding: the cleanup can be broken off |
| `task_workspace` | 3 deliveries (two of one id, one in a thread, one that may write to its input), two objects of one content, 2 pieces per file, 2 transfers at once, 2 failures, cancellations or replacements | the counters are exact; a handler finds what it asked for unless the cache file is being written or was spoilt in one of three named ways; no directory without a task, but for two named reasons |
| `asset_shared` | 2 deliveries, no fault | finding: a task can be given a file still being written |
| `poll_scheduling` | 3 orchestrators, all modes, weights 1-2, capacity 2, slots that may be lost, a checker that may refuse at any look, 2 failures, a floor (3) above the cap (2), Retry-After 1 | turns follow the weights, priority and floor are kept, the loop never spins, and stops only for one of three named reasons |

Why the bounds are enough. *Lifecycle*: with two slots and four deliveries the worker
is full, over-asked and reused; three live tasks would add no new pair of
interacting coroutines, and the proofs of section 5 remove the bound. *Throttle*: two
changes in flight plus the delayed heartbeat and the manager are all the roles there
are; a cooldown of two ticks separates "just sent" from "inside" from "over". *Catalog*:
an answer can be late by one version and by two; two faults allow a lost request
followed by a restart. *Uploader*: three results tell order from rotation; two attempts
tell the last from the others. *Shutdown*: one task may be early while the other is
late. *Files*: two writers of one cache file and a reader of it, with a delivery that
shares its directory with another; two pieces tell an empty, a partial and a whole file
apart; two faults allow a broken download after a replaced object. *Scheduler*: three
orchestrators have a first, a middle and a last; with two failures one back-off can grow
or two orchestrators be out; two slots distinguish a worker with room from an empty
one, and one with a slot lost from one with both.

Deadlock is not checked in `TaskLifecycle`, `TaskWorkspace`, `ResultUploader` and
`GracefulShutdown`, which stop when all work is done or the worker has ended, nor in
`PollScheduling`, which stops when the polling task has crashed.

### Fairness

Weak fairness throughout, of what the event loop runs by itself: a coroutine that is
ready is resumed, a request is answered, fails or times out (the transports have
timeouts), a sleep ends. Nothing is assumed of the environment: orchestrators need not
have work, changes, cancellations and shutdown need not happen. `TaskLifecycle` assumes
that handlers return (the code has no timeout for them); `GracefulShutdown` does not:
there only a cancelled handler returns, and the timeouts do the rest. `PollScheduling`
needs strong fairness of `TaskEnds`: a task that is ready to end cannot while the polling
task runs between two awaits, and the event loop resumes it at one of the next. It does not say
that every slot comes back: any task may lose its slot instead (`TaskLeaks`, without
fairness), and a lost slot is returned by nobody. `PollingGoesOn` names the three ways out this
leaves: the polling task crashed; from some time on the whole load is lost slots and they leave
no room, at the capacity or at the types' limits; or the checker refuses again and again.
Without any one of them TLC finds a counterexample. `CatalogSync`
assumes that managers go on, that the orchestrator handles what it got and answers, and
that faults are finitely many, and that the force interval ends.

## 4. Findings

Each has a run whose counterexample shows it.

1. `task_reports` - what `_process_task` does before its try block (845-869) can raise, and
   then nobody pops `_active_tasks`, decrements the load or reports. One forbidden task
   takes a slot until the process ends. A cancellation before the coroutine's first
   step or in the finally block does the same. `LeakNeedsDisturbance` says these are
   the only ways (together with a crash of the direct send).
2. `heartbeat_loss` - two overlapping heartbeats; the delayed heartbeat, woken inside the
   cooldown that a late answer restarted, takes its own flag for another delayed
   heartbeat and returns. The change waits for the manager's next heartbeat.
   The same happens without an overlap when a heartbeat is sent and answered between the end of the
   cooldown and the waking of the delayed one. `LossNeedsRace` says it takes one of these or
   a failure, `ChangeIsReported` that the manager makes up for it.
3. `catalog_shared` - `_last_synced_skills_hash` is one for all orchestrators: the answer of
   one makes the next heartbeat to the other a light one, the full sync this one asks for
   resets the hash for both, and the pattern can repeat for ever.
4. `shutdown_broken` - the queue worker cancelled while it sends ends as cancelled, and
   `suppress(Exception)` does not suppress what awaiting it raises. Active tasks
   are then not awaited and transports not closed.

5. `asset_shared` - a download streams straight into the cache file, and the look-up
   (`s3.py:174`) only asks whether it exists: a second task with the same asset is given a
   link to a file of which part, or nothing, is written yet. `InputIsWhole`
   says what is left: the file is whole again when nobody writes it, unless it was spoilt. A
   task that missed the cache before another filled it truncates the complete file under that
   one's handler in the same way (`s3.py:104`).

Met while modelling, without a run of their own:

- the thread of a cancelled synchronous handler goes on after its slot was given back, so
  MAX_CONCURRENT_TASKS bounds executions only without cancellations
  (`ExecutionWithinLimit`);
- the cooldown is measured from the last answer, so heartbeats can be closer than two
  seconds when they overlap (`SpacingNeedsOverlap`);
- a second delivery of an id replaces the first in `_active_tasks`; the first to end
  removes the other, which a cancel no longer finds (`RegistryComplete` is stated for ids
  handed over once);
- a result that is rate limited on its last attempt is slept for and then dropped
  (1643-1651), and RESULT_MAX_RETRIES = 0 drops every result; results for healthy
  orchestrators wait behind those of one that is down (1650);
- registration sets the synced hash while its payload is built, before any answer, so a
  heartbeat in between is a light one;
- heartbeats spawned by tasks that end after the final offline heartbeat follow it, and so do
  delayed ones; some may be under way when the transports are closed (1768). `OfflineIsLast` says
  what excludes it;
- a rate limit without details drops the result it meets at once (1644, 1664), whatever attempts
  are left;
- a worker whose slots are all lost is full for ever, goes on sending heartbeats and asks
  nobody (`PollingGoesOn`);
- `_last_sent_usage` is shared and written before the request (1512): with two
  orchestrators one can take every telemetry, the other never hears any (`UsageArrives`
  holds for one orchestrator, where the force interval repairs a lost request);
- in ROUND_ROBIN the weights move on (645-653) before the poll is refused because the
  worker is full or the orchestrator backs off. With a capacity of one and two equal
  orchestrators every turn of one may fall into the time a task of the other runs: it
  is then never asked (TLC finds this as a violation of "everyone is asked" in
  ROUND_ROBIN; `PollingGoesOn` therefore speaks of turns);
- smooth weighted round robin is exact over a whole period, and within it no
  orchestrator is ever more than 1 - 1/N of a turn ahead of its share; behind it can be up
  to 1/2 + (N - 1)(N - 2)/2N turns (`SharesFollowWeights`, proved for every N and all weights).
  With three orchestrators that is less than a turn; of four with the weights 1, 4, 30, 30,
  or of five with 1, 1, 1, 6, 6, one comes to be a whole turn behind;
- FAILOVER goes on to the next orchestrator after a task was found (767), where
  `docs/DEVELOPMENT.md:139` says "Polls the next one only if the previous was empty"; the state
  DRAINING that the loop looks at is never returned; `POLL_BACKOFF_FACTOR` is read and
  not used;
- an exception in a poll that is no `RxonError` ends the polling task (724), nobody
  restarts it, and the heartbeats go on saying idle;
- a download that fails or is cancelled leaves its partial file in the cache for every
  later task (`s3.py:180`); an object replaced between the two requests is cached under its
  old etag; a handler that writes to its input's path writes into the cache;
- the thread of a cancelled handler can create the task's directory again after the
  cleanup, for good (`task_files.py:66`; SECURITY.md promises that data is wiped), and so can a
  cancellation of the cleanup itself; two deliveries of one id share a directory, and the
  end of one removes the other's files;
- outputs are stored under the job's id and their base name (`s3.py:250`): tasks of one job
  with equal names overwrite each other's.

## 5. Proofs

`TaskLifecycle_proofs` proves, for every finite set of deliveries and all values of the
other constants allowed by `LifecycleAssumption`:

| Theorem | Property | Argument |
|---|---|---|
| `TypeCorrect` | `TypeOK` | inductive as it stands |
| `CountersCorrect` | `LoadAccounting` | `StepKinds`: every step of a coroutine either moves it inside `Holders` with the counters unchanged or is a `Release`; `NextKinds` lifts this to Next, and cardinalities follow |
| `CapacityIsRespected` | `CapacityRespected` | not inductive alone, because the limit is checked when the poll is sent and the load rises when it is answered. Strengthened to `Limits`: also, what was offered is still available (`OfferStillGood`), since with one poll in flight the load only falls |
| `RegistryCorrect` | `RegistrySound`, `RegistryComplete` | one induction for both; only a step of the same id touches an entry |
| `ReleasedIffReportedCorrect` | `ReleasedIffReported` | inductive as it stands: the finally block is entered with a result |
| `LeakNeedsDisturbanceCorrect` | `LeakNeedsDisturbance` | strengthened to `LeakCauses`: a pending cancellation was counted, a direct send follows the end of the queue worker |
| `OutcomeIsFinalCorrect` | `OutcomeIsFinal` | action property from `ReleasedIffReported` |
| `ExecutionIsWithinLimit` | `ExecutionWithinLimit` | `ThreadsAreAwaited`: without cancellations a thread's coroutine is in the handler, so those that execute are among `Holders`, whose number is the load |
| `ImplementsSlotPool` | `RefinesSlotPool` | initial states and steps map under `SlotOf`; the guard of `Take` is `Limits` with `LoadAccounting` |

`ResultUploader_proofs`, under `UploaderAssumption`, for any results and attempts:

| Theorem | Property | Argument |
|---|---|---|
| `UploaderTypeCorrect` | `TypeOK` | with `HandIsBusy`: a result is in hand exactly while the worker sends or sleeps |
| `OrderIsKept`, `JoinIsExactCorrect` | `InOrder`, `JoinIsExact` | `ResultMoves`: an action lets one result arrive, be taken in hand, be done with, or moves none; then equations on sequences and lengths |
| `GivenUpCorrect` | `GivenUpAfterAllAttempts` | strengthened to `Attempted`: a result waits once, was never sent and is not the one in hand, which may be sent once more |

`HeartbeatThrottle_proofs`, under `ThrottleAssumption`, for any number of spawned
heartbeats, any cooldown, interval and number of failures:

| Theorem | Property | Argument |
|---|---|---|
| `ThrottleTypeCorrect` | `TypeOK` | inductive as it stands |
| `FlagIsExactCorrect` | `FlagIsExact` | inductive as it stands |
| `LossNeedsRaceCorrect` | `LossNeedsRace` | `Orderly` (without overlaps and failures one heartbeat is in flight at most, and none inside a cooldown) and `Punctual` (if moreover nothing was answered before a delayed heartbeat was sent, what that has left to sleep reaches the end of the cooldown or beyond). Hence it never finds the cooldown restarted, and a change dropped because the flag is set has a delayed heartbeat to carry it |
| `SpacingNeedsOverlapCorrect` | `SpacingNeedsOverlap` | action property, from `Orderly`: the last sending is at least as old as the last answer |

`PollScheduling_proofs`, under `PollAssumption`, for any number of orchestrators, any weights,
back-off parameters and failures:

| Theorem | Property | Argument |
|---|---|---|
| `FloorIsKept` | `FloorKept` | invariant `Waits`: the ticks since an unspecific 429 and the ticks left to wait make up the floor, by `BackoffIsFloored`; only one whose wait is over is asked |
| `NeverSpins` | `NoSpinning` | invariant `Rounds`: who was asked comes before `next`, and nobody was at the top of a round |
| `SharesAreKept` | `SharesFollowWeights` | invariants `Counted` (an orchestrator's current weight is `turns * weight - picks * Total`) and `Balanced` (see below) |
| `PollTypeCorrect` | `TypeOK` | with `Typed`: while a poll is on its way there is room for a task |
| `PriorityIsKept` | `PriorityKept` | with `InOrder`: until a round of WATERFALL brings a task, everyone before `next` was asked or passed over in it; then it is over |

`Balanced` says that the current weights add up to 0, that each is at least -(N - 1)/N of the
total, and at most the bound above. After every weight was raised they add up to
the total, so the highest is at least its Nth part (`SumAtLeast`), and paying the total
leaves it no lower than the first bound; the others only rise, and one that is not
picked is at most half of what it and the winner have together, of which the rest, being
bounded below, leaves at most half of 1 + (N - 1)(N - 2)/N totals. From `Counted` at the end of a
period every current weight is a multiple of the total; it is above minus one total and they add up
to 0, so all are 0 (`PeriodIsExact`). What this needs of sums over sets is proved in the module:
`Sum` is chosen from the functions that satisfy the recursion, `SumExists` and `SumIsIt` say it is
one, the rest (`SumAnyFirst`, `SumOfSums`, `SumAtLeast`) is by induction. No theorem with an operator parameter can be
instantiated here, so induction over numbers and subsets is stated with a set in the
place of the predicate (`Induction`, `SubsetInduction`) and derived from the
least counterexample.

`TaskWorkspace_proofs`, under `WorkspaceAssumption`, for any finite set of deliveries, any
objects, any number of pieces, transfers and faults:

| Theorem | Property | Argument |
|---|---|---|
| `CountersAreExact` | `CountersExact` | `MoveSteps`: every step of a coroutine moves it from one stage to another and changes each counter exactly as the kinds of the two stages say (`Kinds`); `MoveCounts` turns that into cardinalities |
| `WorkspaceTypeCorrect` | `TypeOK` | `Types` with `EtagKnown`: who looks into the cache or links to it has an etag; the counters' types follow from their being exact |
| `DirectoryHasOwnerCorrect` | `DirectoryHasOwner` | `Minds`: a step touches no other directory than its own, and if that is there afterwards the delivery still owns it |
| `InputIsWholeCorrect` | `InputIsWhole` | strengthened to `Sound`: a cache file that is not spoilt is streamed into only with the content of its name, and is whole or has a writer that has written all pieces before its next one (`CacheSound`); the path of a task alone with its id leads nowhere until it is linked, then to a cached file (`Reads`). `CalmKeeps`, `OpenKeeps` and `WriteKeeps` keep the first, `OthersRead` and `OwnStepReads` the second |

`CatalogSync_proofs`, under `CatalogAssumption`, for any number of versions, spawned heartbeats and
faults, any levels of usage and deadband (the types for any set of orchestrators; the others
speak of the worker with one):

| Theorem | Property | Argument |
|---|---|---|
| `CatalogTypeCorrect` | `TypeOK` | part of `Requests`: no hash is ahead of the catalog, and a manager waits for its registration or has one heartbeat on its way at most |
| `BeliefIsRightCorrect` | `BeliefIsRight` | invariant `Beliefs`. While requests did not overlap there is one on its way (`OneRequest`); it is a light heartbeat exactly when it repeats the hash synced last, and what was answered "ok" is what the orchestrator holds (`Synced`) |
| `FullOnlyWhenChangedCorrect` | `FullOnlyWhenChanged` | `Faultless`: without faults both sides agree on who serves whom, and until an answer comes the orchestrator holds the hash synced last |
| `TelemetryIsRightCorrect` | `TelemetryIsRight` | `Heard`: the usage sent last was heard, or is in the heartbeat on its way |

`Belief(o)` is kept by every action for its own reason; there is a lemma for each (`RegistrationKeepsBelief`,
`SendingKeepsBelief`, `HandlingKeepsBelief`, `ReceivingKeepsBelief`, `RestartKeepsBelief`). TLC checked `Requests` and
`Beliefs` on the instance of `catalog_sync` before they were proved.

`GracefulShutdown_proofs`, under `UploaderAssumption` and `ShutdownAssumption`, for any results and attempts:

| Theorem | Property | Argument |
|---|---|---|
| `ShuttingCorrect` | | the inductive invariant: `Uploads` (what the uploader keeps by the lemmas of `ResultUploader_proofs`, whatever the cleanup does), `Tasks` (a task ends when its result has a fate, sends by itself only once the queue worker is done), `Steps` (the order of the cleanup), `Drain` (what was due is resolved once `join()` may return, and stays so) |
| `ShutdownTypeCorrect` | `ShutdownTypeOK` | from `Shutting` and `Speech` |
| `OfflineIsLastCorrect` | `OfflineIsLast` | the first half from `Speech`: nobody but tasks and spawned heartbeats that were there when the offline heartbeat left can send one after it; the second from `Steps` and `Uploads` |
| `DueResultsSentCorrect` | `DueResultsSent` | from `Drain`; `JoinedIsDone`: a count of 0 leaves nothing queued, by `JoinIsExact` |

Every invariant and every action property that a passing run checks is the statement of a
theorem, the refinement of `SlotPool` included. Only model-checked: liveness (`AcceptedTaskEnds`,
`ChangeIsReported`, `SyncConverges`, `UsageArrives`, `QueuedIsResolved`, `ShutdownEnds`, `PollingGoesOn`), since the provers
have no rule for fairness and ENABLED; and the findings, whose runs show a counterexample.

## 6. Plan

Done: `SlotPool`, `TaskLifecycle`, `HeartbeatThrottle`, `ResultUploader`, `PollScheduling`,
`TaskWorkspace`, `CatalogSync` with the telemetry and `GracefulShutdown`, each with proofs of its
safety properties. Left, in this order:

1. Several inputs of one task, in `TaskWorkspace`.
2. `OrchestratorSession`: the back-off of one manager under an orchestrator that fails,
   limits and restarts.
3. The mapping of exceptions to error codes in `TaskLifecycle`.

## 7. Not modelled

Skill registration by introspection of signatures, loading of skill modules,
configuration and its validation, logging, metrics and traces, the command line: they
work before the loop starts or nothing depends on them. The health server keeps no state.
Token rotation stores a token nothing reads later. Of `s3.py` and `task_files.py`, folders,
lists of inputs, `delete`, `write_json`, `upload_dir` and `download_file` are left out: they
repeat the modelled steps or are not called. Middleware and dependency injection are part of "the handler".
The transports (`rxon`), the S3 client and the orchestrator are external; the models take
from them what the worker's code expects: answers, typed errors and delays.

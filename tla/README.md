# Prow CTI: TLA+ models, checks and proofs

This directory holds a formal model of the parts of Prow that are hardest to test: the
runtime that keeps connector subprocesses alive, the protocol session between the two
processes, the store with the feed connectors on top of it, the attempts to start a
connector that keeps crashing, and the in-process runtime that reloads a connector under
development; and what a reader of the store sees page after page. Paths below are relative to
the repository root; `instance.py`, `process.py`,
`supervisor.py`, `scheduler.py`, `runtime_transport.py`, `transport_stdio.py`,
`restart_policy.py`, `dev_runtime.py` and `dev_watcher.py` are in `src/prow/connector/`,
`ingest.py`, `repositories.py` and `purge.py` in `src/prow/db/`.

## 1. Inventory of the system

| Component | State it keeps | Operations | Interacts with | Hard behaviour | What makes it correct |
|---|---|---|---|---|---|
| Transition table (`supervisor_state.py`) | none | `apply_transition` | instance | none | a function of state and event |
| Restart policy (`restart_policy.py`) | none | `should_restart`, `trim_restart_timestamps` | instance | window boundary, threshold | breaks the circuit after as many restarts as promised |
| Instance (`instance.py`) | state, process handle, shutdown flag, restart timestamps, watcher and restart task handles | `start`, `run_fetch`, `wait_until_idle`, `request_shutdown`, `clear_circuit_break`, `probe_health`, `_mark_unhealthy`, exit handler, restart task, joins | every caller below; one `ConnectorProcess` at a time | six tasks interleave at every `await`; handles are overwritten; cancellation | one subprocess, one watcher, one restart task; no state without an owner |
| Subprocess (`process.py`) | OS process, transport, hello/timeout/spawn flags | `start`, `request_shutdown`, `terminate_abruptly`, `wait` | instance, runtime transport | spawn failure, hello failure, escalation, exit racing the ack | ends when told to; its end is classified once |
| Supervisor (`supervisor.py`) | instances, health task, miss counters | `start_all`, `shutdown_all`, health loop, `clear_circuit_break` | instances, application | serial probes, kill of the current rather than the probed process | nothing outlives it; unhealthy connectors are killed |
| Scheduler (`scheduler.py`) | one task per instance, stop event | `start`, `stop`, `_run_loop` | instance | cancelled at any await | every fetch cycle ends; `stop()` returns |
| Application (`api/app.py`, `api/connector_startup.py`) | engine, supervisor, scheduler | lifespan | scheduler, supervisor | order of the stops | stopping terminates |
| Runtime transport (`runtime_transport.py`) | pending futures, fatal error, dispatch task | requests, dispatch loop, handlers | process, database handlers | late acks, dispatch end, slow handlers | each request is answered, failed or timed out once |
| Connector transport (`transport_stdio.py`, `transport.py`, `context.py`, `base.py`) | pending futures, in-flight counter, cancelled event | emit, get/set state, log, metric, dispatch loop | runner, runtime transport | counter reset against release, operations after the stream closed | at most 64 in flight; nobody waits forever |
| Runner (`runner.py`, `pipe_stdio.py`, `entry_point_resolve.py`) | none | `_async_main` | hello, connector class | exit before the ack is flushed | exit code tells what happened |
| Negotiation (`protocol/negotiation.py`) | none | both sides of hello | process, runner | two timeouts, disagreeing ends | both sides agree or both fail |
| Wire protocol (`protocol/framing.py`, `codec.py`, `messages.py`) | stream buffers | read/write frame | both transports | frame limit against stream limit | every legal frame passes |
| Dev runtime (`dev_runtime.py`, `dev_watcher.py`, `transport_inprocess.py`, `dev_emit.py`, `dev_packaging.py`) | mounted connector, fetch task, reload lock | start, reload, shutdown, debounce | connector class, state store | reload racing shutdown and fetch | one mounted connector; torn down exactly when it should be |
| Store and ingest (`db/`) | `stix_objects`, `connector_state` | ingest, state get/set, purge, queries | transport handlers, API | redelivery, partial validity, transactions | stored once; counts agree with the store |
| Feed connectors (`connectors/`) | validators and cursors in connector state | `fetch` | transport | crash between emit and state | nothing is skipped |
| STIX objects (`stix/`) | none | validation, builders, markings | connectors, ingest | none | pure |
| API routers, CLI, configuration (`api/routers`, `cli`, `config`) | none beyond the above | queries, commands, parsing | store, supervisor | pages read while bundles commit | a caller that pages to the end misses nothing |
| Log/metric forwarding, duration parsing | none | forward, parse | transport, scheduler | none | pure |
| UI (`ui/`) | browser state | views | API | none | not part of the runtime |
| `bus`, `enrich`, `taxii`, `telemetry` | none | none (empty packages) | | | |

`PROJECT.json` lists the same components with what is modelled, and the hazards at their
lines.

How they interact: the application lifespan starts the supervisor's health loop and the
scheduler, and stops them in the order scheduler, supervisor. The scheduler's task calls
`run_fetch()` and polls `wait_until_idle()`. `run_fetch()` starts a subprocess, or shuts an
old one down first. A started subprocess has a watcher task, which classifies its exit and
may create a restart task. The health loop probes and kills. An operator may clear a broken
circuit. All of them are coroutines of one event loop, sharing the fields of the instance.
A subprocess first negotiates a version, then its `fetch()` reads its cursors, asks its feed,
emits bundles and stores its cursors, each of these through the two transports and a handler
of the runtime, which opens a database transaction of its own. Instances share nothing but
the two tables. `prow connector purge` is another process on the same tables. `prow connector
dev` and `run` put the connector into the process of the command, behind another transport.

## 2. The modules

| Module | Models | Extends |
|---|---|---|
| `SupervisorState` | `supervisor_state.py`: states, events, table, `apply_transition` | |
| `RestartPolicy` | the decision of `restart_policy.py`, exit reasons of `process.py` | |
| `ConnectorInstance` | `instance.py` and `process.py`: what each operation does to the instance and its subprocesses | the two above |
| `ConnectorRuntime` | the composition: scheduler, health loop, application, operator; specification, properties | `ConnectorInstance` |
| `SubprocessLifecycle` | abstract specification: what an instance promises about its state and its subprocess | `SupervisorState` |
| `MCConnectorRuntime` | model-checking constants: symmetry and view | `ConnectorRuntime` |
| `ConnectorRuntimeProofs` | theorems and proofs | `ConnectorRuntime` |
| `ProtocolWire` | the two pipes: `framing.py`, `codec.py`, asyncio's buffers, what survives the end of a process | |
| `StdioTransport` | `transport_stdio.py`: operations, futures, in-flight counter, dispatch loop; the exits of `runner.py` | `ProtocolWire` |
| `RuntimeTransport` | `runtime_transport.py`: dispatch loop with its database handlers, requests and their futures | `ProtocolWire` |
| `ConnectorSession` | the composition: both transports, the health loop's probes, the shutdown of `process.py`; specification, properties | the two transports |
| `RequestReply` | abstract specification: what a request/response protocol promises its callers | |
| `MCConnectorSession` | model-checking constants: symmetry and view | `ConnectorSession` |
| `ConnectorSessionProofs` | theorems and proofs | `ConnectorSession` |
| `CrashLoop` | `protocol/negotiation.py` message by message, and the restart timestamps of `instance.py` and `restart_policy.py` with a clock | `RestartPolicy` |
| `CrashLoopProofs` | theorem and proof | `CrashLoop` |
| `StixStore` | the tables and transactions of `db/`: ingest, unique indexes, connector state, purge | |
| `FeedContract` | abstract specification: what mirroring a published catalog promises | |
| `CatalogFeed` | `connectors/kev`, `connectors/attack` over the store, with crashes, failures and purges | `StixStore` |
| `MCCatalogFeed` | model-checking constants: two small catalogs, three deployments | `CatalogFeed` |
| `CatalogFeedProofs` | theorems and proofs | `CatalogFeed` |
| `WindowFeed` | `connectors/threatfox`, `urlhaus`, `malwarebazaar` over the store | `StixStore` |
| `MCWindowFeed` | model-checking constants: three small feeds, two deployments | `WindowFeed` |
| `WindowFeedProofs` | theorems and proofs | `WindowFeed` |
| `DevReload` | `dev_runtime.py`, `dev_watcher.py` and the command that owns both | |
| `DevReloadProofs` | theorems and proofs | `DevReload` |
| `ObjectPages` | `GET /api/v1/objects` page after page (`api/routers/stix.py`, `list_objects` of `repositories.py`) against commits and a purge | |
| `MCObjectPages` | model-checking constants: four objects in three bundles | `ObjectPages` |
| `ObjectPagesProofs` | theorems and proofs | `ObjectPages` |

### The runtime and the session

The first two compositions look at the same code from two sides. `ConnectorRuntime` has the whole
life of an instance, with the exchanges of a session as outcomes; `ConnectorSession` has one
session message by message, from the agreed hello to the end of the process, with the
instance reduced to its probes and its shutdown. The paragraphs from "Atomicity" to
"Abstractions" are about `ConnectorRuntime`, the two after them about `ConnectorSession`.

**Atomicity.** The runtime is single-threaded asyncio code and no body of
`async with self._lock` awaits anything, so an action is the code between two awaits. Where
two such pieces follow each other without a real suspension (the exit handler between
`wait()` and its return, `request_shutdown()` up to the await of an ack), they are one
action. One place is finer than the code: the scheduler has a state `fetch` between two
iterations, where the code goes on at once; the extra interleavings it allows are those of an
interval that ends slightly earlier or later.

**Correspondence of state.** `state`, `process`, `shutdownRequested` are the fields of the
instance. `recorded` is the number of entries of `_restart_timestamps` that are inside the
window; `WindowSlides` lets the oldest leave, at any moment. `restartTask` is
`_pending_restart_task` (none, inside its backoff sleep, inside `_spawn_process_body`),
`watcherTask` the subprocess of `_watcher_task`. Per subprocess `p`: `os[p]` is what the
operating system made of it, `link[p]` its runtime transport (`none`; `refused` after a
failed hello; `up`; `closed` and `fatal` after the dispatch loop ended), `starter[p]` the
task that is inside its `start()`, `watch[p]` its watcher task, `timeoutKill[p]` the flag.
Per caller of `request_shutdown()` plus `join_background_tasks()` (the scheduler, the
application): `call[t]` is the await it is at and `callProc[t]` the subprocess it is about.
`sched`, `app` and `health` are program counters of the tasks, `probed` and `misses` the
locals of the health loop.

**Subprocess handles.** A restart creates a new `ConnectorProcess`. Handles nobody refers to
any more are used again, so the number of restarts is unbounded and only the number of
subprocesses that are *referred to* at one time is bounded, by `Procs`. With four handles a
start never waits for one (`HandlesSuffice` in `MCConnectorRuntime` holds as an invariant of
the `RuntimeSafety` instance with four handles), so four are enough for safety.
The liveness runs use two, which restricts the interleavings to those in which at most one
finished subprocess is still referred to when the next one starts.

**Switches.** Three constants say what the environment may do, so that one run can show
what depends on it: `OperatorClears` (an operator calls `clear_circuit_break`),
`HelloWriteMayRaise` (a subprocess may be gone when hello is written to it),
`CancelMaySwallow` (a cancellation may reach `wait_dispatch_finished()`, which suppresses
it). The proofs hold for every setting.

**Abstractions.** Durations are left out: a timeout may expire whenever the code awaits with
one. Hello, health and shutdown exchanges appear with their outcomes, not message by
message. `ShutdownBroken` covers the broken write, the failed pending future and the
`ProcessLookupError` of a signal sent to a process that is gone; a request on a transport
whose dispatch loop had failed earlier would wait for its timeout in the code, with the same
end (a killed subprocess). A subprocess that survives SIGKILL for 30 seconds is left out.
`cancel_background_tasks()` has no caller and is left out. `Cancels` has the cancellation of a
task that joins a watcher; a watcher that has ended at that moment is included, because the
cancellation is thrown into the same await and suppressed there (`instance.py:435-439`).
Operators named
"Faulty variant" in comments are not part of the specification: they are plausible bugs that
show, one by one, that the properties notice them.

**State of a session.** `up` and `down` are the connector's stdout and stdin as FIFO queues
of frames; a queue stands for all buffers between the two event loops. `op[o]` is the await a
task of the connector is at, `future[o]` its future, `pending` and `inFlight` the fields
`_pending` and `_in_flight_ack`, `dispatch` the connector's dispatch loop. `loop` is the
runtime's dispatch loop and `serving` the frame whose handler it awaits; `request[r]`,
`answer[r]` and `asked` are the runtime's requests, their futures and `_pending_runtime`.
`handled` is a history: what became of the request with an id. An id is used again only when
no frame carries it, which stands for the unique ids of the code. The locks of both classes
are never held across an await, so an operation up to its `drain()` is one action and its
`finally` block another.

**Pipes and limits.** `write()` never waits. `drain()` waits while the pipe holds more than
`PipeRoom + HighWater`: what the kernel and the reader buffer, and what the writer's own
buffer may hold before it pauses. When a process ends, what is still in its own buffer is
lost, perhaps in the middle of a frame (`Survivors`). `encode()` refuses a frame longer than
`FrameLimit`; `readuntil()` fails on one longer than `StreamLimit`, asyncio's default, because
no stream is opened with another. Only the order of these numbers and a few sums of frame
sizes matter, so small ones stand for kilobytes. A frame is a kind, a direction, an id and a
size; payloads and their validation are left out.

### The attempts

`CrashLoop` refines what `ConnectorRuntime` leaves to chance: whether a hello exchange
succeeds, and when a recorded crash leaves the window. `runtime` and `connector` are the two
coroutines of `negotiation.py` with the version each has settled on, `toConnector` and
`toRuntime` the one message that each pipe can hold at that time. Either side may give up at
any moment until it has agreed (its own timeout, the end of the other process), and an answer
that was written before may still be read. A connector supports any non-empty set of the
versions. `stamps` is `_restart_timestamps`, `now` the clock, `due` the time at which the
sleeping restart task wakes. `crashes` and `restarts` are histories. The backoff delays are
"at once" or "one unit later"; the configuration in hello is data; what becomes of a start
that an operator or a stop interrupts belongs to `ConnectorRuntime`.

### The store and the feeds

**State of the store.** `rows` are the committed rows of `stix_objects`, `saved` is
`connector_state`, `tx[s]` the open transaction of the emit handler serving session `s`
(objects still to insert, objects inserted and not committed), `purge` the transaction of the
purge command. Postgres itself is external and modelled by what the code relies on: READ
COMMITTED, `ON CONFLICT DO NOTHING` on two partial unique indexes, an insert that waits for the
end of another transaction holding the same key (`Holders`) or deleting it, and the failure of
one of a group of transactions that wait for each other. An insert of one row is one action,
because another session can come between two rows; the commit is another. `get_state` and
`set_state` are one transaction each. `purge` locks the state rows it found when it began, which
is why a state row written after that survives it.

**Objects.** An object is an id, a `modified` time (or none, for observables), and its `sort`:
of a type with a vendored schema, of a custom type, one whose time stamps cannot be read, one
the connector drops, one that does not parse. That is all that validation, the unique indexes
and readers tell apart. ATT&CK objects keep the ids and dates of the catalog; the objects of a
KEV entry get fresh UUIDs at every fetch (`uuids`). Observables and malware families have ids
that depend on their value only, so connectors share them.

**Fetches.** `pc[s]` is the await that `fetch()` of session `s` is at and `plan[s]` its locals.
The HTTP server is external: `revision` is the revision it publishes, an ETag and a
`Last-Modified` name the revision they were given out with, and If-None-Match takes precedence.
The four emits of an ATT&CK catalog become batches of `BatchSize` objects; a KEV catalog is
one bundle (`NextBatch`). A bundle is one frame, never split, and `FrameSize` is its length in
units of an entry. `Emit` has the four outcomes of the call: a frame longer than `FrameLimit` makes
`encode()` raise in the connector, and the fetch ends; one longer than `StreamLimit` is written,
ends the runtime's dispatch loop and reaches no handler; a handler may raise before its first insert
(`Unstorable`); otherwise a transaction begins. In the second and third case, and when a
transaction fails later (`TxFails`), nobody acknowledges: `fetch()` waits (`Unanswered`), its
session answers no probe either, and the health loop replaces the subprocess
(`ConnectorReplaced`). That it does so is `OperationsEnd` of the session model. The in-process
runtime has no frames; `StreamLimit` and `FrameLimit` above every size are that case.
`Interrupted` stands
for a crash, a kill, a cancellation or a raised error between any two awaits: the locals are
lost, a transaction that is already open goes on in the runtime. A session fetches again
whenever it is idle, which covers the scheduler, restarts and retries. In `WindowFeed`, `tick`
is the clock, an entry is published at a tick, and a reply is what is in the window then; `done`
and `due` are histories for the property. Its connectors keep only two values in
`connector_state`, of which only the existence is ever read. `min_confidence` of urlhaus keeps
all entries or none and is left out.

**Deployments.** `Setups` lists who runs what: two sessions of one instance (an old subprocess
still finishing while its successor runs), two instances of one connector, two different
connectors. `PurgeWhileFetching` says whether the operator purges a connector that is running.

### The development runtime

`DevReload` has the tasks of `prow connector dev`: `run` is `_run_loop` (mount, setup, idle or
join, cleanup), `main` the command after it (Ctrl-C, `request_shutdown`, the end of the event
loop), `reload` the task that holds `_reload_lock`, `waiting` those that wait for it, `watch` the
debounced watcher with its timer handle, the timers it no longer knows (`lost`) and its emit
tasks. `conn`, `transport`, `task` are `self._connector`, `self._transport` and
`self._fetch_task`; `conns` and `fetches` remember every connector and task ever made. A step
runs from one await to the next, and a task never switches where the code does not suspend.
`setup()`, `fetch()` and `teardown()` may take any time and raise; `Broken` versions cannot be
imported. `mode.careful` restricts the developer, not the code: saves come only after the
first setup and Ctrl-C only between reloads. `mode.watch = FALSE` is `prow connector run`. A
fetch that answers its cancellation with another exception, printing (`dev_emit.py`) and the
parsing of the project file (`dev_packaging.py`) are left out.

### The reader

`ObjectPages` abstracts ingest to what a reader can tell: `rows` are committed rows with their
`ingested_at`, which is `now()`, the beginning of the transaction (`tx[b].at`, a count of
transactions begun), so that the rows of one bundle share it and a bundle may commit after one
that began later. `doomed` is what an open purge has deleted. `walk` is a caller that asks for
page after page: its query, its next `offset`, the `total` of its last reply, the pages it got,
and, as history, what was stored when it began and whether a purge was committed since. `Count` and
`Page` are the two statements of one request. Postgres may order rows with equal sort keys
differently at each statement, so `Pages` is the set of all pages that some allowed order gives.
Callers stop at the first short page or at `total`, as `byTotal` says. Every other reader of
`repositories.py` is one statement.

## 3. Properties and runs

### The runtime

These runs are on `MCConnectorRuntime`. The safety run uses symmetry over handles and a view
that identifies states differing only in handles nobody will look at again.

| Run | Bounds and switches | Checks | Shows |
|---|---|---|---|
| `RuntimeSafety` | 4 handles, threshold 3, all switches on | `RuntimeTypeOK`, `AtMostOneLiveProcess`, `ActiveIsWatched`, `CrashedIsOwned`, `SingleRestartTask`, `StartOwnsProcess`, `KeepsLifecycle` | no interleaving yields two subprocesses, an unwatched active instance, an orphaned crash or an overwritten task handle; the composition implements `SubprocessLifecycle` |
| `RuntimeLiveness` | 2 handles, threshold 2, operator only | `FetchCycleMoves`, `ShutdownCompletes`, `ShutdownLeavesNothing`, `StartingEnds`, `WatchedDrainEnds` | cycles, stops and starts terminate and a stop leaves no subprocess, unless an operator clears a circuit; a watched drain is resolved whatever the operator does |
| `StopDuringJoin` | 2 handles, operator | `SchedulerStops` | **violated**: finding 1 |
| `StopDuringStart` | 2 handles, operator | `DrainingEnds` | **violated**: finding 3 |
| `BrokenHello` | 2 handles, `HelloWriteMayRaise` | `StartingEnds` | **violated**: finding 4 |
| `HungConnector` | 2 handles, no switch, a connector that need not end | `AskedToStopEnds` | **violated**: finding 5 |
| `CrashWhileStopping` | 2 handles | `StoppedIsNotCrashed` | **violated**: finding 6 |

Why the bounds suffice: with four handles every start finds one; a threshold of 3 is the
production value and lets the circuit break, be cleared and break again; 2 does so with fewer
states. All other variables are finite by themselves; `recorded` never exceeds the threshold.

**Fairness.** `TaskFairness` is weak fairness of each task of the event loop: a coroutine that
can go on is eventually resumed. The actions that await hello, an ack, a probe or SIGTERM are
included because each of these awaits has a timeout in the code (30 s, the grace period, 5 s,
10 s), so that some outcome always comes. `ConnectorsEnd` adds that a subprocess ends at
some time, as `fetch()` of an import connector does; it is needed because `wait_until_idle()`
is called without a timeout; finding 5 is what happens without it. Nothing is
assumed about the operator, the first emit, dispatch failures, the window or the start of the
application's stop.

The fairness of probes and stops assumes that their timeouts always come. The write and the
`drain()` before the timed wait have none; finding 9 is that case.

`FetchCycleMoves` says that a waited-for cycle leaves the poll *or* reaches another spawn: a
connector that crashes slower than the window allows is restarted for ever by design, so the
stronger form is not what the code promises. Four of the properties have the premise
`NoOperator`: an operator's clear that meets the stop of the application takes the shutdown
flag back and starts the instance again, behind the back of whoever waits. Escaping hello
errors and swallowed cancellations are switched off in this run; findings 1, 3 and 4 are those
cases.

### The session

These runs are on `MCConnectorSession`. `SessionSafety` uses symmetry over operations and
probes and a view that forgets the history of requests nobody waits for and no frame carries.

| Run | Bounds | Checks | Shows |
|---|---|---|---|
| `SessionSafety` | 2 operations, 2 probes, 1 slot; frames of size 1 and 2, stream limit 1, frame limit 2, pipes of 1+1 | `SessionTypeOK`, `InFlightExact`, `FuturesAwaited`, `KeepsContract` | with full pipes, long lines, failing handlers, cancelled operations, late answers and exits at any moment the books of both transports stay exact, and a request is handled at most once and answered to its own caller |
| `SessionLiveness` | 1 operation, 2 probes; frames of size 1, pipes of 2+1 | `OperationsEnd`, `ProbesEnd` | every operation and probe ends, by the health loop's kill if the session is lost |
| `SessionShutdown` | 1 operation, 1 probe, 1 shutdown; frames of size 1, pipes of 3+0 | `AckOutlivesConnector`, `StopsEnd` | the order of `shutdown-ack` and the cancelled event leaves the ack for the runtime to read if drain flushes; a shutdown ends the process |
| `LongLines` | 1 operation, 2 probes; frames of size 1 and 2, stream limit 1, frame limit 2 | `OnlyLongLinesReject` | **violated**: finding 7 |
| `SlotsAfterLoopEnd` | 2 operations, 2 probes, 1 slot, long answers | `AtMostMaxInFlight` | **violated**: finding 8 |
| `FullPipes` | 2 operations, 2 probes, pipes of 1+0 | `ProbesEnd` | **violated**: finding 9 |
| `UnflushedAck` | the same as `SessionShutdown`, pipes of 1+1 | `AckOutlivesConnector` | **violated**: finding 10 |

Why the bounds suffice: two operations on one slot compete for it, and one of them can meet
the other's late answer; two probes are what it takes for one to be under way while the
answer to the other is late, and for two misses in a row. Frames of size 2 are legal to write
and too long to read. The pipes of the safety run fill up, so drains wait on both sides. In
the two liveness runs the pipes hold all frames these few tasks can write, so that neither
side blocks for good on a full pipe; that is the normal state of affairs for 64 KiB pipes and
small frames. `HighWater = 0` in `SessionShutdown` makes `drain()` a flush; finding 10 is what happens
otherwise. There is no shutdown in `SessionSafety` and
`SessionLiveness`; the proofs cover it for safety.

**Fairness.** `SessionFairness` resumes every task that can go on, lets the database answer
and timeouts expire, and brings the health loop round. Of the connector's code only the return
from an await is assumed: it may call operations, or not, cancel them, or end. `drain()`
returns to a task that was woken even if the pipe has filled up again meanwhile, hence strong
fairness. `ConnectorLeaves` says that a connector whose cancelled event is set goes on to its
teardown. `StopsEnd` excludes one case: after `shutdown-ack` the runtime's dispatch loop fails,
and the connector is blocked on a pipe nobody reads. Nothing escalates then, which is finding 5
met from another side.

### Attempts, store, feeds and development runtime

| Run | Bounds | Checks | Shows |
|---|---|---|---|
| `CrashLoop` | runtime versions 1 and 2, a connector with any of 1 to 3; threshold 3, window of 2 units, clock to 6, 6 subprocesses | `CircuitFollowsWindow`, `AgreeOnVersion`, `AttemptsKeepLifecycle` | attempt after attempt, both ends of hello time out on their own and never go on with different versions; the circuit is decided by the crashes of one window, whatever was trimmed, kept or forgotten; the instance keeps to `SubprocessLifecycle` |
| `CatalogFeed` | 2 sessions, 2 instances, 3 deployments, catalogs of 3 and 4 revisions with 1 to 4 entries, batches of 2, stream limit 2, frame limit 3, 1 failure, 1 purge of a quiet connector | `CatalogTypeOK`, `VersionsUnique`, `CursorMeansStored`, `ReadersSeeTheCatalog`, `AckCountsCommit`, `KeepsFeedContract`, `CatalogEventuallyStored` | a kept validator always stands for a revision stored in full, nothing is stored twice, acknowledgements count what was committed, readers never go back, and a revision that stays, and can be parsed, sent and stored, is eventually stored |
| `PurgeDuringFetch` | the same, purging a running connector | `CursorMeansStored` | **violated**: finding 2 |
| `LargeCatalog` | the same, frame limit 9, no failures, no purge | `LargeEmitsAreSplit` | **violated**: finding 11 |
| `UnreadableObject` | the same as `CatalogFeed`, no failures, no purge | `GoodObjectsAreStored` | **violated**: finding 12 |
| `WindowFeed` | 2 sessions, 2 deployments, feeds of 2 or 3 entries, 3 ticks, days of 1 tick, `days_back` 2, `limit` 2, stream limit 2, frame limit 3, 3 fetches, 1 failure | `RelationshipsResolve`, `NothingMissed`, `EachFetchEnds` | connectors that share observables, in opposite order, leave no dangling relationship after a rollback or a dead lock; nothing within reach of the windows is missed; every fetch ends, answered or not |
| `DevReload` | 2 saves, one of them broken, 2 exceptions, both modes, careful or not | `DevTypeOK`, `OneFetchOnLiveConnector`, `NoConnectorLeaked`, `SavesAreAnswered`, `InterruptEnds` | no stale fetch and no leaked connector for a careful developer; in every case saves are answered and the command ends |
| `FailedReload` | 1 save, 1 exception | `SavedCodeIsImported` | **violated**: finding 13 |
| `StaleFetch` | 1 save, no exception | `StaleCodeIsCancelled` | **violated**: finding 14 |
| `InterruptDuringReload` | 1 save, no exception | `TornDownAtShutdown` | **violated**: finding 15 |
| `EarlyBreak` | as `CrashLoop` | `BreaksAfterMaxRestarts` | **violated**: finding 16 |
| `ObjectPages` | 4 objects, 2 of them in one bundle; 3 bundles; 2 types; equal dates and confidences; pages of 1 and 2; 1 walk; purges | `WalkSeesEverything`, `QuietWalkShowsOnce` | bundles that commit between two pages, in any order, hide no older object from a caller that pages to the end; without writes each is shown once, also to one that stops at `total` |
| `TiedPages` | the same, no purges | `PagesAreDisjoint` | **violated**: finding 17 |

Why the bounds suffice. `CrashLoop`: six attempts in six units reach the threshold inside a
window, miss it by one unit, break, are cleared and break again. `CatalogFeed`: the ATT&CK
catalog has an object that is revised, one of a custom type (only one instance allows those),
one that cannot be stored, one that is dropped, a revision that lists the objects in another
order and gives one of them its older date again, and one revision longer than a batch; KEV has
an entry whose content changes without its date, a revision that does not parse, and one too long
for a frame: that run has `encode()` refuse it, `LargeCatalog` has it written and not read. One
failure is enough for a redelivery over a partly stored revision; dead locks are not counted against
it. `WindowFeed`: two replies make frames too long to read or to write; the threatfox entries are one tick apart
so that `days = 1` reaches one of them and `days_back` two, and one observable is shared by two
connectors in opposite order, which is what a dead lock takes. `DevReload`: two saves are one
while the other's reload is under way; two exceptions are one in a reload and one in its
failure path. About 320,000 distinct states for `CatalogFeed`, 80,000 for `WindowFeed`, 25,000
for `DevReload`, 370,000 for `CrashLoop`, 3,000,000 for `ObjectPages`: its pages of one and two rows
make walks of up to five pages, across which all three bundles may commit. Writers know nothing
of readers, so one walk, begun at any moment, is as good as many; the run ends when there is
nothing left to ingest or read, and has `CHECK_DEADLOCK FALSE` for that reason.

**Fairness.** A connector that runs fetches again and goes on with its fetch (weak fairness of
`Fetch`); the runtime's handlers run, and an insert that waits is woken each time its holder
ends, so theirs is strong (`Handler`); the health loop replaces a connector whose session is lost
(`ConnectorReplaced`, part of `Fetch`), as `OperationsEnd` shows; Postgres ends a dead lock
(`Deadlocked /\ TxFails`); a
purge that began is carried through. Failures, interruptions, publications and the beginning of a purge
are never forced. In `DevReload` each task of the event loop runs on; a fetch ends when its task
is cancelled, and in `prow connector run` of itself, and nothing else is assumed of it.
`CrashLoop` and `ObjectPages` have no liveness property and no fairness.

`CatalogEventuallyStored` is about revisions that can be parsed, each of whose bundles fits into a
frame and into the runtime's stream (`Sendable`), and all of whose objects can be stored
(`Storable`). The second premise is a strong one: a KEV catalog of today's size is one bundle of a few
megabytes (`docs/design/persister.md:202`), so that under the supervisor it is never stored; findings
11 and 12 are what happens without the premises. `RelationshipsResolve` excludes relationships to an
observable that the validator refused (see the observations). `NothingMissed` asks only for what is within reach of a
window. `OneFetchOnLiveConnector` and `NoConnectorLeaked` are about a careful developer: what
happens to others is in findings 14 and 15. `WalkSeesEverything` and `QuietWalkShowsOnce` are
about objects that share their sort key with no other (`Alone`), and about times without a
purge: finding 17 and an observation are the rest.

### Findings

The runs listed in `PROJECT.json` are the ten that pass and the violated ones of findings 1 and 2.
Every other row marked **violated** above has a configuration of its name beside the modules, for
instance `tlc -config StaleFetch.cfg DevReload` and `tlc -config LargeCatalog.cfg MCCatalogFeed`;
each takes seconds, `FullPipes` a minute. The module is the one that the table or its section
names.

1. `instance.py:435` (`StopDuringJoin`): cancelling the scheduler task while it joins the watcher
   cancels the watcher and is then suppressed, so `ConnectorScheduler.stop()` never returns.
2. `purge.py:54` (`PurgeDuringFetch`): purge neither stops nor waits for a running fetch. A fetch
   whose bundle was acknowledged before the purge stores its validators after it, and every later
   fetch is answered 304 although the objects are gone.
   `docs/design/connector-config.md:220` wants the cursors deleted so that this does not happen.
3. `instance.py:155` (`StopDuringStart`): a shutdown during a start leaves `draining` without a
   watcher, and nobody ever sees the exit. `docs/design/connector-runtime.md:76` has every exit move
   the instance on.
4. `process.py:203` (`BrokenHello`): a `BrokenPipeError` of the hello write escapes `start()`; the
   instance stays in `starting` with no watcher until the next fetch cycle, which then waits for
   ever. `docs/design/connector-runtime.md:48` detects exits by broken stdin writes too.
5. `process.py:286` (`HungConnector`): after `shutdown-ack` nobody escalates, and a connector that
   hangs in its operation keeps `join_background_tasks()` waiting;
   `docs/design/connector-runtime.md:108` calls the supervisor's escalation the hard ceiling.
6. `instance.py:329` (`CrashWhileStopping`): a crash that is recorded while the application drains
   the instance leaves it `crashed`; `docs/design/connector-runtime.md:72` has it terminate in `dead`.
7. `process.py:163` (`LongLines`): a line between 64 KiB and 1 MiB is legal for the protocol
   (`docs/design/connector-protocol.md:33`) and for `encode()`, and ends the runtime's dispatch loop:
   the stream has asyncio's default limit.
8. `transport_stdio.py:211` (`SlotsAfterLoopEnd`): when the connector's dispatch loop ends, the
   in-flight counter is set to 0 under operations that still hold slots; more get in than the protocol
   allows (`docs/design/connector-protocol.md:117`), and the late releases make it negative for good.
9. `runtime_transport.py:331` (`FullPipes`): with both pipes full the two dispatch loops wait for each
   other inside `drain()`, and a probe waits at its write, which no timeout covers: the one health loop
   stands still for all connectors. `docs/design/connector-runtime.md:78` gives a probe 5 seconds.
10. `transport_stdio.py:254` (`UnflushedAck`): `drain()` does not flush, so a connector whose output
    backs up exits with its `shutdown-ack` unsent; `docs/design/connector-protocol.md:67` has it exit
    after flushing.
11. `protocol/codec.py:62` (`LargeCatalog`): nothing splits a bundle, though
    `docs/design/connector-protocol.md:33` says so. The KEV connector emits its catalog as one
    (`kev/connector.py:145`), and a catalog above 64 KiB ends the session at every fetch, one above
    1 MiB raises in the connector.
12. `repositories.py:155` (`UnreadableObject`): an object of a custom type whose time stamp cannot be
    read passes validation and then fails its whole bundle, at every fetch of the revision, where
    `docs/design/persister.md:178` wants the good rows kept.
13. `dev_runtime.py:324` (`FailedReload`): a `fetch()` or `teardown()` that raises while a reload
    waits for it fails the reload before the import, and the runtime has no connector until the next
    save; `docs/design/connector-runtime.md:114` has it reimport.
14. `dev_runtime.py:218` (`StaleFetch`): a save during the first `setup()` starts a reload beside it.
    The fetch that the initial mount then starts is that of the connector already torn down, and
    nobody cancels it; line 114 of the same document has every fetch cancelled first.
15. `dev_runtime.py:360` (`InterruptDuringReload`): neither the cleanup nor `request_shutdown()` takes
    the reload lock, so that a connector mounted meanwhile is dropped without its `teardown()`, which
    `docs/02_CONNECTOR_SDK.md:304` promises.
16. `restart_policy.py:72` (`EarlyBreak`): the circuit breaks on the crash that fills the window, one
    earlier than `docs/design/connector-runtime.md:84-86` says: the third crash breaks it, after two
    restarts, and the later delays of the schedule (line 82) are never used. The repository's unit
    tests agree with the code.
17. `repositories.py:219` (`TiedPages`): `list_objects()` sorts by keys that rows share, all rows of
    one bundle in particular, whose `ingested_at` is the start of their transaction (`models.py:51`).
    Two pages may show the same object, and another one be on none, with nothing written in between;
    `tests/api/test_stix_endpoints.py:239-242` expects disjoint pages of rows seeded in one
    transaction. A last key `row_id`, as in `get_object()`, would decide the order.

### Observations

Met while modelling, and visible in the definitions named; no run is about them.

- With an operator's clear in flight during `shutdown_all()`, a subprocess that is still being
  created is not killed (`terminate_abruptly()` finds no process); hence the premise of
  `ShutdownLeavesNothing`.
- A failed start is never retried: `hello_failed` and `subprocess_spawn_failed` are not
  restartable, so the instance goes to `dead` and forgets its crashes.
- An operation whose database handler raises gets no answer (`runtime_transport.py:179`); the
  session is lost until the health loop kills the connector (`Unanswered`, `ConnectorReplaced`).
- At the in-flight limit an operation raises `TooManyInFlightError`, where
  `docs/design/connector-protocol.md:117` says that the transport waits. `cancel`, which the
  SDK can send, is an unknown kind to the runtime and ends the session.
- A failed ingest raises and leaves the emit unanswered, where `docs/design/persister.md:176` has
  a rollback acknowledged with zero counts. The classes `stale` and `updated` of
  lines 184-194 are not implemented: an older version is stored beside the newer one, which
  readers still get (`ReadersSeeTheCatalog`).
- KEV objects get fresh UUIDs at each fetch, so a redelivery (`Interrupted` after `Acked`) stores
  the catalog again under other ids. `VersionsUnique` holds; the softer matching of
  `docs/01_ARCHITECTURE.md:181-182` is not implemented.
- Custom types are allowed per instance, and the ATT&CK validators do not depend on the setting:
  allowing them later changes nothing until the catalog does, because the server answers 304.
- ThreatFox asks for one day whenever it has ever completed a fetch, so a pause of more than a
  day loses what was published in it; one entry of an unknown `ioc_type` fails the whole fetch.
- An observable the validator refuses (an IPv6 address in an `ip:port` entry) is left out of its
  bundle, while the `based-on` relationship to it is stored (`RejectedId`).
- A caller of `GET /api/v1/objects` that stops at `total` misses an object if a bundle commits between
  the count and the page of one request (`Count`, `Page`; `WalkSeesEverything` without
  `~walk.byTotal` is violated). A purge between two pages shifts what follows to pages already read.
- `_restart_timestamps` survives a graceful exit and the stop of a running connector, and is
  forgotten by a failed start and by the stop of a crashed one (`GracefulExit`, `Exits`,
  `RequestShutdown` of `CrashLoop`).
- A reload that fails in its own teardown calls `teardown()` again, which
  `docs/02_CONNECTOR_SDK.md:303-304` calls "once" (`Fails` of `DevReload`).
- The health loop counts misses per instance, and kills the subprocess that the instance has by then:
  one miss of a healthy successor can be enough (`ProbeMissed`).

## 4. What is proved

`ConnectorRuntimeProofs` proves, for every set of handles, every threshold and every setting
of the switches:

- `Invariance`: `Spec => []IInv`
- `TypeCorrect`: `Spec => []RuntimeTypeOK`
- `OneLiveProcess`: `Spec => []AtMostOneLiveProcess`
- `IdleIsEmpty`: `Spec => []IdleMeansNoProcess`
- `OneRestartTask`: `Spec => []SingleRestartTask`
- `StartsDoNotOverlap`: `Spec => []StartOwnsProcess`
- `ActiveWatched`: `Spec => []ActiveIsWatched`
- `CrashedOwned`: `Spec => []CrashedIsOwned`
- `StopLeavesNothing`: `Spec => ShutdownLeavesNothing`
- `ImplementsLifecycle`: `Spec => KeepsLifecycle`

Its assumptions are `NoProcAssumption` (None is not a handle), `MaxRestartsAssumption` and
`RuntimeAssumption` (the switches are Booleans).

`AtMostOneLiveProcess` is not inductive: nothing in it says that the subprocess a stopped
instance forgot is gone. `IInv` adds that only the subprocess in the handle is live
(`LiveIsCurrent`), that settled states have none (`SettledIsEmpty`), that a start owns the
handle and is in a state that waits for it (`StartInProgress`), that a watcher that still
waits watches the handle, except one of a failed start overtaken by the application's stop
(`WatchedIsCurrent`), how transports relate to processes (`LinkFollowsProcess`), and that the
supervisor is stopped after the scheduler (`SchedulerStopsFirst`), without which a stop and a
fetch cycle could start subprocesses side by side. The proof has one lemma per group of
actions for the types (`...Type`), one for the rest of `IInv` (`...Keeps`), a lemma
`QuietKeeps` for steps that give no subprocess life, and one per group for the refinement
(`...Progress`, `SpawnBirth`), where the mapping is `live <- \E p \in Procs : Live(p)`. A crash
that is recorded and decided in one step of the exit handler maps to one abstract step that
passes through `crashed`.

`ActiveWatched` and `CrashedOwned` come from one more invariant (`Owners`), inductive relative
to `IInv`: who looks after the instance in each of its states, as long as the application
runs. There is one lemma per task whose step can change it.

`StopLeavesNothing` is the counterpart for an application that stops. Its invariant `StopInv`
is inductive relative to `IInv` as long as no operator's clear starts the instance (`NoClear`,
the premise of `ShutdownLeavesNothing`). From the end it reads: once `shutdown_all()` has asked
the instance to stop, a subprocess that lives has a transport and is the one it waits for
(`AskedByApp`). That no other is there needs two facts about the moment it asks: a subprocess
whose exit nobody would notice, because the scheduler was cancelled while it joined the watcher,
keeps the scheduler, and so the application, from going on (`UnattendedBlocks`); and a subprocess
that is still being created belongs to a start that the request cancels (`CreatedInStart`,
`DrainCancelsStart`).

`ConnectorSessionProofs` proves, for every finite set of operations, all sets of requests, all
sizes and limits of frames and pipes and every `MaxInFlight`:

- `SessionInvariance`: `Spec => []IInv`
- `SessionTypeCorrect`: `Spec => []SessionTypeOK`
- `CounterIsExact`: `Spec => []InFlightExact`
- `FuturesAreAwaited`: `Spec => []FuturesAwaited`
- `AnswersReachTheRuntime`: `Spec => [](AnswersOnWire /\ AckWithinReach)`
- and, if `HighWater = 0`, `AckIsDelivered`: `Spec => []AckOutlivesConnector`
- `ImplementsContract`: `Spec => KeepsContract`

Its assumptions are `IdsAssumption` (operations, probes and stops have different ids),
`SizesAssumption`, `CallsAssumption` and `OpsAssumption` (finitely many operations, for their
number to be one). In all but the two theorems about `shutdown-ack` what `Load` and `Paused`
compute plays no part: there a drain may return whenever it likes. `KeepsContract` needs to know what the frames on the wire stand for. `Frames` says
that a request on the wire is due, that an answer on the wire belongs to a request that was
handled, that no pipe carries two requests with one id and that the frame being handled is on
none; `Books` that callers, futures and the maps of pending futures agree. The proof has
lemmas on what writing, reading and losing frames does to a pipe (`AppendFrame`, `TakeFrame`,
`SurvivingFrames`), one group of lemmas per conjunct of `IInv` with one step per action, and
for the refinement the predicate `AllHonoured`, which says of each request what a step did to
its future and its handling.

The answer to a shutdown is a matter of how much lies before it. `Load` counts the units of the
frames on a pipe, as the cardinality of a set rather than by recursion, so that a few facts about
finite sets give what the proof needs: a frame read brings the rest nearer by its size, and a
frame written behind changes nothing for what lies before it (`LoadOfTail`, `UnitsOfPrefix`,
`LoadGrows`). `AckInv` says that, while the connector lives, the answer to whatever it handled
is on the pipe until the runtime has read it (`AnswersOnWire`), and that with the cancelled event set
some shutdown was handled, and its ack, if unread, lies within `PipeRoom + HighWater` units of the runtime
(`AckWithinReach`). That is all a returned `drain()` guarantees, and the bound of
`AnswersReachTheRuntime` holds for every `HighWater`. What is lost when the process ends is what
the pipe has not taken, so only where the writer keeps nothing back (`HighWater = 0`) does the ack
survive. The connector's code does not set the limit to zero: `AckIsDelivered` is about the order of
ack and event, and finding 10 is about the rest.

`CatalogFeedProofs` proves, for all catalogs, sessions, instances, deployments and bounds:

- `CatalogTypeCorrect`: `Spec => []CatalogTypeOK`
- `OneRowPerVersion`: `Spec => []VersionsUnique`
- `AcknowledgedAreCommitted`: `Spec => AckCountsCommit`
- and, if `PurgeWhileFetching = FALSE`, `CursorNamesWhatIsStored`: `Spec => []CursorMeansStored`,
  `ReadersAreUpToDate`: `Spec => []ReadersSeeTheCatalog`, `ImplementsFeedContract`: `Spec =>
  KeepsFeedContract`, all from the inductive invariant of `CursorInvariance`

They assume `CatalogAssumption`: what is known of the feeds and of the connectors' keys. An
entry's name and date of change (for KEV, with what it says) determine the entry within its
kind, and two kinds share no names; the positions and dates are natural numbers other than
the ones that stand for "none"; the three keys are those the connectors use. The code relies
on the first of these when it skips a row that conflicts.

The argument. What the unique indexes take for the same row was made of the same entry
(`SameKeySameEntry`), so that a skipped insert loses nothing. Two open transactions never hold
the same key, nor does one hold what is stored, unless the purge is about to delete it: that
makes `VersionsUnique` inductive, and the rows a commit adds are in bijection with the
transaction's own, which gives the counts. For the cursors, the invariant `CursorInv` says of each session
what it has emitted (`EmittedIsSafe`): every entry of the revision that is no longer in `todo`
and passes validation is held, or, while the fetch waits, under way in its transaction; and
that a purge is alone with its kind (`PurgeAlone`). Without the last, a purge could delete between
the acknowledgement and the cursor, which is finding 2. For the readers, the rows of one id
are finitely many, so that one has a minimal set of newer ones (by the library's
well-founded strict-subset order): none. It is unique by `VersionsUnique` and at least as new as
the one the cursor stands for.

`WindowFeedProofs` proves, for all feeds, deployments, windows and bounds:

- `WindowTypeCorrect`: `Spec => []WindowTypeOK`
- `NoneDangles`: `Spec => []RelationshipsResolve`
- `NothingIsMissed`: `Spec => []NothingMissed`

from `WindowAssumption`: feeds are finite, no two entries of one are published at the same tick,
every entry can be read, or not, or has an observable that is refused. Both invariants speak of
what an open transaction reaches (`Reached`: the ids it still carries, and the stored ones): an
insert keeps that, whether it inserts or skips, a commit stores all of it, and a rollback
carries nothing. `EndsResolve` says that the relationships carried end in what is reached, which
holds of a bundle by `BundleResolves`. `FetchInv` says that what a request promised is reached
while its emit is unanswered, and that the short window is used only after a completed request.
That what is promised was in the reply (`PromisedIsReplied`) is arithmetic for the days, and for
the limit a count: the new entries later than one of at most `Limit` are fewer than `Limit`.

`CrashLoopProofs` proves, for all sets of versions, every threshold and every window:

- `VersionsAgree`: `Spec => []AgreeOnVersion`
- `CircuitBreaksByWindow`: `Spec => []CircuitFollowsWindow`
- `AttemptsImplementLifecycle`: `Spec => AttemptsKeepLifecycle`

from `VersionsAssumption` (positive numbers, finitely many), `WindowAssumption` (a natural number)
and `MaxRestartsAssumption`. For the versions the invariant describes
the answer on its way: the best common version, on which the connector has settled if it still
runs, or, if there is none, a version of the connector that the runtime cannot know. For the
circuit it compares the list that the code trims, before and after each append, with the
history of crashes that nothing ever trims: the stamps are the last crashes of the history, they are the ones
at most a window older than its last, and both are in the order of the clock
(`StampsAreRecent`, by `LastOf`). `RecordedCrash` is the step: what is trimmed is a prefix, and
what was dropped at an earlier crash has left the window of a later one for good.
`DecidedByStamps` carries the decision that was made on the list to the states that follow it.

`AttemptsKeepLifecycle` says that this view of the instance implements the specification that
`ConnectorRuntime` implements, so that the two views cannot drift apart in what states, births and
settling mean. An attempt lives from its spawn to its exit (`live <- runtime.pc # "none"`), and
`AttemptInv` says in which states that is. It needs no more of the hello exchange than that a
runtime still waiting for the answer is "starting".

`DevReloadProofs` proves, for any number of saves, any set of versions that do not import and any
number of exceptions (`DevAssumption`: both bounds are natural numbers):

- `DevTypeCorrect`: `Spec => []DevTypeOK`
- `NoneIsLeaked`: `Spec => []NoConnectorLeaked`
- `OneFetchRuns`: `Spec => []OneFetchOnLiveConnector`

A part of `trigger_reload` has three ways to end (`Outcomes`): no connector is left to tear down,
a teardown is awaited, or the version on disk is mounted; the lemmas on reloads are about these.
`LeakInv` says when a careful developer's reloads happen at all (`Orderly`: only between the first
`setup()` and Ctrl-C) and that a task which awaits a teardown still has that connector mounted
(`TearingDown`): the import that follows replaces a connector that is torn down. `FetchInv` adds
that nothing runs on a connector being set up or torn down (`NoneRunsBetween`), and that the
fetch or connector a reload read before its last await is still the runtime's
(`ReloadUpToDate`). This last part is what fails without the care (findings 14 and 15).

`ObjectPagesProofs` proves, for any finite set of bundles, all objects, dates, confidences, types
and page sizes (`PagesAssumption`: finitely many bundles of finitely many objects, of which no two
bundles have the same; page sizes are positive):

- `PagesTypeCorrect`: `Spec => []PagesTypeOK`
- `NothingIsSkipped`: `Spec => []WalkSeesEverything`
- `NothingIsRepeated`: `Spec => []QuietWalkShowsOnce`

Everything rests on a lemma about ORDER BY, OFFSET and LIMIT, `RankDecides`: a row that is alone with
its key is on a page exactly if the number of rows before it, its rank, falls into the page. Commits
can only raise a rank (`RanksGrow`), so a row that no page has shown stays at or behind the
caller's offset (`SeenInv`), and a page that leaves it behind is full. Without commits ranks are
fixed, and the pages so far show the ranks below the offset, once each (`QuietInv`).

`IdleMeansNoProcess`, `PagesTypeOK` and `WindowTypeOK` are proved and checked by no run: the run of
`KeepsLifecycle` checks what settled states need, and a type is no question to spend a run on.

Only model-checked is all liveness, which is out of the prover's reach together with `ENABLED`:
`FetchCycleMoves`, `ShutdownCompletes`, `StartingEnds`, `WatchedDrainEnds`, `OperationsEnd`,
`ProbesEnd`, `StopsEnd`, `CatalogEventuallyStored`, `EachFetchEnds`, `SavesAreAnswered`
and `InterruptEnds`. Every invariant and every action property of a passing run is
stated by a theorem.

## 5. Plan

Done: the runtime of one instance, the session between the two transports, the hello exchange
and the restart window, the store with all five connectors and its paged reader, the development runtime. Left, in
this order:

1. `SupervisorFleet`: several instances sharing the health loop, `start_all`, `shutdown_all`; one
   instance's slow probe or stop against the others.
2. Pure algorithms against reference definitions: backoff, durations, marking order, instance
   selection.

## 6. Not modelled

Field-by-field conversion of feed entries, schema validation, encoding, logging, metrics, the
HTTP queries that are one statement, the command line's parsing and printing, configuration files, engine and migrations,
and the user interface: data conversion and I/O without state that other tasks share. Several
instances under one supervisor are modelled where they meet, in the store; that they share
one health loop is left for later. `cancel_background_tasks()` has no caller. They stay listed
in `PROJECT.json`.

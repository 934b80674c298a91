------------------------------ MODULE DevReload ------------------------------
(***************************************************************************)
(* `prow connector dev` and `prow connector run`: the in-process runtime   *)
(* (dev_runtime.py), the debounced file watcher (dev_watcher.py) and the   *)
(* command that owns both (cli/connector.py), as the asyncio tasks they    *)
(* are.  A step runs from one await to the next.  The connector's own      *)
(* setup(), fetch() and teardown() may take any time, and may raise.       *)
(***************************************************************************)
EXTENDS Naturals, Sequences

CONSTANTS
  Broken,      \* the saved versions that cannot be imported
  MaxSaves,    \* bound on saves
  MaxFaults    \* bound on exceptions raised by the connector

ASSUME DevAssumption == MaxSaves \in Nat /\ MaxFaults \in Nat

VARIABLES
  mode,        \* [watch: dev or a single run; careful: see Quiet]
  disk,        \* the version of the source on disk: the number of saves
  watch,       \* the watcher: pushes, paths, timers and emit tasks
  waiting,     \* reload tasks that wait for _reload_lock
  reload,      \* the reload that holds it: [pc, conn, task, seen]
  answered,    \* the newest save that a finished reload can have seen
  loaded,      \* the version imported last
  run,         \* _run_loop
  main,        \* _async_dev, after start()
  conns,       \* every connector object made: [version, life, torn]
  conn,        \* self._connector, 0 for None
  transport,   \* self._transport, by the connector it was made for
  cancelled,   \* connectors whose ctx.cancelled is set
  fetches,     \* every fetch task made: [conn, status]
  task,        \* self._fetch_task
  awaited,     \* the fetch task that request_shutdown awaits
  faults

devVars == <<conns, conn, transport, cancelled, fetches, task, loaded>>
vars == <<mode, disk, watch, waiting, reload, answered, run, main, awaited, faults, devVars>>

NoReload == [pc |-> "none", conn |-> 0, task |-> 0, seen |-> 0]

Running(t) == t # 0 /\ fetches[t].status \in {"running", "cancelling"}

Init ==
  /\ mode \in [watch : BOOLEAN, careful : BOOLEAN]
  /\ disk = 0 /\ answered = 0 /\ loaded = 0 /\ waiting = 0 /\ faults = 0
  /\ watch = [pushed |-> 0, paths |-> FALSE, live |-> FALSE, lost |-> 0, emits |-> 0]
  /\ reload = NoReload
  /\ run = "new" /\ main = "waiting"
  /\ conns = <<>> /\ conn = 0 /\ transport = 0 /\ cancelled = {}
  /\ fetches = <<>> /\ task = 0 /\ awaited = 0

Fault == faults < MaxFaults /\ faults' = faults + 1

WatcherQuiet ==
  watch.pushed = 0 /\ ~watch.paths /\ ~watch.live /\ watch.emits = 0 /\ waiting = 0

\* A careful developer saves once the runtime is up, and interrupts it between reloads.
Quiet == WatcherQuiet /\ reload = NoReload

-----------------------------------------------------------------------------
(* What the steps are made of.                                             *)

\* _import_connector_class and the synchronous part of _mount_connector.
Mounts(version) ==
  /\ conns' = Append(conns, [version |-> version, life |-> "setup", torn |-> 0])
  /\ conn' = Len(conns) + 1
  /\ transport' = Len(conns) + 1
  /\ loaded' = version

\* teardown() of self._connector begins.
TearsDown == conns' = [conns EXCEPT ![conn].torn = @ + 1]

Ready(c) == conns' = [conns EXCEPT ![c].life = "ready"]

\* _start_fetch_task: on whatever self._connector is by now.
StartsFetch ==
  /\ fetches' = Append(fetches, [conn |-> conn, status |-> "running"])
  /\ task' = Len(fetches) + 1

Cancels(t) == fetches' = [fetches EXCEPT ![t].status = "cancelling"]

-----------------------------------------------------------------------------
(* The connector's fetch().                                                *)

FetchEnds(t) ==
  /\ Running(t)
  /\ fetches' = [fetches EXCEPT ![t].status = "done"]
  /\ UNCHANGED <<awaited, mode, disk, watch, waiting, reload, answered, run, main, faults,
                 conns, conn, transport, cancelled, task, loaded>>

FetchRaises(t) ==
  /\ t # 0 /\ fetches[t].status = "running" /\ Fault
  /\ fetches' = [fetches EXCEPT ![t].status = "raised"]
  /\ UNCHANGED <<awaited, mode, disk, watch, waiting, reload, answered, run, main,
                 conns, conn, transport, cancelled, task, loaded>>

-----------------------------------------------------------------------------
(* _run_loop.                                                              *)

\* _cleanup_connector, up to its await.
EntersCleanup ==
  IF conn = 0
  THEN run' = "ended" /\ UNCHANGED conns
  ELSE run' = "cleanup" /\ TearsDown

Start ==
  /\ run = "new"
  /\ IF disk \in Broken
     THEN run' = "ended" /\ loaded' = disk /\ UNCHANGED <<conns, conn, transport>>
     ELSE Mounts(disk) /\ run' = "setup"
  /\ UNCHANGED <<awaited, mode, disk, watch, waiting, reload, answered, main, faults,
                 cancelled, fetches, task>>

\* The initial connector is set up; a single run then joins its fetch.
SetUp ==
  /\ run = "setup"
  /\ IF conn = 0   \* a reload failed meanwhile: "connector is not mounted"
     THEN run' = "ended" /\ UNCHANGED <<conns, fetches, task>>
     ELSE /\ Ready(1) /\ StartsFetch
          /\ run' = IF mode.watch THEN "idle" ELSE "join"
  /\ UNCHANGED <<awaited, mode, disk, watch, waiting, reload, answered, main, faults,
                 conn, transport, cancelled, loaded>>

SetUpFails ==
  /\ run = "setup" /\ Fault
  /\ EntersCleanup
  /\ UNCHANGED <<awaited, mode, disk, watch, waiting, reload, answered, main,
                 conn, transport, cancelled, fetches, task, loaded>>

Joined ==
  /\ run = "join" /\ ~Running(task)
  /\ EntersCleanup
  /\ task' = 0
  /\ UNCHANGED <<awaited, mode, disk, watch, waiting, reload, answered, main, faults,
                 conn, transport, cancelled, fetches, loaded>>

\* The teardown has returned, or raised: suppressed.
CleanedUp ==
  /\ run = "cleanup"
  /\ run' = "ended" /\ conn' = 0
  /\ UNCHANGED <<awaited, mode, disk, watch, waiting, reload, answered, main, faults,
                 conns, transport, cancelled, fetches, task, loaded>>

-----------------------------------------------------------------------------
(* The file watcher.                                                       *)

Save ==
  /\ disk < MaxSaves /\ mode.watch /\ main # "exit"
  /\ mode.careful => run = "idle" /\ main = "waiting"
  /\ disk' = disk + 1
  /\ watch' = [watch EXCEPT !.pushed = @ + 1]
  /\ UNCHANGED <<awaited, mode, waiting, reload, answered, run, main, faults, devVars>>

\* On the loop: cancel the timer, if it is still there to be cancelled, and set another.
Enqueue ==
  /\ watch.pushed > 0 /\ main # "exit"
  /\ watch' = [watch EXCEPT !.pushed = @ - 1, !.paths = TRUE, !.live = TRUE]
  /\ UNCHANGED <<awaited, mode, disk, waiting, reload, answered, run, main, faults, devVars>>

\* The timer is set on the loop, where the first step of _run_loop is scheduled already.
OnTimer ==
  /\ main # "exit" /\ run # "new"
  /\ \/ watch.live /\ watch' = [watch EXCEPT !.live = FALSE, !.emits = @ + 1]
     \/ watch.lost > 0 /\ watch' = [watch EXCEPT !.lost = @ - 1, !.emits = @ + 1]
  /\ UNCHANGED <<awaited, mode, disk, waiting, reload, answered, run, main, faults, devVars>>

\* Faulty variant: a reload that is under way is taken to cover the new paths.
EmitUnlessReloading ==
  /\ watch.emits > 0 /\ main # "exit"
  /\ watch' = [watch EXCEPT !.emits = @ - 1, !.paths = FALSE, !.live = FALSE,
                            !.lost = IF watch.live THEN @ + 1 ELSE @]
  /\ waiting' = IF watch.paths /\ reload = NoReload THEN waiting + 1 ELSE waiting
  /\ UNCHANGED <<awaited, mode, disk, reload, answered, run, main, faults, devVars>>

\* _emit forgets the handle, perhaps of a timer that was set meanwhile.
EmitPaths ==
  /\ watch.emits > 0 /\ main # "exit"
  /\ watch' = [watch EXCEPT !.emits = @ - 1, !.paths = FALSE, !.live = FALSE,
                            !.lost = IF watch.live THEN @ + 1 ELSE @]
  /\ waiting' = IF watch.paths THEN waiting + 1 ELSE waiting
  /\ UNCHANGED <<awaited, mode, disk, reload, answered, run, main, faults, devVars>>

-----------------------------------------------------------------------------
(* trigger_reload.                                                         *)

Answers ==
  /\ reload' = NoReload
  /\ answered' = reload.seen

\* The exception handler: teardown again, no connector, no transport.
Fails(r) ==
  /\ UNCHANGED conn
  /\ IF conn = 0
     THEN reload' = NoReload /\ answered' = r.seen /\ transport' = 0 /\ UNCHANGED conns
     ELSE /\ TearsDown /\ reload' = [r EXCEPT !.pc = "failing"]
          /\ UNCHANGED <<answered, transport>>

Imports(r) ==
  IF disk \in Broken
  THEN Fails(r) /\ loaded' = disk
  ELSE /\ Mounts(disk) /\ UNCHANGED answered
       /\ reload' = [r EXCEPT !.pc = "setup", !.conn = Len(conns) + 1]

\* The old connector's teardown, if there is one; then the import.
TeardownOrImport(r) ==
  IF conn = 0
  THEN Imports(r)
  ELSE /\ TearsDown /\ reload' = [r EXCEPT !.pc = "teardown"]
       /\ UNCHANGED <<conn, transport, answered, loaded>>

ReloadBegins ==
  LET r == [NoReload EXCEPT !.pc = "cooperate", !.task = task, !.seen = disk] IN
  /\ reload = NoReload /\ waiting > 0 /\ main # "exit"
  /\ waiting' = waiting - 1
  /\ cancelled' = IF transport = 0 THEN cancelled ELSE cancelled \cup {transport}
  /\ IF Running(task)
     THEN reload' = r /\ UNCHANGED <<conns, conn, transport, answered, loaded>>
     ELSE TeardownOrImport(r)
  /\ UNCHANGED <<awaited, mode, disk, watch, run, main, faults, fetches, task>>

\* The fetch noticed ctx.cancelled, came to its end, or was cancelled.  After a timeout
\* self._fetch_task is cancelled and awaited too: it may be another fetch by then.
FetchGone ==
  /\ reload.pc \in {"cooperate", "cancelling"} /\ main # "exit"
  /\ fetches[reload.task].status = "done"
  /\ IF reload.pc = "cancelling" /\ Running(task)
     THEN /\ Cancels(task) /\ reload' = [reload EXCEPT !.task = task]
          /\ UNCHANGED <<conns, conn, transport, answered, loaded>>
     ELSE TeardownOrImport(reload) /\ UNCHANGED fetches
  /\ UNCHANGED <<mode, disk, watch, waiting, run, main, awaited, faults, cancelled, task>>

\* What the fetch raises comes out of wait_for, and fails the reload.
FetchFailsReload ==
  /\ reload.pc = "cooperate" /\ fetches[reload.task].status = "raised" /\ main # "exit"
  /\ Fails(reload)
  /\ UNCHANGED <<awaited, mode, disk, watch, waiting, run, main, faults, conn, cancelled,
                 fetches, task, loaded>>

\* Faulty variant: the timed-out fetch is left to itself.
FetchAbandoned ==
  /\ reload.pc = "cooperate" /\ fetches[reload.task].status = "running" /\ main # "exit"
  /\ TeardownOrImport(reload)
  /\ UNCHANGED <<awaited, mode, disk, watch, waiting, run, main, faults, cancelled, fetches,
                 task>>

FetchTimeout ==
  /\ reload.pc = "cooperate" /\ fetches[reload.task].status = "running" /\ main # "exit"
  /\ Cancels(reload.task)
  /\ reload' = [reload EXCEPT !.pc = "cancelling"]
  /\ UNCHANGED <<awaited, mode, disk, watch, waiting, answered, run, main, faults, conns, conn,
                 transport, cancelled, task, loaded>>

TornDown ==
  /\ reload.pc = "teardown" /\ main # "exit"
  /\ Imports(reload)
  /\ UNCHANGED <<awaited, mode, disk, watch, waiting, run, main, faults, cancelled, fetches,
                 task>>

TeardownRaises ==
  /\ reload.pc = "teardown" /\ Fault /\ main # "exit"
  /\ Fails(reload)
  /\ UNCHANGED <<awaited, mode, disk, watch, waiting, run, main, conn, cancelled, fetches,
                 task, loaded>>

\* Faulty variant: the fetch is started without asking for a connector.
ReloadSetUpUnchecked ==
  /\ reload.pc = "setup" /\ main # "exit"
  /\ Ready(reload.conn) /\ StartsFetch /\ Answers
  /\ UNCHANGED <<awaited, mode, disk, watch, waiting, run, main, faults, conn, transport,
                 cancelled, loaded>>

ReloadSetUp ==
  /\ reload.pc = "setup" /\ main # "exit"
  /\ IF conn = 0   \* cleaned up meanwhile: the new fetch has no connector
     THEN transport' = 0 /\ UNCHANGED <<conns, fetches, task>>
     ELSE Ready(reload.conn) /\ StartsFetch /\ UNCHANGED transport
  /\ Answers
  /\ UNCHANGED <<awaited, mode, disk, watch, waiting, run, main, faults, conn, cancelled,
                 loaded>>

\* Faulty variant: a connector whose setup() raised is dropped as it is.
ReloadSetUpDropped ==
  /\ reload.pc = "setup" /\ Fault /\ main # "exit"
  /\ Answers /\ conn' = 0 /\ transport' = 0
  /\ UNCHANGED <<awaited, mode, disk, watch, waiting, run, main, conns, cancelled, fetches,
                 task, loaded>>

ReloadSetUpFails ==
  /\ reload.pc = "setup" /\ Fault /\ main # "exit"
  /\ Fails(reload)
  /\ UNCHANGED <<awaited, mode, disk, watch, waiting, run, main, conn, cancelled, fetches,
                 task, loaded>>

ReloadFailed ==
  /\ reload.pc = "failing" /\ main # "exit"
  /\ conn' = 0 /\ transport' = 0
  /\ Answers
  /\ UNCHANGED <<awaited, mode, disk, watch, waiting, run, main, faults, conns, cancelled,
                 fetches, task, loaded>>

-----------------------------------------------------------------------------
(* The command: Ctrl-C, request_shutdown, the end of the event loop.       *)

\* Cancels the task that awaits wait(), and with it _run_loop where it is.
Interrupt ==
  /\ main = "waiting" /\ run # "new"
  /\ mode.careful => Quiet
  /\ main' = "interrupted"
  /\ CASE run \in {"setup", "idle"} -> EntersCleanup /\ UNCHANGED fetches
       [] run = "join" -> /\ IF Running(task) THEN Cancels(task) ELSE UNCHANGED fetches
                          /\ UNCHANGED <<run, conns>>
       [] OTHER -> run' = "ended" /\ UNCHANGED <<conns, fetches>>
  /\ UNCHANGED <<awaited, mode, disk, watch, waiting, reload, answered, faults, conn,
                 transport,
                 cancelled, task, loaded>>

LastTeardown ==
  IF conn = 0
  THEN main' = "stopping" /\ UNCHANGED conns
  ELSE main' = "teardown" /\ TearsDown

\* Faulty variant: the fetch is awaited, but not cancelled.
RequestShutdownWaits ==
  /\ main \in {"waiting", "interrupted"} /\ run = "ended"
  /\ cancelled' = IF transport = 0 THEN cancelled ELSE cancelled \cup {transport}
  /\ IF Running(task)
     THEN awaited' = task /\ main' = "cancelling" /\ UNCHANGED conns
     ELSE LastTeardown /\ UNCHANGED awaited
  /\ UNCHANGED <<mode, disk, watch, waiting, reload, answered, run, faults, conn, transport,
                 fetches, task, loaded>>

\* request_shutdown takes no lock.
RequestShutdown ==
  /\ main \in {"waiting", "interrupted"} /\ run = "ended"
  /\ cancelled' = IF transport = 0 THEN cancelled ELSE cancelled \cup {transport}
  /\ IF Running(task)
     THEN Cancels(task) /\ awaited' = task /\ main' = "cancelling" /\ UNCHANGED conns
     ELSE LastTeardown /\ UNCHANGED <<awaited, fetches>>
  /\ UNCHANGED <<mode, disk, watch, waiting, reload, answered, run, faults, conn, transport,
                 task, loaded>>

FetchCancelled ==
  /\ main = "cancelling" /\ ~Running(awaited)
  /\ LastTeardown
  /\ UNCHANGED <<awaited, mode, disk, watch, waiting, reload, answered, run, faults, conn,
                 transport,
                 cancelled, fetches, task, loaded>>

LastTornDown ==
  /\ main = "teardown"
  /\ main' = "stopping"
  /\ UNCHANGED <<awaited, mode, disk, watch, waiting, reload, answered, run, faults, devVars>>

\* watcher.stop() blocks the loop; then asyncio.run() cancels every task that is left.
Exit ==
  /\ main = "stopping"
  /\ main' = "exit"
  /\ waiting' = 0 /\ reload' = NoReload
  /\ fetches' = [t \in DOMAIN fetches |->
                   IF Running(t) THEN [fetches[t] EXCEPT !.status = "done"] ELSE fetches[t]]
  /\ UNCHANGED <<awaited, mode, disk, watch, answered, run, faults, conns, conn, transport,
                 cancelled,
                 task, loaded>>

RunLoop == Start \/ SetUp \/ SetUpFails \/ Joined \/ CleanedUp
Watcher == Enqueue \/ OnTimer \/ EmitPaths
Reload ==
  \/ ReloadBegins \/ FetchGone \/ FetchFailsReload \/ FetchTimeout \/ TornDown
  \/ TeardownRaises \/ ReloadSetUp \/ ReloadSetUpFails \/ ReloadFailed
Shutdown == RequestShutdown \/ FetchCancelled \/ LastTornDown \/ Exit

Next ==
  \/ RunLoop \/ Save \/ Watcher \/ Reload \/ Interrupt \/ Shutdown
  \/ \E t \in DOMAIN fetches : FetchEnds(t) \/ FetchRaises(t)

\* The event loop runs every task; a fetch ends when its task is cancelled, otherwise
\* it may go on for ever, but for the fetch of a single run.
FetchFair == \E t \in DOMAIN fetches :
  (fetches[t].status = "cancelling" \/ run = "join") /\ FetchEnds(t)

Fairness ==
  WF_vars(RunLoop) /\ WF_vars(Watcher) /\ WF_vars(Reload) /\ WF_vars(Shutdown) /\ WF_vars(FetchFair)

Spec == Init /\ [][Next]_vars
FairSpec == Spec /\ Fairness

-----------------------------------------------------------------------------
(* Correctness.                                                            *)

\* Every variable has its type; in particular only versions that can be imported are ever
\* mounted, and a fetch always belongs to a connector (dev_runtime.py 218-354).
DevTypeOK ==
  /\ disk \in 0 .. MaxSaves /\ answered \in 0 .. disk /\ loaded \in 0 .. disk
  /\ reload.pc \in {"none", "cooperate", "cancelling", "teardown", "setup", "failing"}
  /\ run \in {"new", "setup", "join", "idle", "cleanup", "ended"}
  /\ main \in {"waiting", "interrupted", "cancelling", "teardown", "stopping", "exit"}
  /\ \A c \in DOMAIN conns : /\ conns[c].version \in 0 .. disk \ Broken
                             /\ conns[c].life \in {"setup", "ready"} /\ conns[c].torn \in Nat
  /\ conn \in {0} \cup DOMAIN conns /\ transport \in {0} \cup DOMAIN conns
  /\ cancelled \subseteq DOMAIN conns
  /\ \A t \in DOMAIN fetches : /\ fetches[t].conn \in DOMAIN conns
                               /\ fetches[t].status \in {"running", "cancelling", "done", "raised"}
  /\ task \in {0} \cup DOMAIN fetches /\ awaited \in {0} \cup DOMAIN fetches

\* Reloads never leave an old fetch running: with a careful developer at most one
\* fetch runs, on the connector that is mounted, set up and not torn down, however
\* fast the saves come and whatever raises (dev_runtime.py 303-354).
OneFetchOnLiveConnector ==
  mode.careful /\ main = "waiting" /\ run # "cleanup" =>
    \A t \in DOMAIN fetches :
      Running(t) => /\ t = task
                    /\ fetches[t].conn = conn
                    /\ conns[conn].life = "ready" /\ conns[conn].torn = 0

\* No connector is dropped without its teardown(): whatever is not mounted any more
\* has been torn down, and so has everything when the command ends.
NoConnectorLeaked ==
  mode.careful =>
    \A c \in DOMAIN conns : c # conn \/ main = "exit" => conns[c].torn > 0

\* Every save is answered by a reload that began after it, however it falls between
\* the timer, the emit task and the lock, unless the command is ended.
SavesAreAnswered ==
  \A v \in 1 .. MaxSaves : main = "waiting" /\ disk = v ~> answered >= v \/ main # "waiting"

\* Ctrl-C, a failed start and the end of a single run all end the process.
InterruptEnds == run = "ended" \/ main = "interrupted" ~> main = "exit"

\* connector-runtime.md: on file change the runtime cancels the fetch, and reimports.
SavedCodeIsImported ==
  \A v \in 1 .. MaxSaves : main = "waiting" /\ disk = v ~> loaded >= v \/ main # "waiting"

\* connector-runtime.md 114 and 116: on file change the runtime cancels any in-flight
\* fetch() before it reimports, so that no task keeps running the old code.
StaleCodeIsCancelled ==
  main = "waiting" /\ conn # 0 =>
    \A t \in DOMAIN fetches : Running(t) => fetches[t].conn = conn

\* 02_CONNECTOR_SDK.md 304: teardown() is called once on shutdown.  A connector that the
\* shutdown lets go of has had its call, also when a reload is under way.
TornDownAtShutdown ==
  main = "interrupted" => \A c \in DOMAIN conns : c # conn => conns[c].torn > 0
=============================================================================

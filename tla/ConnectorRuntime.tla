--------------------------- MODULE ConnectorRuntime ---------------------------
(***************************************************************************)
(* A connector instance together with the tasks that drive it:             *)
(*   - the scheduler's loop for the instance (scheduler.py, run_fetch),    *)
(*   - the supervisor's health probe loop (supervisor.py),                 *)
(*   - the application lifespan, which stops the scheduler and then the    *)
(*     supervisor (api/app.py, shutdown_all),                              *)
(*   - an operator calling Supervisor.clear_circuit_break.                 *)
(***************************************************************************)
EXTENDS ConnectorInstance

CONSTANTS
  OperatorClears,       \* an operator may clear a broken circuit
  HelloWriteMayRaise,   \* a subprocess may be gone before hello is written
  CancelMaySwallow      \* a cancellation may hit wait_dispatch_finished(), which suppresses it

ASSUME RuntimeAssumption ==
  {OperatorClears, HelloWriteMayRaise, CancelMaySwallow} \subseteq BOOLEAN

VARIABLES
  sched,    \* the scheduler task: where its loop is
  app,      \* the application lifespan
  health,   \* the health loop: sleep, probe, reap, off
  probed,   \* the subprocess a probe or a remediation kill is about
  misses    \* _health_consecutive_misses

taskVars == <<sched, app, health, probed, misses>>
vars == <<instanceVars, processVars, callVars, taskVars>>

RuntimeTypeOK ==
  /\ TypeOK
  /\ sched \in {"fetch", "starting", "stopping", "idle", "sleep", "done"}
  /\ app \in {"running", "stop_scheduler", "stop_health", "stop_instance", "stopped"}
  /\ health \in {"sleep", "probe", "reap", "off"}
  /\ probed \in Procs \cup {NoProc}
  /\ misses \in 0..1

RuntimeInit ==
  /\ Init
  /\ sched = "fetch" /\ app = "running"
  /\ health = "sleep" /\ probed = NoProc /\ misses = 0

\* A handle for a new ConnectorProcess.
Fresh(p) == Unreferenced(p) /\ probed # p

-----------------------------------------------------------------------------
(* Scheduler: one iteration of _run_loop.                                  *)

\* run_fetch() of an instance that is not running: start it.
FetchStarts(p) ==
  /\ sched = "fetch" /\ state \in {"not_started", "dead"} /\ Fresh(p)
  /\ Start("scheduler", p)
  /\ sched' = "starting"
  /\ UNCHANGED <<callVars, app, health, probed, misses>>

\* run_fetch() of an instance that is up: shut it down first.
FetchStops ==
  /\ sched = "fetch" /\ state \in ActiveStates \cup {"starting", "draining"}
  /\ RequestShutdown("scheduler")
  /\ sched' = "stopping"
  /\ UNCHANGED <<app, health, probed, misses>>

\* A broken circuit is skipped; a crashed instance is only waited for.
FetchSkips ==
  /\ sched = "fetch" /\ state \in {"circuit_broken", "crashed"}
  /\ sched' = IF state = "crashed" THEN "idle" ELSE "sleep"
  /\ UNCHANGED <<instanceVars, processVars, callVars, app, health, probed, misses>>

\* run_fetch() after the join: start if the instance is down, otherwise just wait.
RestartAfterStop(p) ==
  /\ sched = "stopping" /\ Joined("scheduler")
  /\ state \in {"not_started", "dead"} /\ Fresh(p)
  /\ Start("scheduler", p)
  /\ call' = [call EXCEPT !["scheduler"] = "none"]
  /\ callProc' = [callProc EXCEPT !["scheduler"] = NoProc]
  /\ sched' = "starting"
  /\ UNCHANGED <<app, health, probed, misses>>

StopWithoutRestart ==
  /\ sched = "stopping" /\ Joined("scheduler")
  /\ state \notin {"not_started", "dead"}
  /\ call' = [call EXCEPT !["scheduler"] = "none"]
  /\ callProc' = [callProc EXCEPT !["scheduler"] = NoProc]
  /\ sched' = "idle"
  /\ UNCHANGED <<instanceVars, processVars, app, health, probed, misses>>

\* wait_until_idle() sees an idle state.
IdleSeen ==
  /\ sched = "idle" /\ state \in IdleStates
  /\ sched' = "sleep"
  /\ UNCHANGED <<instanceVars, processVars, callVars, app, health, probed, misses>>

\* The interval ends, or the stop event is set.
IntervalEnds ==
  /\ sched = "sleep"
  /\ sched' = IF app = "running" THEN "fetch" ELSE "done"
  /\ UNCHANGED <<instanceVars, processVars, callVars, app, health, probed, misses>>

-----------------------------------------------------------------------------
(* Starting tasks: what start() does to the task that awaits it.           *)

\* start() of p returned to its caller or raised: run_fetch() goes on to
\* wait_until_idle() or the loop logs the exception and sleeps.
StarterResumes(p, ok) ==
  /\ sched' = IF starter[p] # "scheduler" THEN sched ELSE IF ok THEN "idle" ELSE "sleep"
  /\ UNCHANGED <<app, health, probed, misses>>

StartStep(p) ==
  \/ SubprocessCreated(p) /\ UNCHANGED taskVars
  \/ SubprocessSpawnFails(p) /\ StarterResumes(p, state = "starting")
  \/ HelloSucceeds(p) /\ StarterResumes(p, state = "starting")
  \/ HelloFails(p) /\ UNCHANGED taskVars
  \/ FailedHelloReaped(p) /\ StarterResumes(p, state = "starting")
  \/ HelloWriteMayRaise /\ HelloWriteRaises(p) /\ StarterResumes(p, FALSE)

\* clear_circuit_break(), by an operator.
OperatorClear(p) ==
  /\ OperatorClears /\ Fresh(p)
  /\ ClearCircuitBreak(p)
  /\ UNCHANGED taskVars

WatcherStep(p) ==
  /\ GracefulExitHandled(p) \/ StopHandled(p) \/ CircuitBreakHandled(p) \/ RestartHandled(p)
  /\ UNCHANGED taskVars

RestartStep ==
  /\ RestartAbandoned \/ \E p \in Procs : Fresh(p) /\ RestartBackoffElapses(p)
  /\ UNCHANGED taskVars

CallStep(t) == StopCall(t) /\ UNCHANGED taskVars

-----------------------------------------------------------------------------
(* Health: _health_probe_loop(), probe_health(), _mark_unhealthy().        *)

HealthUnchanged ==
  UNCHANGED <<instanceVars, callVars, watch, starter, link, timeoutKill, sched, app>>

\* An instance that is not active has its miss counter cleared.
HealthSkips ==
  /\ health = "sleep" /\ state \notin ActiveStates
  /\ misses' = 0
  /\ UNCHANGED <<health, probed, os>> /\ HealthUnchanged

HealthProbes ==
  /\ health = "sleep" /\ state \in ActiveStates /\ process # NoProc
  /\ health' = "probe" /\ probed' = process
  /\ UNCHANGED <<misses, os>> /\ HealthUnchanged

\* health-ack with status healthy or degraded.
ProbeAnswered ==
  /\ health = "probe" /\ link[probed] = "up"
  /\ health' = "sleep" /\ probed' = NoProc /\ misses' = 0
  /\ UNCHANGED os /\ HealthUnchanged

\* Faulty variant: only the third miss in a row kills.
ProbeMissedThrice ==
  /\ health = "probe"
  /\ IF misses < 2
     THEN /\ misses' = misses + 1
          /\ health' = "sleep" /\ probed' = NoProc
          /\ UNCHANGED os
     ELSE /\ misses' = 0
          /\ IF state \in ActiveStates /\ process # NoProc /\ os[process] = "alive"
             THEN health' = "reap" /\ probed' = process /\ os' = Killed(os, process)
             ELSE health' = "sleep" /\ probed' = NoProc /\ UNCHANGED os
  /\ HealthUnchanged

\* Timeout, unhealthy, or the stream ended; the second miss in a row kills
\* whatever subprocess the instance has by now, if it is active.
ProbeMissed ==
  /\ health = "probe"
  /\ IF misses = 0
     THEN /\ misses' = 1
          /\ health' = "sleep" /\ probed' = NoProc
          /\ UNCHANGED os
     ELSE /\ misses' = 0
          /\ IF state \in ActiveStates /\ process # NoProc /\ os[process] = "alive"
             THEN health' = "reap" /\ probed' = process /\ os' = Killed(os, process)
             ELSE health' = "sleep" /\ probed' = NoProc /\ UNCHANGED os
  /\ HealthUnchanged

RemediationReaped ==
  /\ health = "reap" /\ ~Live(probed) /\ link[probed] # "up"
  /\ health' = "sleep" /\ probed' = NoProc
  /\ UNCHANGED <<misses, os>> /\ HealthUnchanged

HealthStep == HealthSkips \/ HealthProbes \/ ProbeAnswered \/ ProbeMissed \/ RemediationReaped

-----------------------------------------------------------------------------
(* Application lifespan: ConnectorScheduler.stop(), Supervisor.shutdown_all(). *)

\* A task may be awaiting the end of a dispatch loop that is still draining.
InDispatchJoin(p) == p # NoProc /\ ~Live(p) /\ link[p] = "up"

\* wait_dispatch_finished() is cancelled: the dispatch loop it awaits is cancelled
\* with it, the awaiting task sees neither.
DispatchCancelled(p) ==
  /\ CancelMaySwallow /\ InDispatchJoin(p)
  /\ link' = [link EXCEPT ![p] = "closed"]

\* Leave the call without finishing it.
DropCall ==
  /\ call' = [call EXCEPT !["scheduler"] = "none"]
  /\ callProc' = [callProc EXCEPT !["scheduler"] = NoProc]

\* task.cancel() on the scheduler task, at each of its awaits.
CancelsSleepOrWait ==
  /\ sched \in {"fetch", "idle", "sleep"}
  /\ sched' = "done"
  /\ UNCHANGED <<starter, os, watch, link, restartTask, callVars>>

\* Inside start(): the subprocess is left behind and the instance stays starting.
CancelsStart ==
  /\ sched = "starting"
  /\ sched' = "done"
  /\ CancelStarter("scheduler")
  /\ os' = AfterCancel("scheduler")
  /\ UNCHANGED <<watch, link, restartTask, callVars>>

\* Inside request_shutdown(): it is abandoned ...
CancelsStop ==
  /\ sched = "stopping" /\ call["scheduler"] \in {"ack", "term", "reap"}
  /\ sched' = "done"
  /\ DropCall
  /\ UNCHANGED <<starter, os, watch, link, restartTask>>

\* ... unless the await that is hit suppresses CancelledError.
StopSwallowsCancel ==
  /\ sched = "stopping" /\ call["scheduler"] = "reap"
  /\ DispatchCancelled(callProc["scheduler"])
  /\ UNCHANGED <<sched, starter, os, watch, restartTask, callVars>>

\* Inside join_background_tasks(): the joined task is cancelled with it, and the
\* CancelledError is suppressed, so the scheduler task carries on.
CancelsJoinedRestart ==
  /\ sched = "stopping" /\ call["scheduler"] = "join_restart"
  /\ restartTask' = "none"
  /\ CancelStarter("restart") /\ os' = AfterCancel("restart")
  /\ Await("scheduler", "join_watcher", callProc["scheduler"])
  /\ UNCHANGED <<sched, watch, link>>

\* A watcher that has just ended has not woken the scheduler task yet: the cancellation
\* is thrown into the same await, and suppressed.  Without a watcher there is no await.
CancelsJoinedWatcher ==
  /\ sched = "stopping" /\ call["scheduler"] = "join_watcher"
  /\ callProc["scheduler"] # NoProc
  /\ watch' = [watch EXCEPT ![callProc["scheduler"]] = "done"]
  /\ UNCHANGED <<sched, starter, os, link, restartTask, callVars>>

WatcherSwallowsCancel ==
  /\ sched = "stopping" /\ call["scheduler"] = "join_watcher"
  /\ DispatchCancelled(callProc["scheduler"])
  /\ UNCHANGED <<sched, starter, os, watch, restartTask, callVars>>

StopScheduler ==
  /\ app = "running"
  /\ app' = "stop_scheduler"
  /\ \/ CancelsSleepOrWait \/ CancelsStart \/ CancelsStop \/ StopSwallowsCancel
     \/ CancelsJoinedRestart \/ CancelsJoinedWatcher \/ WatcherSwallowsCancel
  /\ UNCHANGED <<state, process, shutdownRequested, recorded, watcherTask,
                 timeoutKill, health, probed, misses>>

\* shutdown_all(): the health task is cancelled and awaited ...
StopHealth ==
  /\ app = "stop_scheduler" /\ sched = "done"
  /\ app' = "stop_health"
  /\ \/ health' = "off" /\ probed' = NoProc /\ UNCHANGED link
     \/ health = "reap" /\ DispatchCancelled(probed) /\ UNCHANGED <<health, probed>>
  /\ UNCHANGED <<instanceVars, watch, starter, os, timeoutKill, callVars, sched, misses>>

\* ... then the instance is shut down ...
StopInstance ==
  /\ app = "stop_health" /\ health = "off"
  /\ app' = "stop_instance"
  /\ RequestShutdown("app")
  /\ UNCHANGED <<sched, health, probed, misses>>

\* ... and its background tasks joined.
AppStopped ==
  /\ app = "stop_instance" /\ Joined("app")
  /\ app' = "stopped"
  /\ call' = [call EXCEPT !["app"] = "none"]
  /\ callProc' = [callProc EXCEPT !["app"] = NoProc]
  /\ UNCHANGED <<instanceVars, processVars, sched, health, probed, misses>>

\* The interpreter has nothing left to do.
Terminated == app = "stopped" /\ UNCHANGED vars

-----------------------------------------------------------------------------

SchedulerStep ==
  \/ \E p \in Procs : FetchStarts(p) \/ RestartAfterStop(p)
  \/ FetchStops \/ FetchSkips \/ StopWithoutRestart \/ IdleSeen \/ IntervalEnds

\* What a subprocess, or its stream, does by itself.
Environment ==
  \/ \E p \in Procs : ProcessExitsCleanly(p) \/ ProcessCrashes(p) \/ DispatchFails(p) \/ FirstEmit(p)
  \/ WindowSlides

Next ==
  \/ SchedulerStep
  \/ \E p \in Procs : StartStep(p) \/ WatcherStep(p) \/ OperatorClear(p)
  \/ RestartStep
  \/ \E t \in Callers : CallStep(t)
  \/ HealthStep
  \/ StopScheduler \/ StopHealth \/ StopInstance \/ AppStopped
  \/ Environment /\ UNCHANGED taskVars
  \/ \E p \in Procs : DispatchReadsEof(p) /\ UNCHANGED taskVars
  \/ Terminated

Spec == RuntimeInit /\ [][Next]_vars

\* Every task of the event loop gets its turn; hello negotiation, probes, acks and
\* SIGTERM have timeouts, so the actions that await them always come to an end.
TaskFairness ==
  /\ WF_vars(SchedulerStep)
  /\ \A p \in Procs : WF_vars(StartStep(p)) /\ WF_vars(WatcherStep(p))
  /\ WF_vars(RestartStep)
  /\ \A t \in Callers : WF_vars(CallStep(t))
  /\ WF_vars(ProbeAnswered \/ ProbeMissed \/ RemediationReaped)
  /\ WF_vars(StopHealth) /\ WF_vars(StopInstance) /\ WF_vars(AppStopped)
  /\ \A p \in Procs : WF_vars(DispatchReadsEof(p) /\ UNCHANGED taskVars)

\* A connector does not run forever: fetch() returns or fails.
ConnectorsEnd ==
  \A p \in Procs : WF_vars((ProcessExitsCleanly(p) \/ ProcessCrashes(p)) /\ UNCHANGED taskVars)

FairSpec == Spec /\ TaskFairness /\ ConnectorsEnd

\* The connector may hang; the supervisor's own tasks do not.
HungConnectorSpec == Spec /\ TaskFairness

-----------------------------------------------------------------------------
(* Safety.                                                                 *)

\* However starts, crashes, backoffs, shutdowns and clears interleave, an instance
\* never has two subprocesses at once (instance.py: "one ConnectorProcess at a time").
AtMostOneLiveProcess == \A p, q \in Procs : Live(p) /\ Live(q) => p = q

\* wait_until_idle() returns, and start() accepts, only in states in which no
\* subprocess of the instance is left; nor is the restart task about to make one.
IdleMeansNoProcess ==
  state \in IdleStates => restartTask # "spawning" /\ \A p \in Procs : ~Live(p)

\* While the application runs, an instance shown as ready or running has its
\* watcher on the very subprocess it serves, so its exit cannot go unnoticed.
ActiveIsWatched ==
  app = "running" /\ state \in ActiveStates =>
    process = watcherTask /\ \E p \in Procs : process = p /\ watch[p] = "waiting"

\* While the application runs and no shutdown was asked for, a crashed instance
\* has somebody to move it on: a sleeping restart task or a watcher to decide.
CrashedIsOwned ==
  app = "running" /\ state = "crashed" /\ ~shutdownRequested =>
    restartTask = "sleeping" \/ \E p \in Procs : watch[p] = "waiting"

\* A watcher that may schedule a restart never finds another restart task alive,
\* and the spawning restart task is the only one inside start(): the single
\* _pending_restart_task handle is never overwritten while it is in use.
SingleRestartTask ==
  /\ (\E p \in Procs : watch[p] = "waiting") => restartTask = "none"
  /\ restartTask = "spawning" <=> \E p \in Procs : starter[p] = "restart"

\* Two starts never overlap, and a start owns the instance's process handle.
StartOwnsProcess == \A p \in Procs : starter[p] # "none" => process = p

\* Once shutdown_all() returned, no subprocess of the instance is left, and no task
\* that outlives it (a backoff that still sleeps) ever makes another one.
NothingOutlivesShutdown == app = "stopped" => \A p \in Procs : ~Live(p)

\* The instance keeps the promise of SubprocessLifecycle.
Lifecycle == INSTANCE SubprocessLifecycle WITH live <- \E p \in Procs : Live(p)
KeepsLifecycle == Lifecycle!Spec

-----------------------------------------------------------------------------
(* Liveness.  A clear of the circuit that meets the stop of the application *)
(* starts the instance again behind its back; four properties leave that    *)
(* case out, and DrainingEnds is about it.                                  *)

\* No operator's clear is in progress, now or later.
NoOperator == [](\A p \in Procs : starter[p] # "operator")

\* A fetch cycle that is waited for ends, or goes on through another restart.
FetchCycleMoves == NoOperator => (sched = "idle" ~> (sched # "idle" \/ restartTask = "spawning"))

\* Stopping the application terminates ...
ShutdownCompletes == NoOperator => (app = "stop_scheduler" ~> app = "stopped")

\* ... and leaves nothing behind.
ShutdownLeavesNothing == NoOperator => []NothingOutlivesShutdown

\* A start is resolved, one way or the other.
StartingEnds == NoOperator => (state = "starting" ~> state # "starting")

\* While the application runs, a drain whose subprocess is watched is resolved,
\* however the operator, the scheduler and the health loop interleave with it.
WatchedDrainEnds ==
  (state = "draining" /\ \E p \in Procs : watch[p] = "waiting")
    ~> (state # "draining" \/ app # "running")

\* Every drain is resolved: connector-runtime.md, "A graceful shutdown-ack and process
\* exit move to dead ... Unexpected process exit from any active state moves to crashed".
DrainingEnds == state = "draining" ~> (state # "draining" \/ app # "running")

\* A crashed instance is not left behind by the stop of the application:
\* connector-runtime.md 72, "because the instance is shutting down concurrently with the
\* crash ... the instance terminates".
StoppedIsNotCrashed == app = "stopped" => state # "crashed"

\* ConnectorScheduler.stop() waits for the scheduler's tasks and they finish:
\* scheduler.py, "Cancel scheduler tasks and wait for them to finish".
SchedulerStops == app = "stop_scheduler" ~> sched = "done"

\* A subprocess that is asked to shut down ends, whether it cooperates or not:
\* connector-runtime.md, "The hard ceiling is supervisor-enforced".
AskedToStopEnds ==
  \A p \in Procs : (\E t \in Callers : call[t] = "ack" /\ callProc[t] = p) ~> ~Live(p)
=============================================================================

-------------------------- MODULE ConnectorInstance --------------------------
(***************************************************************************)
(* One supervised connector instance and its subprocesses:                 *)
(* src/prow/connector/instance.py and process.py.                          *)
(*                                                                         *)
(* All code runs on one asyncio loop and no lock body awaits, so every     *)
(* action below is the code between two awaits, executed atomically.  The  *)
(* tasks that call into the instance (scheduler, application lifespan,     *)
(* health loop, operator) are in ConnectorRuntime; this module defines     *)
(* what their calls do to the instance.                                    *)
(*                                                                         *)
(* A subprocess is a handle p \in Procs.  A handle that no task refers to  *)
(* any more is used again for a later subprocess, so the number of         *)
(* restarts is not bounded.                                                *)
(***************************************************************************)
EXTENDS SupervisorState, RestartPolicy

CONSTANTS Procs,    \* handles of ConnectorProcess objects
          NoProc    \* Python's None

ASSUME NoProcAssumption == NoProc \notin Procs

VARIABLES
  state,              \* ConnectorInstance._state
  process,            \* ConnectorInstance._process
  shutdownRequested,  \* ConnectorInstance._shutdown_requested
  recorded,           \* number of _restart_timestamps inside the window
  restartTask,        \* _pending_restart_task: none, sleeping, spawning
  watcherTask,        \* the subprocess _watcher_task watches, or NoProc
  watch,              \* per subprocess: its watcher task none, waiting, done
  starter,            \* per subprocess: the task inside its start(), or none
  os,                 \* per subprocess: what the operating system made of it
  link,               \* per subprocess: the runtime transport and its dispatch loop
  timeoutKill,        \* per subprocess: _timeout_kill
  call,               \* per caller: where it is in request_shutdown + join
  callProc            \* per caller: the subprocess that call is about

instanceVars == <<state, process, shutdownRequested, recorded, restartTask, watcherTask>>
processVars  == <<watch, starter, os, link, timeoutKill>>
callVars     == <<call, callProc>>

\* The tasks that run request_shutdown() followed by join_background_tasks():
\* the scheduler inside run_fetch(), and the application's shutdown_all().
Callers  == {"scheduler", "app"}
\* The tasks that run _spawn_process_body().
Starters == {"scheduler", "restart", "operator"}

ActiveStates == {"ready", "running"}
IdleStates   == {"not_started", "dead", "circuit_broken"}   \* wait_until_idle

TypeOK ==
  /\ state \in ConnectorState
  /\ process \in Procs \cup {NoProc}
  /\ shutdownRequested \in BOOLEAN
  /\ recorded \in Nat
  /\ restartTask \in {"none", "sleeping", "spawning"}
  /\ watcherTask \in Procs \cup {NoProc}
  /\ watch \in [Procs -> {"none", "waiting", "done"}]
  /\ starter \in [Procs -> Starters \cup {"none"}]
  /\ os \in [Procs -> {"unused", "creating", "failed", "alive", "exit_ok", "exit_err"}]
  /\ link \in [Procs -> {"none", "refused", "up", "closed", "fatal"}]
  /\ timeoutKill \in [Procs -> BOOLEAN]
  /\ call \in [Callers -> {"none", "ack", "term", "reap", "join_restart", "join_watcher"}]
  /\ callProc \in [Callers -> Procs \cup {NoProc}]

Init ==
  /\ state = "not_started"
  /\ process = NoProc
  /\ shutdownRequested = FALSE
  /\ recorded = 0
  /\ restartTask = "none"
  /\ watcherTask = NoProc
  /\ watch = [p \in Procs |-> "none"]
  /\ starter = [p \in Procs |-> "none"]
  /\ os = [p \in Procs |-> "unused"]
  /\ link = [p \in Procs |-> "none"]
  /\ timeoutKill = [p \in Procs |-> FALSE]
  /\ call = [t \in Callers |-> "none"]
  /\ callProc = [t \in Callers |-> NoProc]

-----------------------------------------------------------------------------
(* Subprocesses.                                                           *)

Exited(p) == os[p] \in {"exit_ok", "exit_err"}
Live(p)   == os[p] \in {"creating", "alive"}

\* SIGKILL: a live process ends with a nonzero status, an ended one keeps its own.
Killed(f, p) == [f EXCEPT ![p] = IF @ = "alive" THEN "exit_err" ELSE @]

\* ConnectorProcess.runtime_transport is None
NoTransport(p) == link[p] \in {"none", "refused"}

\* No task holds p any more (callers of the instance may add their own references).
Unreferenced(p) ==
  /\ ~Live(p)
  /\ process # p
  /\ watch[p] # "waiting" /\ starter[p] = "none"
  /\ \A t \in Callers : callProc[t] # p

\* The connector finishes: fetch() returns and the runner exits 0, once negotiated.
ProcessExitsCleanly(p) ==
  /\ os[p] = "alive" /\ ~NoTransport(p)
  /\ os' = [os EXCEPT ![p] = "exit_ok"]
  /\ UNCHANGED <<instanceVars, callVars, watch, starter, link, timeoutKill>>

\* The connector raises, is killed from outside, or refuses its configuration.
ProcessCrashes(p) ==
  /\ os[p] = "alive"
  /\ os' = [os EXCEPT ![p] = "exit_err"]
  /\ UNCHANGED <<instanceVars, callVars, watch, starter, link, timeoutKill>>

\* The runtime's dispatch loop reads EOF from an ended subprocess and finishes.
DispatchReadsEof(p) ==
  /\ link[p] = "up" /\ Exited(p)
  /\ link' = [link EXCEPT ![p] = "closed"]
  /\ UNCHANGED <<instanceVars, callVars, watch, starter, os, timeoutKill>>

\* A frame violates the protocol, or a handler of the runtime raises: the loop
\* records the fatal error and stops, and nothing touches the subprocess.
DispatchFails(p) ==
  /\ link[p] = "up"
  /\ link' = [link EXCEPT ![p] = "fatal"]
  /\ UNCHANGED <<instanceVars, callVars, watch, starter, os, timeoutKill>>

\* The first emit of a fetch: the wrapped emit handler moves READY to RUNNING.
FirstEmit(p) ==
  /\ link[p] = "up" /\ state = "ready"
  /\ state' = ApplyTransition(state, "first_operational_message")
  /\ UNCHANGED <<process, shutdownRequested, recorded, restartTask, watcherTask>>
  /\ UNCHANGED <<processVars, callVars>>

\* ConnectorProcess.wait() after the exit and the end of the dispatch loop.
ExitReason(p) ==
  IF os[p] = "failed" THEN "subprocess_spawn_failed"
  ELSE IF link[p] = "refused" THEN "hello_failed"
  ELSE IF link[p] = "fatal" THEN "protocol_error"
  ELSE IF timeoutKill[p] THEN "timeout_killed"
  ELSE IF os[p] = "exit_ok" THEN "graceful_shutdown" ELSE "crashed"

-----------------------------------------------------------------------------
(* Starting: _spawn_process_body() by task t for the new subprocess p.     *)

SpawnBody(t, p) ==
  /\ process' = p
  /\ os' = [os EXCEPT ![p] = "creating"]
  /\ link' = [link EXCEPT ![p] = "none"]
  /\ timeoutKill' = [timeoutKill EXCEPT ![p] = FALSE]
  /\ watch' = [watch EXCEPT ![p] = "none"]
  /\ starter' = [starter EXCEPT ![p] = t]

\* start(), from not_started or dead.
Start(t, p) ==
  /\ Defined(state, "start_invoked")
  /\ state' = ApplyTransition(state, "start_invoked")
  /\ shutdownRequested' = FALSE
  /\ SpawnBody(t, p)
  /\ UNCHANGED <<recorded, restartTask, watcherTask>>

\* clear_circuit_break()
ClearCircuitBreak(p) ==
  /\ state = "circuit_broken"
  /\ state' = ApplyTransition(state, "circuit_clear_restart")
  /\ recorded' = 0
  /\ shutdownRequested' = FALSE
  /\ SpawnBody("operator", p)
  /\ UNCHANGED <<restartTask, watcherTask, callVars>>

\* Faulty variant: a second watcher is not created.
StartReturnsOneWatcher(p, event) ==
  /\ starter' = [starter EXCEPT ![p] = "none"]
  /\ restartTask' = "none"
  /\ state' = SuppressedTransition(state, event)
  /\ IF watcherTask = NoProc
     THEN watcherTask' = p /\ watch' = [watch EXCEPT ![p] = "waiting"]
     ELSE UNCHANGED <<watcherTask, watch>>
  /\ UNCHANGED <<process, shutdownRequested, recorded, timeoutKill, callVars>>

\* Faulty variant: a subprocess that did not start gets no watcher.
StartReturnsNoWatcher(p, event) ==
  /\ starter' = [starter EXCEPT ![p] = "none"]
  /\ restartTask' = "none"
  /\ state' = SuppressedTransition(state, event)
  /\ IF event = "hello_succeeded"
     THEN watcherTask' = p /\ watch' = [watch EXCEPT ![p] = "waiting"]
     ELSE UNCHANGED <<watcherTask, watch>>
  /\ UNCHANGED <<process, shutdownRequested, recorded, timeoutKill, callVars>>

\* _spawn_process_body() after proc.start() returned: the transition, which
\* raises unless the instance is still starting, then the watcher.
StartReturns(p, event) ==
  /\ starter' = [starter EXCEPT ![p] = "none"]
  /\ IF Defined(state, event)
     THEN /\ state' = ApplyTransition(state, event)
          /\ restartTask' = "none"
          /\ watcherTask' = p
          /\ watch' = [watch EXCEPT ![p] = "waiting"]
     ELSE /\ restartTask' = IF starter[p] = "restart" THEN "none" ELSE restartTask
          /\ UNCHANGED <<state, watcherTask, watch>>
  /\ UNCHANGED <<process, shutdownRequested, recorded, timeoutKill, callVars>>

\* create_subprocess_exec returns.
SubprocessCreated(p) ==
  /\ starter[p] # "none" /\ os[p] = "creating"
  /\ os' = [os EXCEPT ![p] = "alive"]
  /\ UNCHANGED <<instanceVars, callVars, watch, starter, link, timeoutKill>>

\* Faulty variant: the OSError is swallowed.
SubprocessSpawnFailsSilently(p) ==
  /\ starter[p] # "none" /\ os[p] = "creating"
  /\ os' = [os EXCEPT ![p] = "failed"]
  /\ starter' = [starter EXCEPT ![p] = "none"]
  /\ UNCHANGED <<instanceVars, callVars, watch, link, timeoutKill>>

\* create_subprocess_exec raises OSError: start() returns without a transport.
SubprocessSpawnFails(p) ==
  /\ starter[p] # "none" /\ os[p] = "creating"
  /\ os' = [os EXCEPT ![p] = "failed"]
  /\ UNCHANGED link
  /\ StartReturns(p, "start_failure_to_crashed")

AwaitsHello(p) == starter[p] # "none" /\ link[p] = "none" /\ (os[p] = "alive" \/ Exited(p))

\* hello-ack arrives (perhaps the last bytes of a process that already ended).
HelloSucceeds(p) ==
  /\ AwaitsHello(p)
  /\ link' = [link EXCEPT ![p] = "up"]
  /\ UNCHANGED os
  /\ StartReturns(p, "hello_succeeded")

\* Faulty variant: the subprocess is not killed.
HelloFailsUnkilled(p) ==
  /\ AwaitsHello(p)
  /\ link' = [link EXCEPT ![p] = "refused"]
  /\ UNCHANGED <<instanceVars, callVars, watch, starter, os, timeoutKill>>

\* A protocol error, no common version, EOF or the 30 s timeout: the subprocess is
\* killed and start() waits for it.
HelloFails(p) ==
  /\ AwaitsHello(p)
  /\ link' = [link EXCEPT ![p] = "refused"]
  /\ os' = Killed(os, p)
  /\ UNCHANGED <<instanceVars, callVars, watch, starter, timeoutKill>>

FailedHelloReaped(p) ==
  /\ starter[p] # "none" /\ link[p] = "refused"
  /\ UNCHANGED <<os, link>>
  /\ StartReturns(p, "start_failure_to_crashed")

\* Writing hello to a process that is gone raises BrokenPipeError or
\* ConnectionResetError, which start() does not catch: no transition, no watcher.
HelloWriteRaises(p) ==
  /\ AwaitsHello(p) /\ Exited(p)
  /\ starter' = [starter EXCEPT ![p] = "none"]
  /\ restartTask' = IF starter[p] = "restart" THEN "none" ELSE restartTask
  /\ UNCHANGED <<state, process, shutdownRequested, recorded, watcherTask>>
  /\ UNCHANGED <<watch, os, link, timeoutKill, callVars>>

-----------------------------------------------------------------------------
(* The watcher task: _watcher_loop() and _handle_process_exit().           *)

\* Faulty variant: wait() returns when the dispatch loop ends.
WatcherWakesEarly(p) ==
  /\ watch[p] = "waiting" /\ link[p] # "up"
  /\ watch' = [watch EXCEPT ![p] = "done"]
  /\ UNCHANGED <<starter, os, link, timeoutKill, watcherTask, shutdownRequested, callVars>>

\* Faulty variant: wait() never returns after a fatal protocol error.
WatcherWakesOnEof(p) ==
  /\ watch[p] = "waiting"
  /\ os[p] = "failed" \/ Exited(p)
  /\ link[p] \notin {"up", "fatal"}
  /\ watch' = [watch EXCEPT ![p] = "done"]
  /\ UNCHANGED <<starter, os, link, timeoutKill, watcherTask, shutdownRequested, callVars>>

\* proc.wait() returns to the watcher of p.
WatcherWakes(p) ==
  /\ watch[p] = "waiting"
  /\ os[p] = "failed" \/ Exited(p)
  /\ link[p] # "up"
  /\ watch' = [watch EXCEPT ![p] = "done"]
  /\ UNCHANGED <<starter, os, link, timeoutKill, watcherTask, shutdownRequested, callVars>>

GracefulExit(p) ==
  ExitReason(p) = "graceful_shutdown" /\ state \in ActiveStates \cup {"draining"}

\* Exit code 0 while draining or active: the instance is dead, nothing is recorded.
GracefulExitHandled(p) ==
  /\ WatcherWakes(p) /\ GracefulExit(p)
  /\ state' = ApplyTransition(state, IF state = "draining" THEN "graceful_process_exit"
                                     ELSE "graceful_exit_without_drain")
  /\ process' = NoProc
  /\ UNCHANGED <<recorded, restartTask>>

\* Faulty variant: a crash while draining is not classified.
CrashEventNoDrain == [ready    |-> "crash_while_active",
                      running  |-> "crash_while_active",
                      starting |-> "start_failure_to_crashed"]

CrashEvent == [draining |-> "crash_while_draining",
               ready    |-> "crash_while_active",
               running  |-> "crash_while_active",
               starting |-> "start_failure_to_crashed"]

\* The state after the exit has been classified as a crash.
AfterCrash(s) == IF s \in DOMAIN CrashEvent THEN ApplyTransition(s, CrashEvent[s]) ELSE s

\* What should_restart() answers once this exit has been recorded.
Decision(p) == ShouldRestart(ExitReason(p), recorded + 1)

CrashHandled(p) == WatcherWakes(p) /\ ~GracefulExit(p)

StopHandled(p) ==
  /\ CrashHandled(p) /\ Decision(p) = "stop"
  /\ state' = "dead"
  /\ recorded' = 0
  /\ process' = NoProc
  /\ UNCHANGED restartTask

CircuitBreakHandled(p) ==
  /\ CrashHandled(p) /\ Decision(p) = "circuit_break"
  /\ state' = "circuit_broken"
  /\ recorded' = recorded + 1
  /\ process' = NoProc
  /\ UNCHANGED restartTask

RestartHandled(p) ==
  /\ CrashHandled(p) /\ Decision(p) = "restart"
  /\ state' = AfterCrash(state)
  /\ recorded' = recorded + 1
  /\ process' = NoProc
  /\ restartTask' = "sleeping"

\* A restart timestamp leaves the rolling window.
WindowSlides ==
  /\ recorded > 0
  /\ recorded' = recorded - 1
  /\ UNCHANGED <<state, process, shutdownRequested, restartTask, watcherTask>>
  /\ UNCHANGED <<processVars, callVars>>

-----------------------------------------------------------------------------
(* The restart task: _sleep_then_restart().                                *)

RestartAllowed == ~shutdownRequested /\ Defined(state, "restart_backoff_elapsed")

RestartBackoffElapses(p) ==
  /\ restartTask = "sleeping" /\ RestartAllowed
  /\ state' = ApplyTransition(state, "restart_backoff_elapsed")
  /\ restartTask' = "spawning"
  /\ SpawnBody("restart", p)
  /\ UNCHANGED <<shutdownRequested, recorded, watcherTask, callVars>>

RestartAbandoned ==
  /\ restartTask = "sleeping" /\ ~RestartAllowed
  /\ restartTask' = "none"
  /\ UNCHANGED <<state, process, shutdownRequested, recorded, watcherTask>>
  /\ UNCHANGED <<processVars, callVars>>

-----------------------------------------------------------------------------
(* Stopping: request_shutdown() then join_background_tasks() by task t.    *)

\* _cancel_pending_restart_task(): a task cancelled inside start() leaves the
\* subprocess behind, one that is still being created is taken down by asyncio.
CancelStarter(t) ==
  starter' = [p \in Procs |-> IF starter[p] = t THEN "none" ELSE starter[p]]
AfterCancel(t) ==
  [p \in Procs |-> IF starter[p] = t /\ os[p] = "creating" THEN "failed" ELSE os[p]]

\* request_shutdown() returns and join_background_tasks() reads both task handles;
\* awaiting a task that is done returns at once.
WatcherPending == \E p \in Procs : watcherTask = p /\ watch[p] = "waiting"

ReturnToJoin(t, pending) ==
  /\ call' = [call EXCEPT ![t] = IF pending = "none" THEN "join_watcher" ELSE "join_restart"]
  /\ callProc' = [callProc EXCEPT ![t] = IF WatcherPending THEN watcherTask ELSE NoProc]

\* Await something about subprocess p on behalf of t.
Await(t, what, p) ==
  /\ call' = [call EXCEPT ![t] = what]
  /\ callProc' = [callProc EXCEPT ![t] = p]

\* A crashed or circuit-broken instance is dead at once.
AbortToDead(t) ==
  /\ state \in {"crashed", "circuit_broken"}
  /\ state' = "dead"
  /\ recorded' = IF state = "crashed" THEN 0 ELSE recorded
  /\ process' = NoProc
  /\ os' = AfterCancel("restart")
  /\ ReturnToJoin(t, "none")

\* Faulty variant: a subprocess without a transport is left alone.
BeginDrainNoKill(t) ==
  /\ state \notin {"crashed", "circuit_broken"}
  /\ state' = SuppressedTransition(state, "shutdown_requested")
  /\ UNCHANGED <<process, recorded>>
  /\ os' = AfterCancel("restart")
  /\ IF process # NoProc /\ ~NoTransport(process)
     THEN Await(t, "ack", process)
     ELSE ReturnToJoin(t, "none")

\* Faulty variant: the handle is dropped together with the subprocess.
BeginDrainForgets(t) ==
  /\ state \notin {"crashed", "circuit_broken"}
  /\ state' = SuppressedTransition(state, "shutdown_requested")
  /\ process' = NoProc
  /\ UNCHANGED recorded
  /\ os' = AfterCancel("restart")
  /\ ReturnToJoin(t, "none")

\* Otherwise the subprocess, if there is one, is killed or asked to drain.
BeginDrain(t) ==
  /\ state \notin {"crashed", "circuit_broken"}
  /\ state' = SuppressedTransition(state, "shutdown_requested")
  /\ UNCHANGED <<process, recorded>>
  /\ IF process # NoProc /\ ~NoTransport(process)
     THEN os' = AfterCancel("restart") /\ Await(t, "ack", process)
     ELSE IF process # NoProc /\ os[process] = "alive"
     THEN os' = Killed(AfterCancel("restart"), process) /\ Await(t, "reap", process)
     ELSE os' = AfterCancel("restart") /\ ReturnToJoin(t, "none")

\* Faulty variant: the handle of the restart task is dropped, the task is not cancelled.
RequestShutdownForgetsRestart(t) ==
  /\ shutdownRequested' = TRUE
  /\ restartTask' = "none"
  /\ UNCHANGED starter
  /\ AbortToDead(t) \/ BeginDrain(t)
  /\ UNCHANGED <<watcherTask, watch, link, timeoutKill>>

\* request_shutdown(), up to its first await.
RequestShutdown(t) ==
  /\ shutdownRequested' = TRUE
  /\ restartTask' = "none"
  /\ CancelStarter("restart")
  /\ AbortToDead(t) \/ BeginDrain(t)
  /\ UNCHANGED <<watcherTask, watch, link, timeoutKill>>

CallUnchanged == UNCHANGED <<instanceVars, watch, starter, link>>

\* shutdown-ack arrives: request_shutdown() does not wait for the exit itself.
ShutdownAcked(t) ==
  /\ call[t] = "ack" /\ link[callProc[t]] = "up"
  /\ ReturnToJoin(t, restartTask)
  /\ CallUnchanged /\ UNCHANGED <<os, timeoutKill>>

\* No ack in the grace period: SIGTERM, if the subprocess is still there.
ShutdownTimesOut(t) ==
  /\ call[t] = "ack"
  /\ timeoutKill' = [timeoutKill EXCEPT ![callProc[t]] = TRUE]
  /\ IF os[callProc[t]] = "alive" THEN Await(t, "term", callProc[t]) ELSE ReturnToJoin(t, restartTask)
  /\ CallUnchanged /\ UNCHANGED os

\* The dispatch loop ends or the write fails while the ack is awaited: kill, and
\* wait for the end unless there is nothing left to kill.
ShutdownBroken(t) ==
  /\ call[t] = "ack"
  /\ link[callProc[t]] \in {"closed", "fatal"} \/ Exited(callProc[t])
  /\ os' = Killed(os, callProc[t])
  /\ IF os[callProc[t]] = "alive" THEN Await(t, "reap", callProc[t]) ELSE ReturnToJoin(t, restartTask)
  /\ CallUnchanged /\ UNCHANGED timeoutKill

\* SIGTERM worked, or did not within 10 s and SIGKILL follows.
TermReturns(t) ==
  /\ call[t] = "term"
  /\ os' = Killed(os, callProc[t])
  /\ ReturnToJoin(t, restartTask)
  /\ CallUnchanged /\ UNCHANGED timeoutKill

\* terminate_abruptly(): the subprocess has ended and so has the dispatch loop.
ReapReturns(t) ==
  /\ call[t] = "reap" /\ ~Live(callProc[t]) /\ link[callProc[t]] # "up"
  /\ ReturnToJoin(t, restartTask)
  /\ CallUnchanged /\ UNCHANGED <<os, timeoutKill>>

\* join_background_tasks(): the restart task, then the watcher.
RestartJoined(t) ==
  /\ call[t] = "join_restart" /\ restartTask = "none"
  /\ Await(t, "join_watcher", callProc[t])
  /\ CallUnchanged /\ UNCHANGED <<os, timeoutKill>>

Joined(t) ==
  /\ call[t] = "join_watcher"
  /\ \A p \in Procs : callProc[t] = p => watch[p] # "waiting"

StopCall(t) ==
  \/ ShutdownAcked(t) \/ ShutdownTimesOut(t) \/ ShutdownBroken(t)
  \/ TermReturns(t) \/ ReapReturns(t) \/ RestartJoined(t)
=============================================================================

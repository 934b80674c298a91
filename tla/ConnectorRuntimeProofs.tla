------------------------ MODULE ConnectorRuntimeProofs ------------------------
(***************************************************************************)
(* Proofs about ConnectorRuntime, for every number of subprocess handles,  *)
(* every MaxRestarts and every combination of the environment's switches.  *)
(***************************************************************************)
EXTENDS ConnectorRuntime, TLAPS

-----------------------------------------------------------------------------
(* The transition table.                                                   *)

\* The table is a partial function of the state and the event
\* (supervisor_state.py keys its dict by the pair).
LEMMA TableIsFunctional ==
  ASSUME NEW s, NEW e, NEW n, NEW m,
         <<s, e, n>> \in SUPERVISOR_TRANSITION_TABLE,
         <<s, e, m>> \in SUPERVISOR_TRANSITION_TABLE
  PROVE  n = m
BY DEF SUPERVISOR_TRANSITION_TABLE

\* Every entry of the table leads to a state.
LEMMA TableLeadsToState ==
  ASSUME NEW s, NEW e, NEW n, <<s, e, n>> \in SUPERVISOR_TRANSITION_TABLE
  PROVE  n \in ConnectorState /\ e \in SupervisorTransitionEvent
BY DEF SUPERVISOR_TRANSITION_TABLE, ConnectorState, SupervisorTransitionEvent

\* apply_transition() follows the table.
LEMMA ApplyFollowsTable ==
  ASSUME NEW s, NEW e, NEW n, <<s, e, n>> \in SUPERVISOR_TRANSITION_TABLE
  PROVE  Defined(s, e) /\ ApplyTransition(s, e) = n
<1>1. n \in ConnectorState
  BY TableLeadsToState
<1>2. Defined(s, e)
  BY <1>1 DEF Defined
<1>3. <<s, e, ApplyTransition(s, e)>> \in SUPERVISOR_TRANSITION_TABLE
  BY <1>1 DEF ApplyTransition
<1>4. ApplyTransition(s, e) = n
  BY <1>3, TableIsFunctional
<1> QED BY <1>2, <1>4

\* Where an event is defined, apply_transition() returns a state.
LEMMA DefinedApplies ==
  ASSUME NEW s, NEW e, Defined(s, e)
  PROVE  /\ <<s, e, ApplyTransition(s, e)>> \in SUPERVISOR_TRANSITION_TABLE
         /\ ApplyTransition(s, e) \in ConnectorState
         /\ e \in SupervisorTransitionEvent
<1>1. <<s, e, ApplyTransition(s, e)>> \in SUPERVISOR_TRANSITION_TABLE
  BY DEF Defined, ApplyTransition
<1> QED BY <1>1, TableLeadsToState

-----------------------------------------------------------------------------
(* The inductive invariant.                                                *)

\* The subprocess could not be started or negotiated with: its exit is not restartable.
Unstartable(p) == os[p] = "failed" \/ link[p] = "refused"

\* Only the subprocess in the instance's handle is live.
LiveIsCurrent == \A p \in Procs : Live(p) => process = p

\* A settled instance has no live subprocess, an idle one no handle.
SettledIsEmpty ==
  /\ state = "crashed" => \A p \in Procs : ~Live(p)
  /\ state \in IdleStates => process = NoProc

\* start() works on the handle, in a state that waits for its outcome.
StartInProgress ==
  \A p \in Procs : /\ starter[p] # "none" => process = p /\ state \in {"starting", "draining"}
                   /\ starter[p] = "scheduler" => sched = "starting"

\* A watcher watches the current, started subprocess, except that of a failed start
\* overtaken by the shutdown of the application.
WatchedIsCurrent ==
  \A p \in Procs : watch[p] = "waiting" =>
    /\ starter[p] = "none" /\ os[p] # "creating"
    /\ process = p \/ (/\ state = "dead" /\ app \in {"stop_instance", "stopped"}
                       /\ ~Live(p) /\ Unstartable(p))
    /\ state = "crashed" => Unstartable(p)

\* A subprocess has a transport only after it was created, and is killed if refused.
LinkFollowsProcess ==
  \A p \in Procs : /\ os[p] = "creating" => link[p] = "none"
                   /\ link[p] = "refused" => ~Live(p)

\* shutdown_all() runs after the scheduler has stopped.
SchedulerStopsFirst ==
  app \in {"stop_health", "stop_instance", "stopped"} => sched = "done"

IInv ==
  /\ RuntimeTypeOK
  /\ LiveIsCurrent
  /\ SettledIsEmpty
  /\ StartInProgress
  /\ WatchedIsCurrent
  /\ LinkFollowsProcess
  /\ SchedulerStopsFirst
  /\ SingleRestartTask

-----------------------------------------------------------------------------
(* Steps.                                                                  *)

\* The initial state satisfies the invariant: no subprocess, no task, no handle.
LEMMA InitHolds == RuntimeInit => IInv
<1> SUFFICES ASSUME RuntimeInit PROVE IInv
  OBVIOUS
<1>1. RuntimeTypeOK
  <2>1. timeoutKill \in [Procs -> BOOLEAN]
    BY Zenon DEF RuntimeInit, Init
  <2>2. misses \in 0..1 /\ recorded \in Nat
    BY DEF RuntimeInit, Init
  <2> QED
    BY <2>1, <2>2 DEF RuntimeInit, Init, RuntimeTypeOK, TypeOK, ConnectorState, Callers, Starters
<1>2. LiveIsCurrent /\ SettledIsEmpty /\ StartInProgress /\ LinkFollowsProcess
  BY DEF RuntimeInit, Init, LiveIsCurrent, SettledIsEmpty, StartInProgress, LinkFollowsProcess, Live
<1>3. WatchedIsCurrent /\ SchedulerStopsFirst /\ SingleRestartTask
  BY DEF RuntimeInit, Init, WatchedIsCurrent, SchedulerStopsFirst, SingleRestartTask
<1> QED
  BY <1>1, <1>2, <1>3 DEF IInv

-----------------------------------------------------------------------------
(* Types.                                                                  *)

\* Going on to join_background_tasks() keeps the types.
LEMMA ReturnToJoinType ==
  ASSUME TypeOK, NEW t \in Callers, NEW pending, ReturnToJoin(t, pending)
  PROVE  call' \in [Callers -> {"none", "ack", "term", "reap", "join_restart", "join_watcher"}]
         /\ callProc' \in [Callers -> Procs \cup {NoProc}]
BY DEF TypeOK, ReturnToJoin

\* request_shutdown(), up to its first await, keeps the types.
LEMMA RequestShutdownType ==
  ASSUME TypeOK, NEW t \in Callers, RequestShutdown(t)
  PROVE  TypeOK'
<1>1. /\ starter' \in [Procs -> Starters \cup {"none"}]
      /\ AfterCancel("restart") \in [Procs -> {"unused", "creating", "failed", "alive", "exit_ok", "exit_err"}]
  BY DEF TypeOK, RequestShutdown, CancelStarter, AfterCancel
<1>2. /\ shutdownRequested' = TRUE /\ restartTask' = "none"
      /\ UNCHANGED <<watcherTask, watch, link, timeoutKill>>
  BY DEF RequestShutdown
<1>3. CASE AbortToDead(t)
  <2>1. /\ state' = "dead" /\ process' = NoProc /\ recorded' \in Nat
        /\ os' = AfterCancel("restart") /\ ReturnToJoin(t, "none")
    BY <1>3 DEF AbortToDead, TypeOK
  <2> QED
    BY <1>1, <1>2, <2>1, ReturnToJoinType DEF TypeOK, ConnectorState
<1>4. CASE BeginDrain(t)
  <2>1. state' \in ConnectorState /\ process' = process /\ recorded' = recorded
    BY <1>4, DefinedApplies DEF BeginDrain, SuppressedTransition, TypeOK
  <2>2. os' \in [Procs -> {"unused", "creating", "failed", "alive", "exit_ok", "exit_err"}]
    BY <1>4, <1>1 DEF BeginDrain, Killed
  <2>3. /\ call' \in [Callers -> {"none", "ack", "term", "reap", "join_restart", "join_watcher"}]
        /\ callProc' \in [Callers -> Procs \cup {NoProc}]
    BY <1>4, ReturnToJoinType DEF BeginDrain, Await, TypeOK
  <2> QED
    BY <1>1, <1>2, <2>1, <2>2, <2>3 DEF TypeOK
<1> QED
  BY <1>3, <1>4 DEF RequestShutdown

\* A start, up to its first await, keeps the types.
LEMMA SpawnType ==
  ASSUME TypeOK, NEW t \in Starters, NEW p \in Procs, SpawnBody(t, p),
         state' \in ConnectorState, shutdownRequested' \in BOOLEAN, recorded' \in Nat,
         restartTask' \in {"none", "sleeping", "spawning"}, watcherTask' = watcherTask,
         call' \in [Callers -> {"none", "ack", "term", "reap", "join_restart", "join_watcher"}],
         callProc' \in [Callers -> Procs \cup {NoProc}]
  PROVE  TypeOK'
BY DEF TypeOK, SpawnBody

\* One step of _run_loop keeps the types.
LEMMA SchedulerType ==
  ASSUME RuntimeTypeOK, SchedulerStep
  PROVE  RuntimeTypeOK'
<1> USE DEF RuntimeTypeOK
<1>1. ASSUME NEW p \in Procs, FetchStarts(p) PROVE RuntimeTypeOK'
  <2>1. state' \in ConnectorState
    BY <1>1, DefinedApplies DEF FetchStarts, Start
  <2> QED
    BY <1>1, <2>1, SpawnType DEF FetchStarts, Start, callVars, TypeOK, Starters
<1>2. ASSUME NEW p \in Procs, RestartAfterStop(p) PROVE RuntimeTypeOK'
  <2>1. state' \in ConnectorState
    BY <1>2, DefinedApplies DEF RestartAfterStop, Start
  <2> QED
    BY <1>2, <2>1, SpawnType DEF RestartAfterStop, Start, TypeOK, Starters
<1>3. CASE FetchStops
  BY <1>3, RequestShutdownType DEF FetchStops, Callers
<1>4. CASE FetchSkips \/ IdleSeen \/ IntervalEnds
  BY <1>4 DEF FetchSkips, IdleSeen, IntervalEnds, TypeOK, instanceVars, processVars, callVars
<1>5. CASE StopWithoutRestart
  BY <1>5 DEF StopWithoutRestart, TypeOK, instanceVars, processVars
<1> QED
  BY <1>1, <1>2, <1>3, <1>4, <1>5 DEF SchedulerStep

\* The end of _spawn_process_body() keeps the types, whatever its event.
LEMMA StartReturnsType ==
  ASSUME TypeOK, NEW p \in Procs, NEW event, StartReturns(p, event),
         os' \in [Procs -> {"unused", "creating", "failed", "alive", "exit_ok", "exit_err"}],
         link' \in [Procs -> {"none", "refused", "up", "closed", "fatal"}]
  PROVE  TypeOK'
<1>1. CASE Defined(state, event)
  <2>1. state' = ApplyTransition(state, event)
    BY <1>1 DEF StartReturns
  <2>2. ApplyTransition(state, event) \in ConnectorState
    BY <1>1, DefinedApplies
  <2> QED
    BY <1>1, <2>1, <2>2 DEF StartReturns, TypeOK, callVars
<1>2. CASE ~Defined(state, event)
  BY <1>2 DEF StartReturns, TypeOK, callVars
<1> QED
  BY <1>1, <1>2

\* ConnectorProcess.start() keeps the types.
LEMMA StartType ==
  ASSUME RuntimeTypeOK, NEW p \in Procs, StartStep(p)
  PROVE  RuntimeTypeOK'
<1> USE DEF RuntimeTypeOK
<1>1. CASE SubprocessCreated(p) /\ UNCHANGED taskVars
  BY <1>1 DEF SubprocessCreated, taskVars, TypeOK, instanceVars, callVars
<1>2. CASE SubprocessSpawnFails(p) /\ StarterResumes(p, state = "starting")
  <2>1. TypeOK'
    BY <1>2, StartReturnsType DEF SubprocessSpawnFails, TypeOK
  <2> QED
    BY <1>2, <2>1 DEF StarterResumes
<1>3. CASE HelloSucceeds(p) /\ StarterResumes(p, state = "starting")
  <2>1. TypeOK'
    BY <1>3, StartReturnsType DEF HelloSucceeds, TypeOK
  <2> QED
    BY <1>3, <2>1 DEF StarterResumes
<1>4. CASE HelloFails(p) /\ UNCHANGED taskVars
  BY <1>4 DEF HelloFails, Killed, taskVars, TypeOK, instanceVars, callVars
<1>5. CASE FailedHelloReaped(p) /\ StarterResumes(p, state = "starting")
  <2>1. TypeOK'
    BY <1>5, StartReturnsType DEF FailedHelloReaped, TypeOK
  <2> QED
    BY <1>5, <2>1 DEF StarterResumes
<1>6. CASE HelloWriteMayRaise /\ HelloWriteRaises(p) /\ StarterResumes(p, FALSE)
  BY <1>6 DEF HelloWriteRaises, StarterResumes, TypeOK, callVars
<1> QED
  BY <1>1, <1>2, <1>3, <1>4, <1>5, <1>6 DEF StartStep

\* An exit that is recorded as a crash leaves the table's state.
LEMMA AfterCrashValue ==
  ASSUME NEW s \in ConnectorState
  PROVE  AfterCrash(s) = IF s \in {"draining", "ready", "running", "starting"} THEN "crashed" ELSE s
<1>1. DOMAIN CrashEvent = {"draining", "ready", "running", "starting"}
  BY DEF CrashEvent
<1>2. ASSUME s \in {"draining", "ready", "running", "starting"}
      PROVE  <<s, CrashEvent[s], "crashed">> \in SUPERVISOR_TRANSITION_TABLE
  BY <1>2 DEF CrashEvent, SUPERVISOR_TRANSITION_TABLE
<1> QED
  BY <1>1, <1>2, ApplyFollowsTable DEF AfterCrash

\* A clean end of a process that runs or drains is dead, by the table.
LEMMA GracefulExitValue ==
  ASSUME NEW p \in Procs, GracefulExitHandled(p)
  PROVE  state \in {"ready", "running", "draining"} /\ state' = "dead"
<1>1. state \in {"ready", "running", "draining"}
  BY DEF GracefulExitHandled, GracefulExit, ActiveStates
<1> QED
  BY <1>1, ApplyFollowsTable DEF GracefulExitHandled, SUPERVISOR_TRANSITION_TABLE

\* _handle_process_exit() keeps the types.
LEMMA WatcherType ==
  ASSUME RuntimeTypeOK, NEW p \in Procs, WatcherStep(p)
  PROVE  RuntimeTypeOK'
<1>1. WatcherWakes(p) /\ UNCHANGED taskVars
  BY DEF WatcherStep, GracefulExitHandled, StopHandled, CircuitBreakHandled, RestartHandled, CrashHandled
<1>2. process' = NoProc
  BY DEF WatcherStep, GracefulExitHandled, StopHandled, CircuitBreakHandled, RestartHandled
<1>3. recorded' \in Nat /\ restartTask' \in {"none", "sleeping", "spawning"}
  BY DEF WatcherStep, GracefulExitHandled, StopHandled, CircuitBreakHandled, RestartHandled,
         RuntimeTypeOK, TypeOK
<1>4. state' \in ConnectorState
  BY AfterCrashValue, GracefulExitValue
  DEF WatcherStep, StopHandled, CircuitBreakHandled, RestartHandled, RuntimeTypeOK, TypeOK, ConnectorState
<1> QED
  BY <1>1, <1>2, <1>3, <1>4 DEF WatcherWakes, taskVars, callVars, RuntimeTypeOK, TypeOK

\* clear_circuit_break() keeps the types.
LEMMA OperatorType ==
  ASSUME RuntimeTypeOK, NEW p \in Procs, OperatorClear(p)
  PROVE  RuntimeTypeOK'
<1>1. state' = "starting"
  BY ApplyFollowsTable DEF OperatorClear, ClearCircuitBreak, SUPERVISOR_TRANSITION_TABLE
<1>2. TypeOK'
  BY <1>1, SpawnType
  DEF OperatorClear, ClearCircuitBreak, RuntimeTypeOK, TypeOK, ConnectorState, Starters, callVars
<1> QED
  BY <1>2 DEF OperatorClear, RuntimeTypeOK, taskVars

\* The restart task keeps the types.
LEMMA RestartType ==
  ASSUME RuntimeTypeOK, RestartStep
  PROVE  RuntimeTypeOK'
<1>1. CASE RestartAbandoned
  BY <1>1 DEF RestartStep, RestartAbandoned, RuntimeTypeOK, TypeOK, taskVars, callVars, processVars
<1>2. ASSUME NEW p \in Procs, RestartBackoffElapses(p) PROVE RuntimeTypeOK'
  <2>1. state' \in ConnectorState
    BY <1>2, DefinedApplies DEF RestartBackoffElapses, RestartAllowed
  <2> QED
    BY <1>2, <2>1, SpawnType
    DEF RestartStep, RestartBackoffElapses, RuntimeTypeOK, TypeOK, Starters, taskVars, callVars
<1> QED
  BY <1>1, <1>2 DEF RestartStep

\* The steps of a shutdown call keep the types.
LEMMA CallType ==
  ASSUME RuntimeTypeOK, NEW t \in Callers, CallStep(t)
  PROVE  RuntimeTypeOK'
<1>1. /\ UNCHANGED taskVars /\ CallUnchanged
      /\ TypeOK
  BY DEF CallStep, StopCall, ShutdownAcked, ShutdownTimesOut, ShutdownBroken, TermReturns,
         ReapReturns, RestartJoined, RuntimeTypeOK
<1>2. /\ os' \in [Procs -> {"unused", "creating", "failed", "alive", "exit_ok", "exit_err"}]
      /\ timeoutKill' \in [Procs -> BOOLEAN]
  <2>1. UNCHANGED os \/ os' = Killed(os, callProc[t])
    BY DEF CallStep, StopCall, ShutdownAcked, ShutdownTimesOut, ShutdownBroken, TermReturns,
           ReapReturns, RestartJoined
  <2>2. UNCHANGED timeoutKill \/ timeoutKill' = [timeoutKill EXCEPT ![callProc[t]] = TRUE]
    BY DEF CallStep, StopCall, ShutdownAcked, ShutdownTimesOut, ShutdownBroken, TermReturns,
           ReapReturns, RestartJoined
  <2> QED
    BY <1>1, <2>1, <2>2 DEF Killed, TypeOK
<1>3. ASSUME NEW what \in {"term", "reap", "join_watcher"}, NEW p, Await(t, what, p),
             p \in Procs \cup {NoProc}
      PROVE  /\ call' \in [Callers -> {"none", "ack", "term", "reap", "join_restart", "join_watcher"}]
             /\ callProc' \in [Callers -> Procs \cup {NoProc}]
  BY <1>1, <1>3 DEF Await, TypeOK
<1>4. callProc[t] \in Procs \cup {NoProc}
  BY <1>1 DEF TypeOK
<1>5. /\ call' \in [Callers -> {"none", "ack", "term", "reap", "join_restart", "join_watcher"}]
      /\ callProc' \in [Callers -> Procs \cup {NoProc}]
  <2>1. ReturnToJoin(t, restartTask) \/ \E what \in {"term", "reap", "join_watcher"} : Await(t, what, callProc[t])
    BY DEF CallStep, StopCall, ShutdownAcked, ShutdownTimesOut, ShutdownBroken, TermReturns,
           ReapReturns, RestartJoined
  <2> QED
    BY <1>1, <1>3, <1>4, <2>1, ReturnToJoinType
<1> QED
  BY <1>1, <1>2, <1>5 DEF CallUnchanged, instanceVars, taskVars, RuntimeTypeOK, TypeOK

\* The health loop keeps the types.
LEMMA HealthType ==
  ASSUME RuntimeTypeOK, HealthStep
  PROVE  RuntimeTypeOK'
<1>1. HealthUnchanged
  BY DEF HealthStep, HealthSkips, HealthProbes, ProbeAnswered, ProbeMissed, RemediationReaped
<1>2. /\ health' \in {"sleep", "probe", "reap", "off"} /\ probed' \in Procs \cup {NoProc}
      /\ misses' \in 0..1
      /\ os' \in [Procs -> {"unused", "creating", "failed", "alive", "exit_ok", "exit_err"}]
  BY DEF HealthStep, HealthSkips, HealthProbes, ProbeAnswered, ProbeMissed, RemediationReaped,
         RuntimeTypeOK, TypeOK, Killed
<1> QED
  BY <1>1, <1>2 DEF HealthUnchanged, instanceVars, callVars, RuntimeTypeOK, TypeOK

\* ConnectorScheduler.stop() keeps the types, wherever the cancellation lands.
LEMMA StopSchedulerType ==
  ASSUME RuntimeTypeOK, StopScheduler
  PROVE  RuntimeTypeOK'
<1> DEFINE Cancels == \/ CancelsSleepOrWait \/ CancelsStart \/ CancelsStop \/ StopSwallowsCancel
                      \/ CancelsJoinedRestart \/ CancelsJoinedWatcher \/ WatcherSwallowsCancel
<1>1. Cancels /\ "scheduler" \in Callers
  BY DEF StopScheduler, Callers
<1>2. /\ starter' \in [Procs -> Starters \cup {"none"}]
      /\ os' \in [Procs -> {"unused", "creating", "failed", "alive", "exit_ok", "exit_err"}]
  BY <1>1 DEF CancelsSleepOrWait, CancelsStart, CancelsStop, StopSwallowsCancel, CancelsJoinedRestart,
         CancelsJoinedWatcher, WatcherSwallowsCancel, CancelStarter, AfterCancel, RuntimeTypeOK, TypeOK
<1>3. /\ watch' \in [Procs -> {"none", "waiting", "done"}]
      /\ link' \in [Procs -> {"none", "refused", "up", "closed", "fatal"}]
  BY <1>1 DEF CancelsSleepOrWait, CancelsStart, CancelsStop, StopSwallowsCancel, CancelsJoinedRestart,
         CancelsJoinedWatcher, WatcherSwallowsCancel, DispatchCancelled, RuntimeTypeOK, TypeOK
<1>4. /\ sched' \in {"stopping", "done"} /\ restartTask' \in {"none", "sleeping", "spawning"}
  BY <1>1 DEF CancelsSleepOrWait, CancelsStart, CancelsStop, StopSwallowsCancel, CancelsJoinedRestart,
         CancelsJoinedWatcher, WatcherSwallowsCancel, RuntimeTypeOK, TypeOK
<1>5. /\ call' \in [Callers -> {"none", "ack", "term", "reap", "join_restart", "join_watcher"}]
      /\ callProc' \in [Callers -> Procs \cup {NoProc}]
  BY <1>1 DEF CancelsSleepOrWait, CancelsStart, CancelsStop, StopSwallowsCancel, CancelsJoinedRestart,
         CancelsJoinedWatcher, WatcherSwallowsCancel, DropCall, Await, callVars, RuntimeTypeOK, TypeOK
<1> QED
  BY <1>2, <1>3, <1>4, <1>5 DEF StopScheduler, RuntimeTypeOK, TypeOK

\* shutdown_all() keeps the types.
LEMMA ShutdownType ==
  ASSUME RuntimeTypeOK, StopHealth \/ StopInstance \/ AppStopped
  PROVE  RuntimeTypeOK'
<1>1. CASE StopHealth
  BY <1>1 DEF StopHealth, DispatchCancelled, RuntimeTypeOK, TypeOK, instanceVars, callVars
<1>2. CASE StopInstance
  BY <1>2, RequestShutdownType DEF StopInstance, RuntimeTypeOK, Callers
<1>3. CASE AppStopped
  BY <1>3 DEF AppStopped, RuntimeTypeOK, TypeOK, instanceVars, processVars
<1> QED
  BY <1>1, <1>2, <1>3

\* What subprocesses and streams do by themselves keeps the types.
LEMMA EnvironmentType ==
  ASSUME RuntimeTypeOK, UNCHANGED taskVars, Environment \/ \E p \in Procs : DispatchReadsEof(p)
  PROVE  RuntimeTypeOK'
<1> USE DEF RuntimeTypeOK, taskVars
<1>1. ASSUME NEW p \in Procs, ProcessExitsCleanly(p) \/ ProcessCrashes(p) PROVE RuntimeTypeOK'
  BY <1>1 DEF ProcessExitsCleanly, ProcessCrashes, TypeOK, instanceVars, callVars
<1>2. ASSUME NEW p \in Procs, DispatchFails(p) \/ DispatchReadsEof(p) PROVE RuntimeTypeOK'
  BY <1>2 DEF DispatchFails, DispatchReadsEof, TypeOK, instanceVars, callVars
<1>3. ASSUME NEW p \in Procs, FirstEmit(p) PROVE RuntimeTypeOK'
  <2>1. state' = "running"
    BY <1>3, ApplyFollowsTable DEF FirstEmit, SUPERVISOR_TRANSITION_TABLE
  <2> QED
    BY <1>3, <2>1 DEF FirstEmit, TypeOK, processVars, callVars, ConnectorState
<1>4. CASE WindowSlides
  BY <1>4 DEF WindowSlides, TypeOK, processVars, callVars
<1> QED
  BY <1>1, <1>2, <1>3, <1>4 DEF Environment

\* Every step keeps the types.
LEMMA TypeStep == RuntimeTypeOK /\ [Next]_vars => RuntimeTypeOK'
<1> SUFFICES ASSUME RuntimeTypeOK, [Next]_vars PROVE RuntimeTypeOK'
  OBVIOUS
<1>1. CASE UNCHANGED vars
  BY <1>1 DEF vars, instanceVars, processVars, callVars, taskVars, RuntimeTypeOK, TypeOK
<1>2. CASE Next
  BY <1>1, <1>2, SchedulerType, StartType, WatcherType, OperatorType, RestartType, CallType, HealthType,
     StopSchedulerType, ShutdownType, EnvironmentType DEF Next, Terminated
<1> QED
  BY <1>1, <1>2

-----------------------------------------------------------------------------
(* The invariant, step by step.                                            *)

\* A step that leaves the instance alone and makes nothing live.
Quiet ==
  /\ UNCHANGED <<state, process, starter, watch, restartTask>>
  /\ \A p \in Procs : /\ Live(p)' => Live(p)
                      /\ os'[p] = "creating" => os[p] = "creating" /\ link'[p] = link[p]
                      /\ Unstartable(p) => Unstartable(p)'
                      /\ link'[p] = "refused" => ~Live(p)'
  /\ app \in {"stop_instance", "stopped"} => app' \in {"stop_instance", "stopped"}
  /\ sched = "starting" => sched' = "starting"
  /\ SchedulerStopsFirst'

\* A step that leaves the instance and its starts alone and gives no subprocess life keeps the invariant.
LEMMA QuietKeeps ==
  ASSUME IInv, RuntimeTypeOK', Quiet
  PROVE  IInv'
<1> USE DEF IInv, Quiet
<1>1. LiveIsCurrent' /\ SettledIsEmpty' /\ StartInProgress'
  BY DEF LiveIsCurrent, SettledIsEmpty, StartInProgress
<1>2. WatchedIsCurrent'
  BY DEF WatchedIsCurrent, RuntimeTypeOK, TypeOK
<1>3. LinkFollowsProcess' /\ SingleRestartTask'
  BY DEF LinkFollowsProcess, SingleRestartTask
<1> QED
  BY <1>1, <1>2, <1>3

\* _spawn_process_body() for an instance that has nothing left of its past.
Quiescent == \A q \in Procs : ~Live(q) /\ starter[q] = "none" /\ watch[q] # "waiting"

\* A birth from a settled instance, into a fresh handle, keeps the invariant.
LEMMA SpawnKeeps ==
  ASSUME IInv, RuntimeTypeOK', SchedulerStopsFirst', Quiescent,
         NEW t \in Starters, NEW p \in Procs, SpawnBody(t, p), state' = "starting",
         restartTask' = IF t = "restart" THEN "spawning" ELSE restartTask,
         t = "scheduler" => sched' = "starting"
  PROVE  IInv'
<1>1. /\ os' = [os EXCEPT ![p] = "creating"] /\ link' = [link EXCEPT ![p] = "none"]
      /\ watch' = [watch EXCEPT ![p] = "none"] /\ starter' = [starter EXCEPT ![p] = t]
      /\ process' = p
      /\ RuntimeTypeOK /\ TypeOK
  BY DEF SpawnBody, IInv, RuntimeTypeOK
<1>2. \A q \in Procs : /\ watch'[q] # "waiting"
                       /\ starter'[q] = IF q = p THEN t ELSE "none"
                       /\ Live(q)' => q = p
  BY <1>1 DEF TypeOK, Quiescent, Live
<1>3. LiveIsCurrent' /\ SettledIsEmpty' /\ StartInProgress' /\ WatchedIsCurrent'
  BY <1>1, <1>2 DEF LiveIsCurrent, SettledIsEmpty, StartInProgress, WatchedIsCurrent, IdleStates
<1>4. LinkFollowsProcess'
  BY <1>1 DEF LinkFollowsProcess, IInv, TypeOK, Live
<1>5. SingleRestartTask'
  <2>1. restartTask # "spawning"
    BY DEF IInv, SingleRestartTask, Quiescent
  <2> QED
    BY <1>2, <2>1 DEF SingleRestartTask
<1> QED
  BY <1>3, <1>4, <1>5 DEF IInv

\* Idle instances are quiescent until the application stops them.
LEMMA IdleQuiescent ==
  ASSUME IInv, state \in IdleStates, state = "dead" => app \notin {"stop_instance", "stopped"}
  PROVE  Quiescent
BY NoProcAssumption
DEF IInv, LiveIsCurrent, SettledIsEmpty, StartInProgress, WatchedIsCurrent, IdleStates, Quiescent

\* Facts about the scheduler's two ways to start the instance.
LEMMA SchedulerSpawns ==
  ASSUME IInv, RuntimeTypeOK', NEW p \in Procs, FetchStarts(p) \/ RestartAfterStop(p)
  PROVE  IInv'
<1>1. /\ Start("scheduler", p) /\ state \in {"not_started", "dead"}
      /\ sched \in {"fetch", "stopping"} /\ sched' = "starting" /\ UNCHANGED app
  BY DEF FetchStarts, RestartAfterStop
<1>2. state' = "starting"
  BY <1>1, ApplyFollowsTable DEF Start, SUPERVISOR_TRANSITION_TABLE
<1>3. app \notin {"stop_health", "stop_instance", "stopped"}
  BY <1>1 DEF IInv, SchedulerStopsFirst
<1>4. Quiescent
  BY <1>1, <1>3, IdleQuiescent DEF IdleStates
<1> QED
  BY <1>1, <1>2, <1>3, <1>4, SpawnKeeps DEF Start, SchedulerStopsFirst, Starters

\* clear_circuit_break() keeps the invariant.
LEMMA OperatorKeeps ==
  ASSUME IInv, RuntimeTypeOK', NEW p \in Procs, OperatorClear(p)
  PROVE  IInv'
<1>1. state = "circuit_broken" /\ SpawnBody("operator", p) /\ UNCHANGED <<restartTask, sched, app>>
  BY DEF OperatorClear, ClearCircuitBreak, taskVars
<1>2. state' = "starting"
  BY ApplyFollowsTable DEF OperatorClear, ClearCircuitBreak, SUPERVISOR_TRANSITION_TABLE
<1>3. Quiescent
  BY <1>1, IdleQuiescent DEF IdleStates
<1> QED
  BY <1>1, <1>2, <1>3, SpawnKeeps DEF IInv, SchedulerStopsFirst, Starters

\* The restart task keeps the invariant: it spawns only while no watcher could schedule another.
LEMMA RestartKeeps ==
  ASSUME IInv, RuntimeTypeOK', RestartStep
  PROVE  IInv'
<1>1. CASE RestartAbandoned
  <2>1. /\ UNCHANGED <<state, process, starter, watch, os, link, sched, app>>
        /\ restartTask = "sleeping" /\ restartTask' = "none"
    BY <1>1 DEF RestartStep, RestartAbandoned, processVars, taskVars
  <2> QED
    BY <2>1 DEF IInv, LiveIsCurrent, SettledIsEmpty, StartInProgress, WatchedIsCurrent,
       LinkFollowsProcess, SchedulerStopsFirst, SingleRestartTask, Live, Unstartable
<1>2. ASSUME NEW p \in Procs, RestartBackoffElapses(p) PROVE IInv'
  <2>1. /\ restartTask = "sleeping" /\ restartTask' = "spawning"
        /\ SpawnBody("restart", p) /\ UNCHANGED <<sched, app>>
    BY <1>2 DEF RestartStep, RestartBackoffElapses, taskVars
  <2>2. state = "crashed" /\ state' = "starting"
    BY <1>2, ApplyFollowsTable
    DEF RestartBackoffElapses, RestartAllowed, Defined, SUPERVISOR_TRANSITION_TABLE
  <2>3. Quiescent
    BY <2>1, <2>2 DEF IInv, SettledIsEmpty, StartInProgress, SingleRestartTask, Quiescent,
       RuntimeTypeOK, TypeOK
  <2> QED
    BY <2>1, <2>2, <2>3, SpawnKeeps DEF IInv, SchedulerStopsFirst, Starters
<1> QED
  BY <1>1, <1>2 DEF RestartStep

\* start() of p returned, with the subprocess created and, after a failure, gone.
LEMMA StartReturnsKeeps ==
  ASSUME IInv, RuntimeTypeOK', NEW p \in Procs, starter[p] # "none",
         NEW event \in {"hello_succeeded", "start_failure_to_crashed"},
         StartReturns(p, event), StarterResumes(p, state = "starting"),
         \A q \in Procs \ {p} : os'[q] = os[q] /\ link'[q] = link[q],
         os'[p] # "creating", Live(p)' => Live(p), link'[p] = "refused" => ~Live(p)',
         event = "start_failure_to_crashed" => ~Live(p)' /\ Unstartable(p)'
  PROVE  IInv'
<1>1. process = p /\ process' = p /\ state \in {"starting", "draining"}
  BY DEF IInv, StartInProgress, StartReturns
<1>2. \A q \in Procs : watch[q] # "waiting" /\ (q # p => starter[q] = "none" /\ ~Live(q))
  BY <1>1 DEF IInv, StartInProgress, WatchedIsCurrent, LiveIsCurrent
<1>3. starter' = [starter EXCEPT ![p] = "none"] /\ TypeOK
  BY DEF StartReturns, IInv, RuntimeTypeOK
<1>4. \A q \in Procs : starter'[q] = "none"
  BY <1>2, <1>3 DEF TypeOK
<1>5. \A q \in Procs \ {p} : ~Live(q)'
  BY <1>2 DEF Live
<1>6. restartTask' # "spawning"
  BY <1>2 DEF StartReturns, IInv, SingleRestartTask
<1>7. SchedulerStopsFirst'
  <2>1. UNCHANGED app /\ (starter[p] # "scheduler" => UNCHANGED sched)
    BY DEF StarterResumes
  <2>2. starter[p] = "scheduler" => sched = "starting"
    BY DEF IInv, StartInProgress
  <2> QED
    BY <2>1, <2>2 DEF IInv, SchedulerStopsFirst
<1>8. LinkFollowsProcess'
  BY <1>5 DEF LinkFollowsProcess, IInv, Live
<1>9. CASE state = "starting"
  <2>1. state' = IF event = "hello_succeeded" THEN "ready" ELSE "crashed"
    <3>1. Defined(state, event)
      BY <1>9, ApplyFollowsTable DEF SUPERVISOR_TRANSITION_TABLE
    <3>2. state' = ApplyTransition(state, event)
      BY <3>1 DEF StartReturns
    <3> QED
      BY <1>9, <3>2, ApplyFollowsTable DEF SUPERVISOR_TRANSITION_TABLE
  <2>2. /\ restartTask' = "none"
        /\ watch' = [watch EXCEPT ![p] = "waiting"]
    BY <1>9, ApplyFollowsTable DEF StartReturns, SUPERVISOR_TRANSITION_TABLE
  <2>3. \A q \in Procs : watch'[q] = "waiting" => q = p
    BY <1>2, <1>3, <2>2 DEF TypeOK
  <2>4. LiveIsCurrent' /\ SettledIsEmpty' /\ StartInProgress'
    BY <1>1, <1>4, <1>5, <2>1 DEF LiveIsCurrent, SettledIsEmpty, StartInProgress, IdleStates
  <2>5. WatchedIsCurrent' /\ SingleRestartTask'
    BY <1>1, <1>4, <2>1, <2>2, <2>3 DEF WatchedIsCurrent, SingleRestartTask
  <2> QED
    BY <1>7, <1>8, <2>4, <2>5 DEF IInv
<1>10. CASE state = "draining"
  <2>1. ~Defined(state, event)
    BY <1>10 DEF Defined, SUPERVISOR_TRANSITION_TABLE
  <2>2. UNCHANGED <<state, watch>>
    BY <2>1 DEF StartReturns
  <2>3. LiveIsCurrent' /\ SettledIsEmpty' /\ StartInProgress'
    BY <1>1, <1>4, <1>5, <1>10, <2>2 DEF LiveIsCurrent, SettledIsEmpty, StartInProgress, IdleStates
  <2>4. WatchedIsCurrent' /\ SingleRestartTask'
    BY <1>2, <1>4, <1>6, <2>2 DEF WatchedIsCurrent, SingleRestartTask
  <2> QED
    BY <1>7, <1>8, <2>3, <2>4 DEF IInv
<1> QED
  BY <1>1, <1>9, <1>10

\* ConnectorProcess.start() keeps the invariant, also when a shutdown has overtaken it.
LEMMA StartKeeps ==
  ASSUME IInv, RuntimeTypeOK', NEW p \in Procs, StartStep(p)
  PROVE  IInv'
<1>0. TypeOK /\ starter[p] # "none"
  BY DEF IInv, RuntimeTypeOK, StartStep, SubprocessCreated, SubprocessSpawnFails, HelloSucceeds,
         HelloFails, FailedHelloReaped, HelloWriteRaises, AwaitsHello
<1>1. CASE SubprocessCreated(p) /\ UNCHANGED taskVars
  <2>1. Quiet
    BY <1>0, <1>1 DEF SubprocessCreated, taskVars, instanceVars, Quiet, TypeOK, Live, Unstartable,
       IInv, LinkFollowsProcess, SchedulerStopsFirst
  <2> QED
    BY <2>1, QuietKeeps
<1>2. CASE SubprocessSpawnFails(p) /\ StarterResumes(p, state = "starting")
  <2>1. os' = [os EXCEPT ![p] = "failed"] /\ link' = link /\ StartReturns(p, "start_failure_to_crashed")
    BY <1>2 DEF SubprocessSpawnFails
  <2> QED
    BY <1>0, <1>2, <2>1, StartReturnsKeeps DEF TypeOK, Live, Unstartable
<1>3. CASE HelloSucceeds(p) /\ StarterResumes(p, state = "starting")
  <2>1. /\ link' = [link EXCEPT ![p] = "up"] /\ os' = os /\ StartReturns(p, "hello_succeeded")
        /\ os[p] # "creating"
    BY <1>3 DEF HelloSucceeds, AwaitsHello, Exited
  <2> QED
    BY <1>0, <1>3, <2>1, StartReturnsKeeps DEF TypeOK, Live
<1>4. CASE HelloFails(p) /\ UNCHANGED taskVars
  <2>1. /\ link' = [link EXCEPT ![p] = "refused"] /\ os' = Killed(os, p)
        /\ os[p] = "alive" \/ Exited(p)
        /\ UNCHANGED <<instanceVars, watch, starter, sched, app>>
    BY <1>4 DEF HelloFails, AwaitsHello, taskVars
  <2>2. Quiet
    BY <1>0, <2>1 DEF instanceVars, Quiet, TypeOK, Live, Exited, Unstartable, Killed,
       IInv, LinkFollowsProcess, SchedulerStopsFirst
  <2> QED
    BY <2>2, QuietKeeps
<1>5. CASE FailedHelloReaped(p) /\ StarterResumes(p, state = "starting")
  <2>1. /\ link[p] = "refused" /\ UNCHANGED <<os, link>> /\ StartReturns(p, "start_failure_to_crashed")
        /\ ~Live(p)
    BY <1>5 DEF FailedHelloReaped, IInv, LinkFollowsProcess
  <2> QED
    BY <1>0, <1>5, <2>1, StartReturnsKeeps DEF Live, Unstartable
<1>6. CASE HelloWriteMayRaise /\ HelloWriteRaises(p) /\ StarterResumes(p, FALSE)
  <2>1. /\ UNCHANGED <<state, process, watch, os, link, app>>
        /\ starter' = [starter EXCEPT ![p] = "none"]
        /\ restartTask' = IF starter[p] = "restart" THEN "none" ELSE restartTask
        /\ sched' = sched \/ starter[p] = "scheduler"
    BY <1>6 DEF HelloWriteRaises, StarterResumes
  <2>2. StartInProgress /\ SchedulerStopsFirst /\ SingleRestartTask
    BY DEF IInv
  <2>3. \A q \in Procs : starter'[q] = "none"
    BY <1>0, <2>1, <2>2 DEF StartInProgress, TypeOK
  <2>4. restartTask' # "spawning" /\ (restartTask = "none" => restartTask' = "none")
    BY <1>0, <2>1, <2>2 DEF StartInProgress, SingleRestartTask
  <2>5. SchedulerStopsFirst'
    BY <2>1, <2>2 DEF StartInProgress, SchedulerStopsFirst
  <2>6. LiveIsCurrent' /\ SettledIsEmpty' /\ LinkFollowsProcess' /\ WatchedIsCurrent'
    BY <2>1, <2>3 DEF IInv, LiveIsCurrent, SettledIsEmpty, LinkFollowsProcess, WatchedIsCurrent, Live, Unstartable
  <2>7. StartInProgress' /\ SingleRestartTask'
    BY <2>1, <2>2, <2>3, <2>4 DEF StartInProgress, SingleRestartTask
  <2> QED
    BY <2>5, <2>6, <2>7 DEF IInv
<1> QED
  BY <1>1, <1>2, <1>3, <1>4, <1>5, <1>6 DEF StartStep

\* The watcher of p handles the exit: nothing of the instance is left behind.
LEMMA WatcherKeeps ==
  ASSUME IInv, RuntimeTypeOK', NEW p \in Procs, WatcherStep(p)
  PROVE  IInv'
<1>1. /\ WatcherWakes(p) /\ UNCHANGED taskVars /\ process' = NoProc
  BY DEF WatcherStep, GracefulExitHandled, StopHandled, CircuitBreakHandled, RestartHandled, CrashHandled
<1>2. /\ watch[p] = "waiting" /\ watch' = [watch EXCEPT ![p] = "done"]
      /\ UNCHANGED <<starter, os, link, sched, app>> /\ ~Live(p) /\ TypeOK
  BY <1>1 DEF WatcherWakes, taskVars, Exited, Live, IInv, RuntimeTypeOK
<1>3. /\ starter[p] = "none"
      /\ \/ process = p
         \/ /\ state = "dead" /\ app \in {"stop_instance", "stopped"}
            /\ process = NoProc /\ Unstartable(p)
  BY <1>2 DEF IInv, WatchedIsCurrent, SettledIsEmpty, IdleStates
<1>4. \A q \in Procs : ~Live(q) /\ starter[q] = "none"
  BY <1>2, <1>3, NoProcAssumption DEF IInv, LiveIsCurrent, StartInProgress
<1>5. \A q \in Procs : watch'[q] = "waiting" =>
        /\ watch[q] = "waiting" /\ os[q] # "creating"
        /\ state = "dead" /\ app \in {"stop_instance", "stopped"} /\ Unstartable(q)
  BY <1>2, <1>3, NoProcAssumption DEF IInv, WatchedIsCurrent, TypeOK
<1>6. restartTask = "none"
  BY <1>2 DEF IInv, SingleRestartTask
<1>7. state = "dead" => state' = "dead" /\ restartTask' = "none"
  <2>1. ASSUME state = "dead" PROVE ~GracefulExit(p) /\ Unstartable(p)
    BY <1>3, <2>1, NoProcAssumption DEF GracefulExit, ActiveStates, IInv, SettledIsEmpty, IdleStates
  <2>2. ASSUME Unstartable(p) PROVE Decision(p) = "stop"
    BY <2>2 DEF Unstartable, Decision, ExitReason, ShouldRestart, RestartableExitReasons
  <2>3. ASSUME state = "dead" PROVE StopHandled(p)
    BY <2>1, <2>2, <2>3 DEF WatcherStep, GracefulExitHandled, CircuitBreakHandled, RestartHandled
  <2> QED
    BY <1>6, <2>3 DEF StopHandled
<1>8. restartTask' # "spawning"
  BY <1>6 DEF WatcherStep, GracefulExitHandled, StopHandled, CircuitBreakHandled, RestartHandled
<1>9. LiveIsCurrent' /\ SettledIsEmpty' /\ StartInProgress'
  BY <1>1, <1>2, <1>4 DEF LiveIsCurrent, SettledIsEmpty, StartInProgress, Live
<1>10. WatchedIsCurrent' /\ SingleRestartTask'
  BY <1>2, <1>4, <1>5, <1>7, <1>8 DEF WatchedIsCurrent, SingleRestartTask, Live, Unstartable
<1>11. LinkFollowsProcess' /\ SchedulerStopsFirst'
  BY <1>2 DEF IInv, LinkFollowsProcess, SchedulerStopsFirst, Live
<1> QED
  BY <1>9, <1>10, <1>11 DEF IInv

\* What request_shutdown() does to the subprocesses.
LEMMA RequestShutdownEffect ==
  ASSUME TypeOK, NEW t \in Callers, RequestShutdown(t)
  PROVE  /\ UNCHANGED <<watch, link>> /\ restartTask' = "none"
         /\ \A p \in Procs :
              /\ starter'[p] = IF starter[p] = "restart" THEN "none" ELSE starter[p]
              /\ Live(p)' => Live(p)
              /\ os'[p] = "creating" => os[p] = "creating"
              /\ os[p] = "failed" => os'[p] = "failed"
         /\ \/ state \in {"crashed", "circuit_broken"} /\ state' = "dead" /\ process' = NoProc
            \/ /\ state \notin {"crashed", "circuit_broken"} /\ process' = process
               /\ state' = IF state \in {"starting", "ready", "running"} THEN "draining" ELSE state
<1>1. /\ UNCHANGED <<watch, link>> /\ restartTask' = "none"
      /\ \A p \in Procs : starter'[p] = IF starter[p] = "restart" THEN "none" ELSE starter[p]
  BY DEF RequestShutdown, CancelStarter
<1>2. \A p \in Procs : AfterCancel("restart")[p] \in {os[p], "failed"}
  BY DEF AfterCancel
<1>3. os' = AfterCancel("restart") \/ os' = Killed(AfterCancel("restart"), process)
  BY DEF RequestShutdown, AbortToDead, BeginDrain
<1>4. \A p \in Procs : os'[p] \in {os[p], "failed"} \/ (os[p] = "alive" /\ os'[p] = "exit_err")
  BY <1>2, <1>3 DEF Killed, AfterCancel
<1>5. \/ state \in {"crashed", "circuit_broken"} /\ state' = "dead" /\ process' = NoProc
      \/ /\ state \notin {"crashed", "circuit_broken"} /\ process' = process
         /\ state' = SuppressedTransition(state, "shutdown_requested")
  BY DEF RequestShutdown, AbortToDead, BeginDrain
<1>6. state \notin {"crashed", "circuit_broken"} =>
        SuppressedTransition(state, "shutdown_requested")
          = IF state \in {"starting", "ready", "running"} THEN "draining" ELSE state
  <2>1. ASSUME state \in {"starting", "ready", "running"}
        PROVE  <<state, "shutdown_requested", "draining">> \in SUPERVISOR_TRANSITION_TABLE
    BY <2>1 DEF SUPERVISOR_TRANSITION_TABLE
  <2>2. ASSUME state \notin {"crashed", "circuit_broken", "starting", "ready", "running"}
        PROVE  ~Defined(state, "shutdown_requested")
    BY <2>2 DEF Defined, SUPERVISOR_TRANSITION_TABLE
  <2> QED
    BY <2>1, <2>2, ApplyFollowsTable DEF SuppressedTransition
<1> QED
  BY <1>1, <1>4, <1>5, <1>6 DEF Live

\* request_shutdown() by a running caller keeps the invariant.
LEMMA RequestShutdownKeeps ==
  ASSUME IInv, RuntimeTypeOK', NEW t \in Callers, RequestShutdown(t), SchedulerStopsFirst',
         sched = "starting" => sched' = "starting",
         app \in {"stop_instance", "stopped"} => app' \in {"stop_instance", "stopped"},
         state \in {"crashed", "circuit_broken"} => app' = "stop_instance"
  PROVE  IInv'
<1>1. TypeOK
  BY DEF IInv, RuntimeTypeOK
<1>2. restartTask' # "spawning" /\ \A p \in Procs : starter'[p] # "restart"
  BY <1>1, RequestShutdownEffect
<1>3. LiveIsCurrent' /\ SettledIsEmpty' /\ StartInProgress'
  BY <1>1, RequestShutdownEffect, NoProcAssumption
  DEF IInv, LiveIsCurrent, SettledIsEmpty, StartInProgress, IdleStates
<1>4. WatchedIsCurrent'
  BY <1>1, RequestShutdownEffect, NoProcAssumption
  DEF IInv, WatchedIsCurrent, SettledIsEmpty, IdleStates, Unstartable
<1>5. LinkFollowsProcess' /\ SingleRestartTask'
  BY <1>1, <1>2, RequestShutdownEffect DEF IInv, LinkFollowsProcess, SingleRestartTask
<1> QED
  BY <1>3, <1>4, <1>5 DEF IInv

\* Cancelling the scheduler task keeps the invariant at each of its awaits.
LEMMA StopSchedulerKeeps ==
  ASSUME IInv, RuntimeTypeOK', StopScheduler
  PROVE  IInv'
<1> DEFINE Resumed(t) == \A p \in Procs :
             /\ starter'[p] = IF starter[p] = t THEN "none" ELSE starter[p]
             /\ os'[p] = IF starter[p] = t /\ os[p] = "creating" THEN "failed" ELSE os[p]
<1>1. /\ app = "running" /\ app' = "stop_scheduler" /\ UNCHANGED <<state, process>>
      /\ SchedulerStopsFirst' /\ TypeOK
  BY DEF StopScheduler, SchedulerStopsFirst, IInv, RuntimeTypeOK
<1>2. CASE CancelsSleepOrWait \/ CancelsStop \/ StopSwallowsCancel \/ WatcherSwallowsCancel
  <2>1. /\ UNCHANGED <<starter, os, watch, restartTask>> /\ sched # "starting"
        /\ \/ UNCHANGED link
           \/ \E q \in {callProc["scheduler"]} : link[q] = "up" /\ link' = [link EXCEPT ![q] = "closed"]
    BY <1>2 DEF CancelsSleepOrWait, CancelsStop, StopSwallowsCancel, WatcherSwallowsCancel,
       DispatchCancelled, InDispatchJoin, callVars
  <2>2. \A p \in Procs : link'[p] = link[p] \/ (link[p] = "up" /\ link'[p] = "closed")
    BY <1>1, <2>1 DEF TypeOK
  <2>3. Quiet
    BY <1>1, <2>1, <2>2 DEF Quiet, Live, Unstartable, IInv, LinkFollowsProcess
  <2> QED
    BY <2>3, QuietKeeps
<1>3. CASE CancelsStart
  <2>1. Resumed("scheduler") /\ UNCHANGED <<watch, link, restartTask>>
    BY <1>1, <1>3 DEF CancelsStart, CancelStarter, AfterCancel, TypeOK
  <2>2. LiveIsCurrent' /\ SettledIsEmpty' /\ StartInProgress'
    BY <1>1, <2>1 DEF IInv, LiveIsCurrent, SettledIsEmpty, StartInProgress, Live
  <2>3. WatchedIsCurrent' /\ LinkFollowsProcess' /\ SingleRestartTask'
    BY <1>1, <2>1 DEF IInv, WatchedIsCurrent, LinkFollowsProcess, SingleRestartTask, Live, Unstartable
  <2> QED
    BY <1>1, <2>2, <2>3 DEF IInv
<1>4. CASE CancelsJoinedRestart
  <2>1. Resumed("restart") /\ UNCHANGED <<watch, link, sched>> /\ restartTask' = "none"
    BY <1>1, <1>4 DEF CancelsJoinedRestart, CancelStarter, AfterCancel, TypeOK
  <2>2. LiveIsCurrent' /\ SettledIsEmpty' /\ StartInProgress'
    BY <1>1, <2>1 DEF IInv, LiveIsCurrent, SettledIsEmpty, StartInProgress, Live
  <2>3. WatchedIsCurrent' /\ LinkFollowsProcess' /\ SingleRestartTask'
    BY <1>1, <2>1 DEF IInv, WatchedIsCurrent, LinkFollowsProcess, SingleRestartTask, Live, Unstartable
  <2> QED
    BY <1>1, <2>2, <2>3 DEF IInv
<1>5. CASE CancelsJoinedWatcher
  <2>1. /\ UNCHANGED <<starter, os, link, restartTask, sched>>
        /\ \A p \in Procs : watch'[p] = "waiting" => watch[p] = "waiting"
    BY <1>1, <1>5 DEF CancelsJoinedWatcher, TypeOK
  <2>2. LiveIsCurrent' /\ SettledIsEmpty' /\ StartInProgress'
    BY <1>1, <2>1 DEF IInv, LiveIsCurrent, SettledIsEmpty, StartInProgress, Live
  <2>3. WatchedIsCurrent' /\ LinkFollowsProcess' /\ SingleRestartTask'
    BY <1>1, <2>1 DEF IInv, WatchedIsCurrent, LinkFollowsProcess, SingleRestartTask, Live, Unstartable
  <2> QED
    BY <1>1, <2>2, <2>3 DEF IInv
<1> QED
  BY <1>2, <1>3, <1>4, <1>5 DEF StopScheduler

\* shutdown_all() keeps the invariant.
LEMMA ShutdownKeeps ==
  ASSUME IInv, RuntimeTypeOK', StopHealth \/ StopInstance \/ AppStopped
  PROVE  IInv'
<1>1. CASE StopHealth
  <2>1. /\ UNCHANGED <<instanceVars, watch, starter, os, sched>> /\ sched = "done"
        /\ app = "stop_scheduler"
        /\ \/ UNCHANGED link
           \/ link[probed] = "up" /\ link' = [link EXCEPT ![probed] = "closed"]
    BY <1>1 DEF StopHealth, DispatchCancelled, InDispatchJoin
  <2>2. \A p \in Procs : link'[p] = link[p] \/ (link[p] = "up" /\ link'[p] = "closed")
    BY <2>1 DEF IInv, RuntimeTypeOK, TypeOK
  <2>3. Quiet
    BY <2>1, <2>2 DEF Quiet, Live, Unstartable, IInv, LinkFollowsProcess, SchedulerStopsFirst, instanceVars
  <2> QED
    BY <2>3, QuietKeeps
<1>2. CASE StopInstance
  <2>1. /\ RequestShutdown("app") /\ app = "stop_health" /\ app' = "stop_instance" /\ UNCHANGED sched
    BY <1>2 DEF StopInstance
  <2> QED
    BY <2>1, RequestShutdownKeeps DEF IInv, SchedulerStopsFirst, Callers
<1>3. CASE AppStopped
  <2>1. Quiet
    BY <1>3 DEF AppStopped, Quiet, instanceVars, processVars, Live, Unstartable, IInv,
       LinkFollowsProcess, SchedulerStopsFirst
  <2> QED
    BY <2>1, QuietKeeps
<1> QED
  BY <1>1, <1>2, <1>3

\* One step of _run_loop keeps the invariant.
LEMMA SchedulerKeeps ==
  ASSUME IInv, RuntimeTypeOK', SchedulerStep
  PROVE  IInv'
<1>1. CASE FetchStops
  <2>1. /\ RequestShutdown("scheduler") /\ UNCHANGED app /\ sched = "fetch"
        /\ state \notin {"crashed", "circuit_broken"}
    BY <1>1 DEF FetchStops, ActiveStates
  <2> QED
    BY <2>1, RequestShutdownKeeps DEF IInv, SchedulerStopsFirst, Callers
<1>2. CASE FetchSkips \/ IdleSeen \/ IntervalEnds \/ StopWithoutRestart
  <2>1. UNCHANGED <<instanceVars, processVars, app>> /\ sched \notin {"done", "starting"}
    BY <1>2 DEF FetchSkips, IdleSeen, IntervalEnds, StopWithoutRestart
  <2>2. Quiet
    BY <2>1 DEF Quiet, instanceVars, processVars, Live, Unstartable, IInv, LinkFollowsProcess,
       SchedulerStopsFirst
  <2> QED
    BY <2>2, QuietKeeps
<1> QED
  BY <1>1, <1>2, SchedulerSpawns DEF SchedulerStep

\* SIGKILL does not revive anything.
LEMMA KilledEffect ==
  ASSUME TypeOK, NEW p, os' = os \/ os' = Killed(os, p)
  PROVE  \A q \in Procs : os'[q] = os[q] \/ (os[q] = "alive" /\ os'[q] = "exit_err")
BY DEF TypeOK, Killed

\* The steps of a shutdown call keep the invariant: they only end subprocesses.
LEMMA CallKeeps ==
  ASSUME IInv, RuntimeTypeOK', NEW t \in Callers, CallStep(t)
  PROVE  IInv'
<1>1. /\ UNCHANGED <<taskVars, instanceVars, watch, starter, link>>
      /\ os' = os \/ os' = Killed(os, callProc[t])
  BY DEF CallStep, StopCall, ShutdownAcked, ShutdownTimesOut, ShutdownBroken, TermReturns,
         ReapReturns, RestartJoined, CallUnchanged
<1>2. \A q \in Procs : os'[q] = os[q] \/ (os[q] = "alive" /\ os'[q] = "exit_err")
  BY <1>1, KilledEffect DEF IInv, RuntimeTypeOK
<1>3. Quiet
  BY <1>1, <1>2 DEF Quiet, taskVars, instanceVars, Live, Unstartable, IInv, LinkFollowsProcess,
     SchedulerStopsFirst
<1> QED
  BY <1>3, QuietKeeps

\* The health loop keeps the invariant: all it can do to a subprocess is kill it.
LEMMA HealthKeeps ==
  ASSUME IInv, RuntimeTypeOK', HealthStep
  PROVE  IInv'
<1>1. HealthUnchanged /\ (os' = os \/ os' = Killed(os, process))
  BY DEF HealthStep, HealthSkips, HealthProbes, ProbeAnswered, ProbeMissed, RemediationReaped
<1>2. \A q \in Procs : os'[q] = os[q] \/ (os[q] = "alive" /\ os'[q] = "exit_err")
  BY <1>1, KilledEffect DEF IInv, RuntimeTypeOK
<1>3. Quiet
  BY <1>1, <1>2 DEF Quiet, HealthUnchanged, instanceVars, Live, Unstartable, IInv, LinkFollowsProcess,
     SchedulerStopsFirst
<1> QED
  BY <1>3, QuietKeeps

\* What subprocesses and streams do by themselves keeps the invariant.
LEMMA EnvironmentKeeps ==
  ASSUME IInv, RuntimeTypeOK', UNCHANGED taskVars,
         Environment \/ \E p \in Procs : DispatchReadsEof(p)
  PROVE  IInv'
<1> USE DEF taskVars, IInv, RuntimeTypeOK, TypeOK, SchedulerStopsFirst, Quiet
<1>1. ASSUME NEW p \in Procs, ProcessExitsCleanly(p) \/ ProcessCrashes(p) PROVE Quiet
  BY <1>1 DEF ProcessExitsCleanly, ProcessCrashes, instanceVars, Live, Unstartable, LinkFollowsProcess
<1>2. ASSUME NEW p \in Procs, DispatchFails(p) \/ DispatchReadsEof(p) PROVE Quiet
  BY <1>2 DEF DispatchFails, DispatchReadsEof, instanceVars, Live, Unstartable, LinkFollowsProcess
<1>3. CASE WindowSlides
  BY <1>3, QuietKeeps DEF WindowSlides, processVars, Live, Unstartable, LinkFollowsProcess
<1>4. ASSUME NEW p \in Procs, FirstEmit(p) PROVE IInv'
  <2>1. /\ state = "ready" /\ state' = "running"
        /\ UNCHANGED <<process, restartTask, watch, starter, os, link>>
    BY <1>4, ApplyFollowsTable DEF FirstEmit, SUPERVISOR_TRANSITION_TABLE, processVars
  <2> QED
    BY <2>1 DEF LiveIsCurrent, SettledIsEmpty, StartInProgress, WatchedIsCurrent, LinkFollowsProcess,
       SingleRestartTask, IdleStates, Live, Unstartable
<1> QED
  BY <1>1, <1>2, <1>3, <1>4, QuietKeeps DEF Environment

\* Every step keeps the invariant.
LEMMA InvStep == IInv /\ [Next]_vars => IInv'
<1> SUFFICES ASSUME IInv, [Next]_vars PROVE IInv'
  OBVIOUS
<1>1. RuntimeTypeOK'
  BY TypeStep DEF IInv
<1>2. CASE UNCHANGED vars
  <2>1. Quiet
    BY <1>2 DEF vars, instanceVars, processVars, callVars, taskVars, Quiet, IInv, LinkFollowsProcess,
       SchedulerStopsFirst, Live, Unstartable
  <2> QED
    BY <1>1, <2>1, QuietKeeps
<1>3. CASE Next
  BY <1>1, <1>2, <1>3, SchedulerKeeps, StartKeeps, WatcherKeeps, OperatorKeeps, RestartKeeps, CallKeeps,
     HealthKeeps, StopSchedulerKeeps, ShutdownKeeps, EnvironmentKeeps DEF Next, Terminated
<1> QED
  BY <1>2, <1>3

-----------------------------------------------------------------------------
(* Refinement of SubprocessLifecycle.                                      *)

\* What a step does to the abstract lifecycle: a subprocess is born into "starting" ...
Birth ==
  /\ state \in {"not_started", "dead", "crashed", "circuit_broken"} /\ Move(state, "starting")
  /\ state' = "starting"
  /\ \E p \in Procs : Live(p)'

\* ... or the state follows the table and nothing is born.
Progress ==
  /\ Lifecycle!Follows(state, state')
  /\ state' # state => state' # "starting"
  /\ \A p \in Procs : Live(p)' => Live(p)

\* The abstract specification reads the same table.
LEMMA SameTable == \A s, n : Lifecycle!Move(s, n) <=> Move(s, n)
<1>1. Lifecycle!SUPERVISOR_TRANSITION_TABLE = SUPERVISOR_TRANSITION_TABLE
  BY DEF Lifecycle!SUPERVISOR_TRANSITION_TABLE, SUPERVISOR_TRANSITION_TABLE
<1>2. Lifecycle!SupervisorTransitionEvent = SupervisorTransitionEvent
  BY DEF Lifecycle!SupervisorTransitionEvent, SupervisorTransitionEvent
<1> QED
  BY <1>1, <1>2 DEF Lifecycle!Move, Move

\* An entry of the table is a move.
LEMMA MoveIntro ==
  ASSUME NEW s, NEW e, NEW n, <<s, e, n>> \in SUPERVISOR_TRANSITION_TABLE
  PROVE  Move(s, n)
BY TableLeadsToState DEF Move

\* A step that keeps the state and gives no subprocess life is abstract progress.
LEMMA StutterProgress ==
  ASSUME UNCHANGED state, \A p \in Procs : Live(p)' => Live(p)
  PROVE  Progress
BY DEF Progress, Lifecycle!Follows

\* A birth from a settled instance maps to Begin.
LEMMA SpawnBirth ==
  ASSUME TypeOK, NEW t, NEW p \in Procs, SpawnBody(t, p), state' = "starting",
         state \in {"not_started", "dead", "crashed", "circuit_broken"}
  PROVE  Birth
<1>1. Move(state, "starting")
  <2>1. \E e \in SupervisorTransitionEvent : <<state, e, "starting">> \in SUPERVISOR_TRANSITION_TABLE
    BY DEF SUPERVISOR_TRANSITION_TABLE, SupervisorTransitionEvent
  <2> QED
    BY <2>1 DEF Move
<1>2. Live(p)'
  BY DEF SpawnBody, TypeOK, Live
<1> QED
  BY <1>1, <1>2 DEF Birth

\* request_shutdown() maps to Proceed.
LEMMA RequestShutdownProgress ==
  ASSUME TypeOK, NEW t \in Callers, RequestShutdown(t)
  PROVE  Progress
<1>1. \A p \in Procs : Live(p)' => Live(p)
  BY RequestShutdownEffect
<1>2. state' = state \/ state' \in {"dead", "draining"}
  BY RequestShutdownEffect
<1>3. state' = state \/ Move(state, state')
  <2>1. CASE state \in {"crashed", "circuit_broken"} /\ state' = "dead"
    <3>1. \E e \in SupervisorTransitionEvent : <<state, e, "dead">> \in SUPERVISOR_TRANSITION_TABLE
      BY <2>1 DEF SUPERVISOR_TRANSITION_TABLE, SupervisorTransitionEvent
    <3> QED
      BY <2>1, <3>1 DEF Move
  <2>2. CASE state \in {"starting", "ready", "running"} /\ state' = "draining"
    <3>1. <<state, "shutdown_requested", "draining">> \in SUPERVISOR_TRANSITION_TABLE
      BY <2>2 DEF SUPERVISOR_TRANSITION_TABLE
    <3> QED
      BY <2>2, <3>1, MoveIntro
  <2> QED
    BY <2>1, <2>2, RequestShutdownEffect
<1> QED
  BY <1>1, <1>2, <1>3, SameTable DEF Progress, Lifecycle!Follows

\* _handle_process_exit() maps to Proceed, a recorded crash and its decision to one step.
LEMMA WatcherProgress ==
  ASSUME IInv, NEW p \in Procs, WatcherStep(p)
  PROVE  Progress
<1>1. WatcherWakes(p) /\ TypeOK
  BY DEF WatcherStep, GracefulExitHandled, StopHandled, CircuitBreakHandled, RestartHandled, CrashHandled,
         IInv, RuntimeTypeOK
<1>2. \A q \in Procs : Live(q)' => Live(q)
  BY <1>1 DEF WatcherWakes, Live
<1>3. \A s \in {"starting", "ready", "running", "draining"} : Move(s, "crashed")
  <2>1. \A s \in {"starting", "ready", "running", "draining"} : \E e \in SupervisorTransitionEvent :
          <<s, e, "crashed">> \in SUPERVISOR_TRANSITION_TABLE
    BY DEF SUPERVISOR_TRANSITION_TABLE, SupervisorTransitionEvent
  <2> QED
    BY <2>1 DEF Move
<1>4. \A n \in {"dead", "circuit_broken"} : Move("crashed", n)
  <2>1. \A n \in {"dead", "circuit_broken"} : \E e \in SupervisorTransitionEvent :
          <<"crashed", e, n>> \in SUPERVISOR_TRANSITION_TABLE
    BY DEF SUPERVISOR_TRANSITION_TABLE, SupervisorTransitionEvent
  <2> QED
    BY <2>1 DEF Move
<1>5. \A s \in {"ready", "running", "draining"} : Move(s, "dead")
  <2>1. \A s \in {"ready", "running", "draining"} : \E e \in SupervisorTransitionEvent :
          <<s, e, "dead">> \in SUPERVISOR_TRANSITION_TABLE
    BY DEF SUPERVISOR_TRANSITION_TABLE, SupervisorTransitionEvent
  <2> QED
    BY <2>1 DEF Move
<1>6. state \in {"starting", "ready", "running", "draining", "crashed"} \/ (state = "dead" /\ Unstartable(p))
  BY <1>1, NoProcAssumption DEF WatcherWakes, TypeOK, ConnectorState, IInv, WatchedIsCurrent, SettledIsEmpty, IdleStates
<1>7. CASE GracefulExitHandled(p)
  BY <1>2, <1>5, <1>7, GracefulExitValue, SameTable DEF Progress, Lifecycle!Follows
<1>8. CASE StopHandled(p)
  BY <1>2, <1>3, <1>4, <1>6, <1>8, SameTable DEF StopHandled, Progress, Lifecycle!Follows
<1>9. ASSUME CircuitBreakHandled(p) \/ RestartHandled(p)
      PROVE  state \in {"starting", "ready", "running", "draining", "crashed"}
  BY <1>6, <1>9 DEF CircuitBreakHandled, RestartHandled, Unstartable, Decision, ExitReason, ShouldRestart,
     RestartableExitReasons
<1>10. CASE CircuitBreakHandled(p)
  BY <1>2, <1>3, <1>4, <1>9, <1>10, SameTable DEF CircuitBreakHandled, Progress, Lifecycle!Follows
<1>11. CASE RestartHandled(p)
  <2>1. state' = "crashed"
    BY <1>9, <1>11, AfterCrashValue DEF RestartHandled, ConnectorState
  <2> QED
    BY <1>2, <1>3, <1>9, <1>11, <2>1, SameTable DEF Progress, Lifecycle!Follows
<1> QED
  BY <1>7, <1>8, <1>10, <1>11 DEF WatcherStep

\* start() returns: the state follows the table out of "starting", or stays.
LEMMA StartProgress ==
  ASSUME IInv, NEW p \in Procs, StartStep(p)
  PROVE  Progress
<1>1. TypeOK
  BY DEF IInv, RuntimeTypeOK
<1>2. \A q \in Procs : Live(q)' => Live(q)
  <2>1. os' = os \/ os' = Killed(os, p) \/ (os[p] = "creating" /\ os' = [os EXCEPT ![p] = "alive"])
        \/ os' = [os EXCEPT ![p] = "failed"]
    BY DEF StartStep, SubprocessCreated, SubprocessSpawnFails, HelloSucceeds, HelloFails, FailedHelloReaped,
       HelloWriteRaises
  <2> QED
    BY <1>1, <2>1, KilledEffect DEF TypeOK, Live
<1>3. UNCHANGED state
      \/ \E event \in {"hello_succeeded", "start_failure_to_crashed"} : StartReturns(p, event)
  BY DEF StartStep, SubprocessCreated, SubprocessSpawnFails, HelloSucceeds, HelloFails, FailedHelloReaped,
         HelloWriteRaises, instanceVars
<1>4. ASSUME NEW event \in {"hello_succeeded", "start_failure_to_crashed"}, StartReturns(p, event)
      PROVE  Progress
  <2>1. CASE Defined(state, event)
    <3>1. state' = ApplyTransition(state, event)
      BY <1>4, <2>1 DEF StartReturns
    <3>2. <<state, event, state'>> \in SUPERVISOR_TRANSITION_TABLE
      BY <2>1, <3>1, DefinedApplies
    <3>3. state' # "starting"
      BY <3>2 DEF SUPERVISOR_TRANSITION_TABLE
    <3>4. Move(state, state')
      BY <3>2, MoveIntro
    <3> QED
      BY <1>2, <3>3, <3>4, SameTable DEF Progress, Lifecycle!Follows
  <2>2. CASE ~Defined(state, event)
    BY <1>2, <1>4, <2>2, StutterProgress DEF StartReturns
  <2> QED
    BY <2>1, <2>2
<1> QED
  BY <1>2, <1>3, <1>4, StutterProgress

\* The actions that make a subprocess map to Begin.
LEMMA BirthStep ==
  ASSUME IInv, NEW p \in Procs,
         FetchStarts(p) \/ RestartAfterStop(p) \/ OperatorClear(p) \/ RestartBackoffElapses(p)
  PROVE  Birth
<1>1. \E t \in Starters : SpawnBody(t, p)
  BY DEF FetchStarts, RestartAfterStop, Start, OperatorClear, ClearCircuitBreak, RestartBackoffElapses, Starters
<1>2. \/ state = "circuit_broken" /\ state' = ApplyTransition(state, "circuit_clear_restart")
      \/ Defined(state, "start_invoked") /\ state' = ApplyTransition(state, "start_invoked")
      \/ Defined(state, "restart_backoff_elapsed") /\ state' = ApplyTransition(state, "restart_backoff_elapsed")
  BY DEF FetchStarts, RestartAfterStop, Start, OperatorClear, ClearCircuitBreak, RestartBackoffElapses,
         RestartAllowed
<1>3. /\ state \in {"not_started", "dead", "crashed", "circuit_broken"}
      /\ state' = "starting"
  BY <1>2, ApplyFollowsTable DEF Defined, SUPERVISOR_TRANSITION_TABLE
<1> QED
  BY <1>1, <1>3, SpawnBirth DEF IInv, RuntimeTypeOK

\* The tasks that only kill, wait or give up leave the state alone.
LEMMA OtherProgress ==
  ASSUME IInv, \/ HealthStep \/ StopScheduler \/ StopHealth \/ AppStopped \/ RestartAbandoned
               \/ FetchSkips \/ IdleSeen \/ IntervalEnds \/ StopWithoutRestart
               \/ \E t \in Callers : CallStep(t)
               \/ \E p \in Procs : ProcessExitsCleanly(p) \/ ProcessCrashes(p) \/ DispatchFails(p)
                                   \/ DispatchReadsEof(p)
               \/ WindowSlides \/ UNCHANGED vars
  PROVE  Progress
<1>1. TypeOK
  BY DEF IInv, RuntimeTypeOK
<1>2. CASE HealthStep
  <2>1. UNCHANGED state /\ (os' = os \/ os' = Killed(os, process))
    BY <1>2 DEF HealthStep, HealthSkips, HealthProbes, ProbeAnswered, ProbeMissed, RemediationReaped,
       HealthUnchanged, instanceVars
  <2> QED
    BY <1>1, <2>1, KilledEffect, StutterProgress DEF Live
<1>3. ASSUME NEW t \in Callers, CallStep(t) PROVE Progress
  <2>1. UNCHANGED state /\ (os' = os \/ os' = Killed(os, callProc[t]))
    BY <1>3 DEF CallStep, StopCall, ShutdownAcked, ShutdownTimesOut, ShutdownBroken, TermReturns,
       ReapReturns, RestartJoined, CallUnchanged, instanceVars
  <2> QED
    BY <1>1, <2>1, KilledEffect, StutterProgress DEF Live
<1>4. CASE StopScheduler
  <2>1. UNCHANGED state /\ \A p \in Procs : os'[p] \in {os[p], "failed"}
    BY <1>1, <1>4 DEF StopScheduler, CancelsSleepOrWait, CancelsStart, CancelsStop, StopSwallowsCancel,
       CancelsJoinedRestart, CancelsJoinedWatcher, WatcherSwallowsCancel, AfterCancel, TypeOK
  <2> QED
    BY <2>1, StutterProgress DEF Live
<1>5. ASSUME NEW p \in Procs, ProcessExitsCleanly(p) \/ ProcessCrashes(p) PROVE Progress
  BY <1>1, <1>5, StutterProgress DEF ProcessExitsCleanly, ProcessCrashes, instanceVars, TypeOK, Live
<1>6. ASSUME NEW p \in Procs, DispatchFails(p) \/ DispatchReadsEof(p) PROVE Progress
  BY <1>6, StutterProgress DEF DispatchFails, DispatchReadsEof, instanceVars, Live
<1>7. ASSUME \/ StopHealth \/ AppStopped \/ RestartAbandoned \/ FetchSkips \/ IdleSeen \/ IntervalEnds
             \/ StopWithoutRestart \/ WindowSlides \/ UNCHANGED vars
      PROVE  UNCHANGED <<state, os>>
  BY <1>7 DEF StopHealth, AppStopped, RestartAbandoned, FetchSkips, IdleSeen, IntervalEnds, StopWithoutRestart,
     WindowSlides, vars, instanceVars, processVars
<1>8. ASSUME UNCHANGED <<state, os>> PROVE Progress
  BY <1>8, StutterProgress DEF Live
<1> QED
  BY <1>2, <1>3, <1>4, <1>5, <1>6, <1>7, <1>8

\* The first emit of a fetch maps to Proceed.
LEMMA FirstEmitProgress ==
  ASSUME NEW p \in Procs, FirstEmit(p)
  PROVE  Progress
<1>1. state = "ready" /\ state' = "running" /\ UNCHANGED os
  BY ApplyFollowsTable DEF FirstEmit, SUPERVISOR_TRANSITION_TABLE, processVars
<1>2. <<"ready", "first_operational_message", "running">> \in SUPERVISOR_TRANSITION_TABLE
  BY DEF SUPERVISOR_TRANSITION_TABLE
<1> QED
  BY <1>1, <1>2, MoveIntro, SameTable DEF Progress, Lifecycle!Follows, Live

\* A step of Next is a birth or progress.
LEMMA BirthOrProgress ==
  ASSUME IInv, [Next]_vars
  PROVE  Birth \/ Progress
<1>1. TypeOK
  BY DEF IInv, RuntimeTypeOK
<1>2. ASSUME SchedulerStep PROVE Birth \/ Progress
  BY <1>1, <1>2, BirthStep, OtherProgress, RequestShutdownProgress DEF SchedulerStep, FetchStops, Callers
<1>3. ASSUME RestartStep PROVE Birth \/ Progress
  BY <1>3, BirthStep, OtherProgress DEF RestartStep
<1>4. ASSUME StopInstance PROVE Progress
  BY <1>1, <1>4, RequestShutdownProgress DEF StopInstance, Callers
<1>5. ASSUME Environment \/ \E p \in Procs : DispatchReadsEof(p) PROVE Progress
  BY <1>5, OtherProgress, FirstEmitProgress DEF Environment
<1> QED
  BY <1>2, <1>3, <1>4, <1>5, BirthStep, StartProgress, WatcherProgress, OtherProgress DEF Next, Terminated

\* A step of the runtime is a step of the abstract lifecycle, or leaves it alone.
LEMMA LifecycleStep ==
  IInv /\ IInv' /\ [Next]_vars => [Lifecycle!Next]_<<state, \E p \in Procs : Live(p)>>
<1> SUFFICES ASSUME IInv, IInv', [Next]_vars PROVE Lifecycle!Next
  OBVIOUS
<1> DEFINE live == \E p \in Procs : Live(p)
<1>1. /\ state' \in ConnectorState
      /\ state \in Lifecycle!Settled => ~live
      /\ state' \in Lifecycle!Settled => ~live'
  BY NoProcAssumption
  DEF IInv, RuntimeTypeOK, TypeOK, LiveIsCurrent, SettledIsEmpty, IdleStates, Lifecycle!Settled
<1>2. CASE Birth
  <2>1. live' /\ state \in Lifecycle!Settled /\ Lifecycle!Move(state, "starting") /\ state' = "starting"
    BY <1>2, SameTable DEF Birth, Lifecycle!Settled
  <2>2. ~live /\ live' = TRUE
    BY <1>1, <2>1
  <2> QED
    BY <2>1, <2>2 DEF Lifecycle!Next, Lifecycle!Begin
<1>3. CASE Progress
  <2>1. live' => live
    BY <1>3 DEF Progress
  <2>2. live' \in {FALSE, live}
    BY <2>1
  <2>3. state' \in Lifecycle!ConnectorState
    BY <1>1 DEF ConnectorState, Lifecycle!ConnectorState
  <2> QED
    BY <1>1, <1>3, <2>2, <2>3 DEF Progress, Lifecycle!Next, Lifecycle!Proceed
<1> QED
  BY <1>2, <1>3, BirthOrProgress

-----------------------------------------------------------------------------
(* Who looks after the instance.                                           *)

Owners == ActiveIsWatched /\ CrashedIsOwned

\* A step that touches neither the instance nor its tasks leaves it with its owner.
LEMMA CalmOwners ==
  ASSUME Owners, UNCHANGED <<state, process, watcherTask, watch, restartTask, shutdownRequested>>,
         app' = "running" => app = "running"
  PROVE  Owners'
BY DEF Owners, ActiveIsWatched, CrashedIsOwned

\* An instance that is neither active nor crashed, or is being stopped, needs none.
LEMMA OwnerlessStates ==
  ASSUME state' \notin {"ready", "running", "crashed"} \/ app' # "running"
  PROVE  Owners'
BY DEF Owners, ActiveIsWatched, CrashedIsOwned, ActiveStates

\* One step of _run_loop: what it starts or stops is neither active nor crashed.
LEMMA SchedulerOwners ==
  ASSUME IInv, Owners, SchedulerStep
  PROVE  Owners'
<1>1. ASSUME NEW p \in Procs, FetchStarts(p) \/ RestartAfterStop(p) PROVE Owners'
  <2>1. state' = "starting"
    BY <1>1, ApplyFollowsTable DEF FetchStarts, RestartAfterStop, Start, SUPERVISOR_TRANSITION_TABLE
  <2> QED
    BY <2>1, OwnerlessStates
<1>2. CASE FetchStops
  <2>1. state' \notin {"ready", "running", "crashed"}
    BY <1>2, RequestShutdownEffect DEF FetchStops, Callers, IInv, RuntimeTypeOK
  <2> QED
    BY <2>1, OwnerlessStates
<1>3. CASE FetchSkips \/ IdleSeen \/ IntervalEnds \/ StopWithoutRestart
  <2>1. UNCHANGED <<instanceVars, processVars, app>>
    BY <1>3 DEF FetchSkips, IdleSeen, IntervalEnds, StopWithoutRestart
  <2> QED
    BY <2>1, CalmOwners DEF instanceVars, processVars
<1> QED
  BY <1>1, <1>2, <1>3 DEF SchedulerStep

\* The end of _spawn_process_body(): the transition out of "starting" and the new watcher
\* come together.
LEMMA StartReturnsOwners ==
  ASSUME IInv, NEW p \in Procs, starter[p] # "none",
         NEW event \in {"hello_succeeded", "start_failure_to_crashed"}, StartReturns(p, event)
  PROVE  Owners'
<1>1. process' = p /\ state \in {"starting", "draining"} /\ TypeOK
  BY DEF IInv, StartInProgress, StartReturns, RuntimeTypeOK
<1>2. CASE state = "starting"
  <2>1. Defined(state, event)
    BY <1>2, ApplyFollowsTable DEF SUPERVISOR_TRANSITION_TABLE
  <2>2. watcherTask' = p /\ watch'[p] = "waiting"
    BY <1>1, <2>1 DEF StartReturns, TypeOK
  <2> QED
    BY <1>1, <2>2 DEF Owners, ActiveIsWatched, CrashedIsOwned
<1>3. CASE state = "draining"
  <2>1. ~Defined(state, event)
    BY <1>3 DEF Defined, SUPERVISOR_TRANSITION_TABLE
  <2>2. state' = "draining"
    BY <1>3, <2>1 DEF StartReturns
  <2> QED
    BY <2>2, OwnerlessStates
<1> QED
  BY <1>1, <1>2, <1>3

\* ConnectorProcess.start(), as far as it goes.
LEMMA StartOwners ==
  ASSUME IInv, Owners, NEW p \in Procs, StartStep(p)
  PROVE  Owners'
<1>1. CASE (SubprocessCreated(p) \/ HelloFails(p)) /\ UNCHANGED taskVars
  BY <1>1, CalmOwners DEF SubprocessCreated, HelloFails, instanceVars, taskVars
<1>2. CASE SubprocessSpawnFails(p) \/ HelloSucceeds(p) \/ FailedHelloReaped(p)
  BY <1>2, StartReturnsOwners DEF SubprocessSpawnFails, HelloSucceeds, FailedHelloReaped, AwaitsHello
<1>3. CASE HelloWriteRaises(p)
  <2>1. state' \in {"starting", "draining"}
    BY <1>3 DEF HelloWriteRaises, AwaitsHello, IInv, StartInProgress
  <2> QED
    BY <2>1, OwnerlessStates
<1> QED
  BY <1>1, <1>2, <1>3 DEF StartStep

\* _handle_process_exit(): the watcher leaves, and a crash it leaves behind has a restart task.
LEMMA WatcherOwners ==
  ASSUME IInv, NEW p \in Procs, WatcherStep(p)
  PROVE  Owners'
<1>1. CASE GracefulExitHandled(p)
  BY <1>1, GracefulExitValue, OwnerlessStates
<1>2. CASE StopHandled(p) \/ CircuitBreakHandled(p)
  BY <1>2, OwnerlessStates DEF StopHandled, CircuitBreakHandled
<1>3. CASE RestartHandled(p)
  <2>1. state' \notin ActiveStates /\ restartTask' = "sleeping"
    BY <1>3, AfterCrashValue DEF RestartHandled, IInv, RuntimeTypeOK, TypeOK, ActiveStates
  <2> QED
    BY <2>1 DEF Owners, ActiveIsWatched, CrashedIsOwned
<1> QED
  BY <1>1, <1>2, <1>3 DEF WatcherStep

\* _sleep_then_restart(): a backoff is abandoned in "crashed" only for a shutdown.
LEMMA RestartOwners ==
  ASSUME Owners, RestartStep
  PROVE  Owners'
<1>1. ASSUME NEW p \in Procs, RestartBackoffElapses(p) PROVE Owners'
  <2>1. state' = "starting"
    BY <1>1, ApplyFollowsTable
    DEF RestartBackoffElapses, RestartAllowed, Defined, SUPERVISOR_TRANSITION_TABLE
  <2> QED
    BY <2>1, OwnerlessStates
<1>2. CASE RestartAbandoned
  <2>1. UNCHANGED <<state, process, shutdownRequested, watcherTask, watch, app>> /\ ~RestartAllowed
    BY <1>2 DEF RestartStep, RestartAbandoned, processVars, taskVars
  <2>2. state = "crashed" => shutdownRequested
    BY <2>1, ApplyFollowsTable DEF RestartAllowed, SUPERVISOR_TRANSITION_TABLE
  <2> QED
    BY <2>1, <2>2 DEF Owners, ActiveIsWatched, CrashedIsOwned
<1> QED
  BY <1>1, <1>2 DEF RestartStep

\* A subprocess, its stream or its first emit leave the instance with its owner.
LEMMA EnvironmentOwners ==
  ASSUME Owners, UNCHANGED taskVars, Environment \/ \E p \in Procs : DispatchReadsEof(p)
  PROVE  Owners'
<1>1. ASSUME NEW p \in Procs, FirstEmit(p) PROVE Owners'
  <2>1. state = "ready" /\ state' = "running"
    BY <1>1, ApplyFollowsTable DEF FirstEmit, SUPERVISOR_TRANSITION_TABLE
  <2> QED
    BY <1>1, <2>1
    DEF FirstEmit, processVars, taskVars, Owners, ActiveIsWatched, CrashedIsOwned, ActiveStates
<1>2. ASSUME NEW p \in Procs,
             \/ ProcessExitsCleanly(p) \/ ProcessCrashes(p) \/ DispatchFails(p) \/ DispatchReadsEof(p)
      PROVE  Owners'
  BY <1>2, CalmOwners
  DEF ProcessExitsCleanly, ProcessCrashes, DispatchFails, DispatchReadsEof, instanceVars, taskVars
<1>3. CASE WindowSlides
  BY <1>3, CalmOwners DEF WindowSlides, processVars, taskVars
<1> QED
  BY <1>1, <1>2, <1>3 DEF Environment

\* Every step leaves the instance with somebody to look after it.
LEMMA OwnersStep == IInv /\ Owners /\ [Next]_vars => Owners'
<1> SUFFICES ASSUME IInv, Owners, [Next]_vars PROVE Owners'
  OBVIOUS
<1>1. CASE UNCHANGED vars \/ Terminated
  BY <1>1, CalmOwners DEF Terminated, vars, instanceVars, processVars, taskVars
<1>2. ASSUME NEW p \in Procs, OperatorClear(p) PROVE Owners'
  <2>1. state' = "starting"
    BY <1>2, ApplyFollowsTable DEF OperatorClear, ClearCircuitBreak, SUPERVISOR_TRANSITION_TABLE
  <2> QED
    BY <2>1, OwnerlessStates
<1>3. ASSUME NEW t \in Callers, CallStep(t) PROVE Owners'
  <2>1. UNCHANGED <<taskVars, instanceVars, watch>>
    BY <1>3 DEF CallStep, StopCall, ShutdownAcked, ShutdownTimesOut, ShutdownBroken, TermReturns,
       ReapReturns, RestartJoined, CallUnchanged
  <2> QED
    BY <2>1, CalmOwners DEF taskVars, instanceVars
<1>4. CASE HealthStep
  <2>1. HealthUnchanged
    BY <1>4 DEF HealthStep, HealthSkips, HealthProbes, ProbeAnswered, ProbeMissed, RemediationReaped
  <2> QED
    BY <2>1, CalmOwners DEF HealthUnchanged, instanceVars
<1>5. CASE StopScheduler \/ StopHealth \/ StopInstance \/ AppStopped
  BY <1>5, OwnerlessStates DEF StopScheduler, StopHealth, StopInstance, AppStopped
<1> QED
  BY <1>1, <1>2, <1>3, <1>4, <1>5, SchedulerOwners, StartOwners, WatcherOwners, RestartOwners,
     EnvironmentOwners DEF Next

-----------------------------------------------------------------------------
(* What a stop of the application leaves behind.  An operator's clear is   *)
(* left out: it takes the shutdown flag back and starts the instance.      *)

NoClear == \A p \in Procs : starter[p] # "operator"

\* A live subprocess with a transport whose exit nobody would notice.
Unattended(p) ==
  /\ Live(p) /\ ~NoTransport(p)
  /\ ~(watch[p] = "waiting" /\ watcherTask = p)

\* A shutdown cancels the start it overtakes.
DrainCancelsStart == state = "draining" => \A p \in Procs : starter[p] = "none"

\* A subprocess is created inside start(), and taken down with it.
CreatedInStart == \A p \in Procs : os[p] = "creating" => starter[p] # "none"

\* A subprocess loses its watcher only when the scheduler is cancelled while it joins the
\* watcher, and then the scheduler waits for it.
UnattendedBlocks ==
  \A p \in Procs : Unattended(p) =>
    /\ app = "stop_scheduler"
    /\ sched = "idle" \/ (sched = "stopping" /\ call["scheduler"] = "join_watcher")

\* Once shutdown_all() has asked the instance to stop, it waits for what is left of it.
AskedByApp ==
  app \in {"stop_instance", "stopped"} =>
    /\ shutdownRequested
    /\ \A p \in Procs : Live(p) =>
         /\ app = "stop_instance" /\ ~NoTransport(p) /\ callProc["app"] = p
         /\ call["app"] \in {"ack", "term", "join_restart", "join_watcher"}

StopInv == DrainCancelsStart /\ CreatedInStart /\ UnattendedBlocks /\ AskedByApp

\* A step that leaves the tasks alone and gives no subprocess life or transport keeps it.
LEMMA CalmStop ==
  ASSUME StopInv, UNCHANGED <<starter, watch, watcherTask, shutdownRequested, callVars, sched, app>>,
         state' = "draining" => state = "draining",
         \A p \in Procs : /\ Live(p)' => Live(p)
                          /\ os'[p] = "creating" => os[p] = "creating"
                          /\ NoTransport(p)' <=> NoTransport(p)
  PROVE  StopInv'
<1>1. DrainCancelsStart' /\ CreatedInStart'
  BY DEF StopInv, DrainCancelsStart, CreatedInStart
<1>2. \A p \in Procs : Unattended(p)' => Unattended(p)
  BY DEF Unattended
<1>3. UnattendedBlocks' /\ AskedByApp'
  BY <1>2 DEF StopInv, UnattendedBlocks, AskedByApp, callVars
<1> QED
  BY <1>1, <1>3 DEF StopInv

\* After a step with which nothing is live or starting any more there is nothing to wait for.
LEMMA NothingLiveStop ==
  ASSUME \A p \in Procs : ~Live(p)', state' # "draining",
         app' \in {"stop_instance", "stopped"} => shutdownRequested'
  PROVE  StopInv'
BY DEF StopInv, DrainCancelsStart, CreatedInStart, UnattendedBlocks, AskedByApp, Unattended, Live

\* A new subprocess has no transport yet, and none is made once shutdown_all() has asked.
LEMMA SpawnStop ==
  ASSUME IInv, IInv', NEW t \in Starters, NEW p \in Procs, SpawnBody(t, p), state' = "starting",
         app' \notin {"stop_instance", "stopped"}
  PROVE  StopInv'
<1>1. /\ process' = p /\ link'[p] = "none" /\ starter'[p] = t /\ t # "none"
  BY DEF SpawnBody, IInv, RuntimeTypeOK, TypeOK, Starters
<1>2. \A q \in Procs : Live(q)' => q = p
  BY <1>1 DEF IInv, LiveIsCurrent
<1>3. \A q \in Procs : ~Unattended(q)'
  BY <1>1, <1>2 DEF Unattended, NoTransport
<1>4. CreatedInStart'
  BY <1>1, <1>2 DEF CreatedInStart, Live
<1> QED
  BY <1>3, <1>4 DEF StopInv, DrainCancelsStart, UnattendedBlocks, AskedByApp

\* request_shutdown() by the scheduler, before the application stops, or by shutdown_all().
LEMMA RequestShutdownStop ==
  ASSUME IInv, NoClear, StopInv, NEW t \in Callers, RequestShutdown(t),
         \/ t = "scheduler" /\ sched = "fetch" /\ UNCHANGED app
         \/ t = "app" /\ app = "stop_health" /\ app' = "stop_instance"
  PROVE  StopInv'
<1>1. TypeOK /\ app \notin {"stop_instance", "stopped"} /\ sched \notin {"starting", "stopping", "idle"}
  BY DEF IInv, RuntimeTypeOK, SchedulerStopsFirst
<1>2. UNCHANGED <<watch, link, watcherTask>> /\ shutdownRequested'
  BY DEF RequestShutdown
<1>3. \A p \in Procs : starter'[p] = "none" /\ (starter[p] # "none" => starter[p] = "restart")
  <2>1. \A p \in Procs : starter[p] \in {"restart", "none"}
    BY <1>1 DEF NoClear, IInv, StartInProgress, TypeOK, Starters
  <2>2. \A p \in Procs : starter'[p] = IF starter[p] = "restart" THEN "none" ELSE starter[p]
    BY DEF RequestShutdown, CancelStarter
  <2> QED
    BY <2>1, <2>2
<1>4. \A p \in Procs : os'[p] # "creating"
  <2>1. ASSUME NEW p \in Procs, os[p] = "creating" PROVE AfterCancel("restart")[p] = "failed"
    BY <1>3, <2>1 DEF StopInv, CreatedInStart, AfterCancel
  <2>2. os' = AfterCancel("restart") \/ os' = Killed(AfterCancel("restart"), process)
    BY DEF RequestShutdown, AbortToDead, BeginDrain
  <2>3. \A p \in Procs : AfterCancel("restart")[p] # "creating"
    BY <2>1 DEF AfterCancel
  <2> QED
    BY <2>2, <2>3 DEF Killed, AfterCancel
<1>5. DrainCancelsStart' /\ CreatedInStart'
  BY <1>3, <1>4 DEF DrainCancelsStart, CreatedInStart
<1>6. \A p \in Procs : ~Unattended(p)
  BY <1>1 DEF StopInv, UnattendedBlocks
<1>7. \A p \in Procs : Live(p)' => Live(p)
  BY <1>1, RequestShutdownEffect
<1>8. UnattendedBlocks'
  BY <1>2, <1>6, <1>7 DEF UnattendedBlocks, Unattended, NoTransport
<1>9. AskedByApp'
  <2>1. CASE UNCHANGED app
    BY <1>1, <2>1 DEF AskedByApp
  <2>2. CASE t = "app" /\ app' = "stop_instance"
    <3> SUFFICES ASSUME NEW p \in Procs, Live(p)'
                 PROVE  ~NoTransport(p)' /\ callProc'["app"] = p /\ call'["app"] = "ack"
      BY <1>2, <2>2 DEF AskedByApp
    <3>1. Live(p) /\ process = p /\ process # NoProc
      BY <1>7, NoProcAssumption DEF IInv, LiveIsCurrent
    <3>2. state \notin {"crashed", "circuit_broken"}
      BY <3>1 DEF IInv, SettledIsEmpty, IdleStates
    <3>3. BeginDrain(t)
      BY <3>2 DEF RequestShutdown, AbortToDead
    <3>4. os'[p] = "alive"
      BY <1>4 DEF Live
    <3>5. CASE NoTransport(p)
      <4>1. AfterCancel("restart")[p] \in {os[p], "failed"}
        BY DEF AfterCancel
      <4>2. os[p] = "alive" => os' = Killed(AfterCancel("restart"), p)
        BY <3>1, <3>3, <3>5 DEF BeginDrain
      <4>3. os[p] = "alive"
        <5>1. os' = AfterCancel("restart") \/ os' = Killed(AfterCancel("restart"), p)
          BY <3>1, <3>3 DEF BeginDrain
        <5> QED
          BY <3>4, <4>1, <5>1 DEF Killed, AfterCancel
      <4> QED
        BY <3>4, <4>2, <4>3 DEF Killed, AfterCancel
    <3>6. CASE ~NoTransport(p)
      <4>1. Await("app", "ack", p)
        BY <2>2, <3>1, <3>3, <3>6 DEF BeginDrain
      <4> QED
        BY <1>1, <1>2, <3>6, <4>1 DEF Await, NoTransport, TypeOK, Callers
    <3> QED
      BY <3>5, <3>6
  <2> QED
    BY <2>1, <2>2
<1> QED
  BY <1>5, <1>8, <1>9 DEF StopInv

\* ConnectorProcess.start(): what it starts or gives a transport gets its watcher, unless a
\* shutdown has overtaken it, and then it was cancelled.
LEMMA StartStop ==
  ASSUME IInv, IInv', StopInv, NEW p \in Procs, StartStep(p)
  PROVE  StopInv'
<1>1. /\ TypeOK /\ starter[p] # "none" /\ process = p /\ state = "starting"
      /\ \A q \in Procs : Live(q) => q = p
  <2>1. starter[p] # "none"
    BY DEF StartStep, SubprocessCreated, SubprocessSpawnFails, HelloSucceeds, HelloFails,
       FailedHelloReaped, HelloWriteRaises, AwaitsHello
  <2>2. process = p /\ state \in {"starting", "draining"} /\ state # "draining"
    BY <2>1 DEF IInv, StartInProgress, StopInv, DrainCancelsStart
  <2> QED
    BY <2>1, <2>2 DEF IInv, RuntimeTypeOK, LiveIsCurrent
<1>2. ASSUME NEW event \in {"hello_succeeded", "start_failure_to_crashed"}, StartReturns(p, event)
      PROVE  /\ state' # "draining" /\ watcherTask' = p /\ watch'[p] = "waiting"
             /\ UNCHANGED <<shutdownRequested, callVars>>
  <2>1. Defined(state, event) /\ ApplyTransition(state, event) \in {"ready", "crashed"}
    BY <1>1, ApplyFollowsTable DEF SUPERVISOR_TRANSITION_TABLE
  <2> QED
    BY <1>1, <1>2, <2>1 DEF StartReturns, TypeOK
<1>3. UNCHANGED <<app, shutdownRequested, callVars>>
  BY DEF StartStep, SubprocessCreated, SubprocessSpawnFails, HelloSucceeds, HelloFails, StartReturns,
     FailedHelloReaped, HelloWriteRaises, StarterResumes, taskVars, instanceVars
<1>4. CASE SubprocessCreated(p) /\ UNCHANGED taskVars
  <2>1. /\ UNCHANGED <<state, starter, watch, watcherTask, link, sched>>
        /\ os' = [os EXCEPT ![p] = "alive"] /\ os[p] = "creating"
    BY <1>4 DEF SubprocessCreated, instanceVars, taskVars
  <2>2. \A q \in Procs : Live(q)' => Live(q)
    BY <1>1, <2>1 DEF Live, TypeOK
  <2>3. \A q \in Procs : os'[q] = "creating" => os[q] = "creating"
    BY <1>1, <2>1 DEF TypeOK
  <2> QED
    BY <1>1, <1>3, <2>1, <2>2, <2>3, CalmStop DEF NoTransport
<1>5. CASE HelloSucceeds(p)
  <2>1. /\ StartReturns(p, "hello_succeeded") /\ UNCHANGED os /\ link[p] = "none" /\ os[p] # "creating"
    BY <1>5 DEF HelloSucceeds, AwaitsHello, Exited
  <2>2. /\ state' # "draining" /\ watcherTask' = p /\ watch'[p] = "waiting"
    BY <1>2, <2>1
  <2>3. \A q \in Procs : Live(q)' => Live(q) /\ q = p /\ os'[q] # "creating"
    BY <1>1, <2>1 DEF Live
  <2>4. \A q \in Procs : ~Unattended(q)'
    BY <2>2, <2>3 DEF Unattended
  <2>5. app \in {"stop_instance", "stopped"} => \A q \in Procs : ~Live(q)'
    BY <2>1, <2>3 DEF StopInv, AskedByApp, NoTransport
  <2>6. CreatedInStart'
    BY <2>3 DEF CreatedInStart, Live
  <2>7. AskedByApp'
    BY <1>3, <2>5 DEF StopInv, AskedByApp
  <2> QED
    BY <2>2, <2>4, <2>6, <2>7 DEF StopInv, DrainCancelsStart, UnattendedBlocks
<1>6. CASE \/ SubprocessSpawnFails(p) \/ FailedHelloReaped(p) \/ HelloWriteRaises(p)
  <2>1. ~Live(p)'
    BY <1>1, <1>6 DEF SubprocessSpawnFails, FailedHelloReaped, HelloWriteRaises, Exited, Live, TypeOK,
       IInv, LinkFollowsProcess
  <2>2. \A q \in Procs : ~Live(q)'
    <3>1. UNCHANGED os \/ os' = [os EXCEPT ![p] = "failed"]
      BY <1>6 DEF SubprocessSpawnFails, FailedHelloReaped, HelloWriteRaises
    <3> QED
      BY <1>1, <2>1, <3>1 DEF Live, TypeOK
  <2>3. state' # "draining"
    BY <1>1, <1>2, <1>6 DEF SubprocessSpawnFails, FailedHelloReaped, HelloWriteRaises
  <2> QED
    BY <1>3, <2>2, <2>3, NothingLiveStop DEF StopInv, AskedByApp
<1>7. CASE HelloFails(p) /\ UNCHANGED taskVars
  <2>1. /\ UNCHANGED state /\ link[p] = "none" /\ link' = [link EXCEPT ![p] = "refused"]
        /\ os' = Killed(os, p) /\ os[p] # "creating"
    BY <1>7 DEF HelloFails, AwaitsHello, Exited, instanceVars
  <2>2. \A q \in Procs : ~Live(q)'
    BY <1>1, <2>1 DEF Live, TypeOK, Killed
  <2> QED
    BY <1>1, <1>3, <2>1, <2>2, NothingLiveStop DEF StopInv, AskedByApp
<1> QED
  BY <1>4, <1>5, <1>6, <1>7 DEF StartStep

\* The watcher of the subprocess leaves when there is nothing left to watch.
LEMMA WatcherStop ==
  ASSUME IInv, IInv', StopInv, NEW p \in Procs, WatcherStep(p)
  PROVE  StopInv'
<1>1. process' = NoProc /\ UNCHANGED <<shutdownRequested, app>>
  BY DEF WatcherStep, GracefulExitHandled, StopHandled, CircuitBreakHandled, RestartHandled,
         CrashHandled, WatcherWakes, taskVars
<1>2. \A q \in Procs : ~Live(q)'
  BY <1>1, NoProcAssumption DEF IInv, LiveIsCurrent
<1>3. state' # "draining"
  <2>1. CASE GracefulExitHandled(p)
    BY <2>1, GracefulExitValue
  <2>2. CASE StopHandled(p) \/ CircuitBreakHandled(p)
    BY <2>2 DEF StopHandled, CircuitBreakHandled
  <2>3. CASE RestartHandled(p)
    BY <2>3, AfterCrashValue DEF RestartHandled, IInv, RuntimeTypeOK, TypeOK
  <2> QED
    BY <2>1, <2>2, <2>3 DEF WatcherStep
<1> QED
  BY <1>1, <1>2, <1>3, NothingLiveStop DEF StopInv, AskedByApp

\* A shutdown call that returns joins the watcher of whatever is still live.
LEMMA CallStop ==
  ASSUME IInv, IInv', StopInv, NEW t \in Callers, CallStep(t)
  PROVE  StopInv'
<1>1. /\ UNCHANGED <<state, starter, watch, watcherTask, shutdownRequested, link, sched, app>>
      /\ os' = os \/ os' = Killed(os, callProc[t])
      /\ TypeOK /\ TypeOK'
  BY DEF CallStep, StopCall, ShutdownAcked, ShutdownTimesOut, ShutdownBroken, TermReturns,
         ReapReturns, RestartJoined, CallUnchanged, instanceVars, taskVars, IInv, RuntimeTypeOK
<1>2. \A q \in Procs : os'[q] = os[q] \/ (os[q] = "alive" /\ os'[q] = "exit_err")
  BY <1>1, KilledEffect
<1>3. \A q \in Procs : Live(q)' => Live(q) /\ os'[q] = os[q]
  BY <1>2 DEF Live
<1>4. DrainCancelsStart' /\ CreatedInStart'
  BY <1>1, <1>3 DEF StopInv, DrainCancelsStart, CreatedInStart, Live
<1>5. \A q \in Procs : Unattended(q)' => Unattended(q)
  BY <1>1, <1>3 DEF Unattended, NoTransport
<1>6. \A u \in Callers \ {t} : call'[u] = call[u] /\ callProc'[u] = callProc[u]
  BY <1>1 DEF CallStep, StopCall, ShutdownAcked, ShutdownTimesOut, ShutdownBroken, TermReturns,
     ReapReturns, RestartJoined, ReturnToJoin, Await, TypeOK
<1>7. call[t] # "join_watcher"
  BY DEF CallStep, StopCall, ShutdownAcked, ShutdownTimesOut, ShutdownBroken, TermReturns,
     ReapReturns, RestartJoined
<1>8. UnattendedBlocks'
  BY <1>1, <1>5, <1>6, <1>7 DEF StopInv, UnattendedBlocks, Callers
<1>9. AskedByApp'
  <2>1. CASE t # "app"
    BY <1>1, <1>3, <1>6, <2>1 DEF StopInv, AskedByApp, NoTransport, Callers
  <2>2. CASE t = "app"
    <3> SUFFICES ASSUME app \in {"stop_instance", "stopped"}, NEW p \in Procs, Live(p)'
                 PROVE  /\ callProc'["app"] = p
                        /\ call'["app"] \in {"ack", "term", "join_restart", "join_watcher"}
      BY <1>1, <1>3 DEF StopInv, AskedByApp, NoTransport
    <3>1. /\ Live(p) /\ os'[p] = os[p] /\ ~NoTransport(p) /\ callProc["app"] = p
          /\ app = "stop_instance"
      BY <1>3 DEF StopInv, AskedByApp
    <3>2. watch[p] = "waiting" /\ watcherTask = p
      BY <3>1 DEF StopInv, UnattendedBlocks, Unattended
    <3>3. os[p] = "alive" /\ os' = os
      <4>1. os[p] = "alive"
        BY <3>1 DEF Live, IInv, LinkFollowsProcess, NoTransport
      <4>2. Killed(os, p)[p] = "exit_err"
        BY <1>1, <4>1 DEF Killed, TypeOK
      <4> QED
        BY <1>1, <2>2, <3>1, <4>1, <4>2
    <3>4. \A pending : ReturnToJoin("app", pending) =>
            callProc'["app"] = p /\ call'["app"] \in {"join_restart", "join_watcher"}
      BY <1>1, <3>2 DEF ReturnToJoin, WatcherPending, TypeOK, Callers
    <3>5. \A what : Await("app", what, p) => callProc'["app"] = p /\ call'["app"] = what
      BY <1>1 DEF Await, TypeOK, Callers
    <3>6. Killed(os, p) # os
      BY <1>1, <3>3 DEF Killed, TypeOK
    <3> QED
      BY <2>2, <3>1, <3>3, <3>4, <3>5, <3>6
      DEF CallStep, StopCall, ShutdownAcked, ShutdownTimesOut, ShutdownBroken, TermReturns,
          ReapReturns, RestartJoined, Exited, Live
  <2> QED
    BY <2>1, <2>2
<1> QED
  BY <1>4, <1>8, <1>9 DEF StopInv

\* Probes, exits and the restart's backoff touch neither the tasks nor a transport's existence.
LEMMA CalmSteps ==
  ASSUME IInv, StopInv, \/ HealthStep
                        \/ UNCHANGED taskVars /\ (Environment \/ \E p \in Procs : DispatchReadsEof(p))
                        \/ RestartAbandoned /\ UNCHANGED taskVars
                        \/ UNCHANGED vars
  PROVE  StopInv'
<1>1. TypeOK
  BY DEF IInv, RuntimeTypeOK
<1>2. CASE HealthStep
  <2>1. HealthUnchanged /\ (os' = os \/ os' = Killed(os, process))
    BY <1>2 DEF HealthStep, HealthSkips, HealthProbes, ProbeAnswered, ProbeMissed, RemediationReaped
  <2>2. \A q \in Procs : os'[q] = os[q] \/ (os[q] = "alive" /\ os'[q] = "exit_err")
    BY <1>1, <2>1, KilledEffect
  <2>3. UNCHANGED <<state, starter, watch, watcherTask, shutdownRequested, callVars, sched, app, link>>
    BY <2>1 DEF HealthUnchanged, instanceVars
  <2> QED
    BY <2>2, <2>3, CalmStop DEF Live, NoTransport
<1>3. ASSUME UNCHANGED taskVars, NEW p \in Procs,
             ProcessExitsCleanly(p) \/ ProcessCrashes(p) \/ DispatchFails(p) \/ DispatchReadsEof(p)
      PROVE  StopInv'
  <2>1. UNCHANGED <<state, starter, watch, watcherTask, shutdownRequested, callVars, sched, app>>
    BY <1>3 DEF ProcessExitsCleanly, ProcessCrashes, DispatchFails, DispatchReadsEof, instanceVars, taskVars
  <2>2. \A q \in Procs : /\ os'[q] = os[q] \/ os'[q] \in {"exit_ok", "exit_err"}
                         /\ link'[q] = link[q] \/ (link[q] = "up" /\ link'[q] \in {"closed", "fatal"})
    BY <1>1, <1>3 DEF ProcessExitsCleanly, ProcessCrashes, DispatchFails, DispatchReadsEof, TypeOK
  <2> QED
    BY <2>1, <2>2, CalmStop DEF Live, NoTransport
<1>4. ASSUME UNCHANGED taskVars, NEW p \in Procs, FirstEmit(p) PROVE StopInv'
  <2>1. state' = "running"
    BY <1>4, ApplyFollowsTable DEF FirstEmit, SUPERVISOR_TRANSITION_TABLE
  <2> QED
    BY <1>4, <2>1, CalmStop DEF FirstEmit, processVars, taskVars, Live, NoTransport
<1>5. CASE UNCHANGED taskVars /\ (WindowSlides \/ RestartAbandoned)
  BY <1>5, CalmStop DEF WindowSlides, RestartAbandoned, processVars, taskVars, Live, NoTransport
<1>6. CASE UNCHANGED vars
  BY <1>6, CalmStop DEF vars, instanceVars, processVars, taskVars, Live, NoTransport
<1> QED
  BY <1>2, <1>3, <1>4, <1>5, <1>6 DEF Environment

\* A backoff that elapses after shutdown_all() finds the flag set.
LEMMA RestartStop ==
  ASSUME IInv, IInv', StopInv, RestartStep
  PROVE  StopInv'
<1>1. ASSUME NEW p \in Procs, RestartBackoffElapses(p) PROVE StopInv'
  <2>1. /\ state' = "starting" /\ SpawnBody("restart", p)
    BY <1>1, ApplyFollowsTable
    DEF RestartBackoffElapses, RestartAllowed, Defined, SUPERVISOR_TRANSITION_TABLE
  <2>2. UNCHANGED app /\ ~shutdownRequested
    BY <1>1 DEF RestartStep, RestartBackoffElapses, RestartAllowed, taskVars
  <2>3. app' \notin {"stop_instance", "stopped"}
    BY <2>2 DEF StopInv, AskedByApp
  <2> QED
    BY <2>1, <2>3, SpawnStop DEF Starters
<1> QED
  BY <1>1, CalmSteps DEF RestartStep

\* The scheduler leaves a wait for a live subprocess only to wait for its end.
LEMMA SchedulerStop ==
  ASSUME IInv, IInv', NoClear, StopInv, SchedulerStep
  PROVE  StopInv'
<1>1. app \notin {"stop_instance", "stopped"} /\ app' \notin {"stop_instance", "stopped"}
  <2>1. sched # "done" /\ UNCHANGED app
    BY DEF SchedulerStep, FetchStarts, RestartAfterStop, FetchStops, FetchSkips, StopWithoutRestart,
       IdleSeen, IntervalEnds
  <2> QED
    BY <2>1 DEF IInv, SchedulerStopsFirst
<1>2. ASSUME NEW p \in Procs, FetchStarts(p) \/ RestartAfterStop(p) PROVE StopInv'
  <2>1. SpawnBody("scheduler", p) /\ state' = "starting"
    BY <1>2, ApplyFollowsTable DEF FetchStarts, RestartAfterStop, Start, SUPERVISOR_TRANSITION_TABLE
  <2> QED
    BY <1>1, <2>1, SpawnStop DEF Starters
<1>3. CASE FetchStops
  BY <1>3, RequestShutdownStop DEF FetchStops, Callers
<1>4. CASE FetchSkips \/ IdleSeen \/ IntervalEnds \/ StopWithoutRestart
  <2>1. UNCHANGED <<state, watcherTask, starter, watch, os, link, app>>
    BY <1>4 DEF FetchSkips, IdleSeen, IntervalEnds, StopWithoutRestart, instanceVars, processVars
  <2>2. FetchSkips \/ IdleSeen => \A p \in Procs : ~Live(p)
    BY NoProcAssumption DEF FetchSkips, IdleSeen, IInv, SettledIsEmpty, LiveIsCurrent, IdleStates
  <2>3. \A p \in Procs : Unattended(p) => app = "stop_scheduler" /\ sched' = "idle"
    BY <1>4, <2>2 DEF StopInv, UnattendedBlocks, Unattended, IntervalEnds, StopWithoutRestart
  <2>4. UnattendedBlocks'
    BY <2>1, <2>3 DEF UnattendedBlocks, Unattended, Live, NoTransport
  <2> QED
    BY <1>1, <2>1, <2>4 DEF StopInv, DrainCancelsStart, CreatedInStart, AskedByApp
<1> QED
  BY <1>2, <1>3, <1>4 DEF SchedulerStep

\* Of the cancellations of the scheduler only the one that hits the join of the watcher takes a
\* watcher away, and there the scheduler goes on.
LEMMA StopSchedulerStop ==
  ASSUME IInv, StopInv, StopScheduler
  PROVE  StopInv'
<1> DEFINE Resumed(t) == \A p \in Procs :
             /\ starter'[p] = IF starter[p] = t THEN "none" ELSE starter[p]
             /\ os'[p] = IF starter[p] = t /\ os[p] = "creating" THEN "failed" ELSE os[p]
<1>1. /\ app = "running" /\ app' = "stop_scheduler" /\ UNCHANGED <<state, watcherTask>> /\ TypeOK
  BY DEF StopScheduler, IInv, RuntimeTypeOK
<1>2. \A p \in Procs : ~Unattended(p)
  BY <1>1 DEF StopInv, UnattendedBlocks
<1>3. \A p \in Procs : link'[p] = link[p] \/ (link[p] = "up" /\ link'[p] = "closed")
  <2>1. \/ UNCHANGED link
        \/ \E q \in {callProc["scheduler"]} : link[q] = "up" /\ link' = [link EXCEPT ![q] = "closed"]
    BY DEF StopScheduler, CancelsSleepOrWait, CancelsStart, CancelsStop, StopSwallowsCancel,
       CancelsJoinedRestart, CancelsJoinedWatcher, WatcherSwallowsCancel, DispatchCancelled, InDispatchJoin
  <2> QED
    BY <1>1, <2>1 DEF TypeOK
<1>4. \/ UNCHANGED <<starter, os>> \/ Resumed("scheduler") \/ Resumed("restart")
  <2>1. CASE CancelsStart \/ CancelsJoinedRestart
    BY <1>1, <2>1 DEF CancelsStart, CancelsJoinedRestart, CancelStarter, AfterCancel, TypeOK
  <2>2. CASE ~(CancelsStart \/ CancelsJoinedRestart)
    BY <2>2 DEF StopScheduler, CancelsSleepOrWait, CancelsStop, StopSwallowsCancel,
       CancelsJoinedWatcher, WatcherSwallowsCancel
  <2> QED
    BY <2>1, <2>2
<1>5. \A p \in Procs : Live(p)' => Live(p) /\ os'[p] = os[p]
  BY <1>4 DEF Live
<1>6. DrainCancelsStart' /\ CreatedInStart'
  BY <1>1, <1>4 DEF StopInv, DrainCancelsStart, CreatedInStart
<1>7. UnattendedBlocks'
  <2>1. CASE CancelsJoinedWatcher
    BY <1>1, <2>1 DEF CancelsJoinedWatcher, UnattendedBlocks, callVars
  <2>2. CASE ~CancelsJoinedWatcher
    <3>1. UNCHANGED watch
      BY <2>2 DEF StopScheduler, CancelsSleepOrWait, CancelsStart, CancelsStop, StopSwallowsCancel,
         CancelsJoinedRestart, WatcherSwallowsCancel
    <3>2. \A p \in Procs : Unattended(p)' => Unattended(p)
      BY <1>1, <1>3, <1>5, <3>1 DEF Unattended, NoTransport
    <3> QED
      BY <1>2, <3>2 DEF UnattendedBlocks
  <2> QED
    BY <2>1, <2>2
<1> QED
  BY <1>1, <1>6, <1>7 DEF StopInv, AskedByApp

\* shutdown_all() asks an instance whose live subprocess is watched, and joins that watcher.
LEMMA ShutdownStop ==
  ASSUME IInv, NoClear, StopInv, StopHealth \/ StopInstance \/ AppStopped
  PROVE  StopInv'
<1>1. CASE StopHealth
  <2>1. /\ UNCHANGED <<state, watcherTask, starter, watch, os>>
        /\ sched = "done" /\ app' = "stop_health"
        /\ UNCHANGED link \/ (link[probed] = "up" /\ link' = [link EXCEPT ![probed] = "closed"])
    BY <1>1 DEF StopHealth, DispatchCancelled, InDispatchJoin, instanceVars
  <2>2. \A p \in Procs : link'[p] = link[p] \/ (link[p] = "up" /\ link'[p] = "closed")
    BY <2>1 DEF IInv, RuntimeTypeOK, TypeOK
  <2>3. \A p \in Procs : ~Unattended(p) /\ (Unattended(p)' => Unattended(p))
    BY <2>1, <2>2 DEF StopInv, UnattendedBlocks, Unattended, NoTransport, Live
  <2> QED
    BY <2>1, <2>3 DEF StopInv, DrainCancelsStart, CreatedInStart, UnattendedBlocks, AskedByApp
<1>2. CASE StopInstance
  BY <1>2, RequestShutdownStop DEF StopInstance, Callers
<1>3. CASE AppStopped
  <2>1. /\ UNCHANGED <<instanceVars, processVars>>
        /\ app = "stop_instance" /\ app' = "stopped" /\ Joined("app")
    BY <1>3 DEF AppStopped
  <2>2. \A p \in Procs : ~Live(p)
    BY <2>1 DEF StopInv, AskedByApp, UnattendedBlocks, Unattended, Joined
  <2> QED
    BY <2>1, <2>2
    DEF StopInv, DrainCancelsStart, CreatedInStart, UnattendedBlocks, AskedByApp, Unattended, Live,
        instanceVars, processVars
<1> QED
  BY <1>1, <1>2, <1>3

\* Unless an operator clears the circuit, every step leaves a stop of the application in order.
LEMMA StopStep == IInv /\ IInv' /\ NoClear /\ NoClear' /\ StopInv /\ [Next]_vars => StopInv'
<1> SUFFICES ASSUME IInv, IInv', NoClear, NoClear', StopInv, [Next]_vars PROVE StopInv'
  OBVIOUS
<1>1. CASE UNCHANGED vars \/ Terminated
  BY <1>1, CalmSteps DEF Terminated
<1>2. ASSUME NEW p \in Procs, OperatorClear(p) PROVE FALSE
  <2>1. starter'[p] = "operator"
    BY <1>2 DEF OperatorClear, ClearCircuitBreak, SpawnBody, IInv, RuntimeTypeOK, TypeOK
  <2> QED
    BY <2>1 DEF NoClear
<1> QED
  BY <1>1, <1>2, SchedulerStop, StartStop, WatcherStop, RestartStop, CallStop, CalmSteps,
     StopSchedulerStop, ShutdownStop DEF Next

-----------------------------------------------------------------------------
(* Theorems.                                                               *)

\* The inductive invariant holds in every state the program reaches.
THEOREM Invariance == Spec => []IInv
BY InitHolds, InvStep, PTL DEF Spec

\* Every variable keeps its type (supervisor_state.py, instance.py, process.py).
THEOREM TypeCorrect == Spec => []RuntimeTypeOK
<1>1. IInv => RuntimeTypeOK
  BY DEF IInv
<1> QED
  BY <1>1, Invariance, PTL

\* An instance never has two subprocesses at once, whoever starts, stops or clears it
\* (instance.py, "one ConnectorProcess at a time").
THEOREM OneLiveProcess == Spec => []AtMostOneLiveProcess
<1>1. IInv => AtMostOneLiveProcess
  BY DEF IInv, LiveIsCurrent, AtMostOneLiveProcess
<1> QED
  BY <1>1, Invariance, PTL

\* wait_until_idle() and start() meet no leftover subprocess and no spawning restart.
THEOREM IdleIsEmpty == Spec => []IdleMeansNoProcess
<1>1. IInv => IdleMeansNoProcess
  BY NoProcAssumption
  DEF IInv, LiveIsCurrent, SettledIsEmpty, StartInProgress, SingleRestartTask, IdleMeansNoProcess, IdleStates
<1> QED
  BY <1>1, Invariance, PTL

\* The one _pending_restart_task handle always holds the only restart task.
THEOREM OneRestartTask == Spec => []SingleRestartTask
<1>1. IInv => SingleRestartTask
  BY DEF IInv
<1> QED
  BY <1>1, Invariance, PTL

\* Two starts never overlap, and a start works on the instance's own handle.
THEOREM StartsDoNotOverlap == Spec => []StartOwnsProcess
<1>1. IInv => StartOwnsProcess
  BY DEF IInv, StartInProgress, StartOwnsProcess
<1> QED
  BY <1>1, Invariance, PTL

\* While the application runs, an active instance has its watcher on the subprocess it
\* serves, and a crash nobody asked for has a task that decides about it (instance.py).
THEOREM SomebodyIsInCharge == Spec => [](ActiveIsWatched /\ CrashedIsOwned)
<1>1. RuntimeInit => Owners
  BY DEF RuntimeInit, Init, Owners, ActiveIsWatched, CrashedIsOwned, ActiveStates
<1>2. Owners => ActiveIsWatched /\ CrashedIsOwned
  BY DEF Owners
<1> QED
  BY <1>1, <1>2, OwnersStep, Invariance, PTL DEF Spec

\* An exit of a subprocess that an active instance serves cannot go unnoticed: its
\* watcher waits for that very subprocess (instance.py, _spawn_process_body()).
THEOREM ActiveWatched == Spec => []ActiveIsWatched
BY SomebodyIsInCharge, PTL

\* A crashed instance moves on: a restart task sleeps or a watcher has yet to decide
\* (instance.py, _handle_process_exit() and _sleep_then_restart()).
THEOREM CrashedOwned == Spec => []CrashedIsOwned
BY SomebodyIsInCharge, PTL

\* The runtime implements the abstract lifecycle: the instance follows the table of
\* supervisor_state.py, and is settled only without a subprocess.
THEOREM ImplementsLifecycle == Spec => KeepsLifecycle
<1>1. RuntimeInit => Lifecycle!Init
  BY DEF RuntimeInit, Init, Lifecycle!Init, Live
<1> QED
  BY <1>1, LifecycleStep, Invariance, PTL DEF Spec, KeepsLifecycle, Lifecycle!Spec

\* Once shutdown_all() has returned no subprocess of the instance is left and none is made
\* later, whatever the stop interrupts (a start, a backoff, a probe, another shutdown);
\* only an operator's clear, which takes the shutdown flag back, is left out.
THEOREM StopLeavesNothing == Spec => ShutdownLeavesNothing
<1>1. RuntimeInit => StopInv
  BY DEF RuntimeInit, Init, StopInv, DrainCancelsStart, CreatedInStart, UnattendedBlocks, AskedByApp,
     Unattended, Live
<1>2. IInv /\ StopInv => NothingOutlivesShutdown
  BY DEF StopInv, AskedByApp, NothingOutlivesShutdown
<1>3. NoClear <=> \A p \in Procs : starter[p] # "operator"
  BY DEF NoClear
<1>4. NoOperator => []NoClear
  BY <1>3, PTL DEF NoOperator
<1> QED
  BY <1>1, <1>2, <1>4, StopStep, Invariance, PTL DEF Spec, ShutdownLeavesNothing
=============================================================================

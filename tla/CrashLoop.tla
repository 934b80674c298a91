------------------------------ MODULE CrashLoop ------------------------------
(***************************************************************************)
(* The attempts to run one connector, with the clock: each attempt is the  *)
(* hello exchange of protocol/negotiation.py between two processes that    *)
(* time out independently, and each exit is recorded in the list of        *)
(* timestamps that restart_policy.py and instance.py keep of the rolling   *)
(* window.  ConnectorRuntime abstracts both: there the exchange succeeds   *)
(* or fails, and recorded timestamps leave the window at any time.  What   *)
(* becomes of a start that is interrupted is left to that module.          *)
(***************************************************************************)
EXTENDS RestartPolicy, Integers, Sequences, FiniteSetsExt

CONSTANTS
  RuntimeVersions,   \* DEFAULT_SUPPORTED_VERSIONS of the runtime
  Versions,          \* versions that a connector may support
  Window,            \* window_duration_seconds, in units of the clock
  MaxTime,           \* bound on the clock
  MaxAttempts        \* bound on the subprocesses

ASSUME VersionsAssumption ==
  /\ RuntimeVersions \subseteq Nat \ {0} /\ Versions \subseteq Nat \ {0}
  /\ IsFiniteSet(Versions)
ASSUME WindowAssumption == Window \in Nat

VARIABLES
  supported,   \* the versions that this connector supports
  now,
  state,       \* ConnectorInstance._state; ready stands for ready and running
  asked,       \* _shutdown_requested
  stamps,      \* _restart_timestamps
  due,         \* when _sleep_then_restart wakes, or NoTime
  runtime,     \* perform_hello_runtime: [pc, version]
  connector,   \* the subprocess in perform_hello_connector: [pc, version]
  toConnector, toRuntime,   \* the pipes: a message, or NoMessage
  attempts,    \* subprocesses so far
  crashes,     \* history: restartable exits since the instance last forgot them
  restarts     \* history: the automatic restarts among them

peers == <<runtime, connector, toConnector, toRuntime>>
history == <<crashes, restarts>>
vars == <<supported, now, state, asked, stamps, due, peers, attempts, history>>

NoTime    == -1
NoMessage == 0
Hello     == -1     \* carries RuntimeVersions
Refusal   == -2     \* hello-ack with unsupported-version; an ack is its version

Peer(pc, version) == [pc |-> pc, version |-> version]

Init ==
  /\ supported \in (SUBSET Versions) \ {{}}
  /\ now = 0 /\ state = "not_started" /\ asked = FALSE
  /\ stamps = <<>> /\ due = NoTime
  /\ runtime = Peer("none", 0) /\ connector = Peer("gone", 0)
  /\ toConnector = NoMessage /\ toRuntime = NoMessage
  /\ attempts = 0 /\ crashes = <<>> /\ restarts = 0

-----------------------------------------------------------------------------
(* The hello exchange.                                                     *)

\* _highest_overlap; 0 for None.
HighestOverlap(left, right) == IF left \cap right = {} THEN 0 ELSE Max(left \cap right)

\* _spawn_process_body up to the hello.
Spawns ==
  /\ attempts < MaxAttempts /\ attempts' = attempts + 1
  /\ state' = "starting"
  /\ runtime' = Peer("waits", 0) /\ connector' = Peer("reads", 0)
  /\ toConnector' = Hello /\ toRuntime' = NoMessage

exchangeVars == <<supported, now, asked, due, attempts, history>>

ConnectorAnswers ==
  /\ connector.pc = "reads" /\ toConnector = Hello
  /\ toConnector' = NoMessage
  /\ LET agreed == HighestOverlap(RuntimeVersions, supported) IN
     IF agreed # 0
     THEN toRuntime' = agreed /\ connector' = Peer("agreed", agreed)
     ELSE toRuntime' = Max(supported) /\ connector' = Peer("reads", 0)
  /\ UNCHANGED <<exchangeVars, state, stamps, runtime>>

\* The refusal arrives, or nothing does, and the runner exits; or the subprocess dies.
ConnectorGivesUp ==
  /\ connector.pc # "gone" /\ runtime.pc # "agreed"
  /\ connector' = Peer("gone", 0)
  /\ UNCHANGED <<exchangeVars, state, stamps, runtime, toConnector, toRuntime>>

\* Faulty variant: the connector's word is taken for the version.
RuntimeAgreesUnchecked ==
  /\ runtime.pc = "waits" /\ toRuntime > 0
  /\ runtime' = Peer("agreed", toRuntime) /\ toRuntime' = NoMessage
  /\ state' = "ready"
  /\ UNCHANGED <<exchangeVars, stamps, connector, toConnector>>

\* The ack may be the last thing the subprocess has written.
RuntimeAgrees ==
  /\ runtime.pc = "waits" /\ toRuntime > 0
  /\ HighestOverlap(RuntimeVersions, {toRuntime}) # 0
  /\ runtime' = Peer("agreed", toRuntime) /\ toRuntime' = NoMessage
  /\ state' = "ready"
  /\ UNCHANGED <<exchangeVars, stamps, connector, toConnector>>

RuntimeRefuses ==
  /\ runtime.pc = "waits" /\ toRuntime > 0
  /\ HighestOverlap(RuntimeVersions, {toRuntime}) = 0
  /\ runtime' = Peer("failed", 0) /\ toRuntime' = NoMessage /\ toConnector' = Refusal
  /\ UNCHANGED <<exchangeVars, state, stamps, connector>>

\* The end of the stream, or the timeout, which a late ack may lose to.
RuntimeGivesUp ==
  /\ runtime.pc = "waits"
  /\ runtime' = Peer("failed", 0)
  /\ UNCHANGED <<exchangeVars, state, stamps, connector, toConnector, toRuntime>>

-----------------------------------------------------------------------------
(* Exits.                                                                  *)

Expired(times) == {i \in DOMAIN times : times[i] < now - Window}

\* trim_restart_timestamps: the list is in the order of the clock, so what has expired
\* comes first.
Trimmed(times) == SubSeq(times, Cardinality(Expired(times)) + 1, Len(times))

\* Faulty variant: the list is read as it is, with what has left the window.
RecordedUntrimmed == Append(stamps, now)

\* The list that the exit at this moment is decided on.
Recorded == Trimmed(Append(Trimmed(stamps), now))

\* backoff_schedule_seconds is short against the window: the restart comes at once
\* or one unit of the clock later.
Exits(reason) ==
  LET decision == ShouldRestart(reason, Len(Recorded)) IN
  /\ runtime' = Peer("none", 0) /\ connector' = Peer("gone", 0)
  /\ toConnector' = NoMessage /\ toRuntime' = NoMessage
  /\ crashes' = IF decision = "stop" THEN <<>> ELSE Append(crashes, now)
  /\ stamps' = IF decision = "stop" THEN <<>> ELSE Recorded
  /\ restarts' = IF decision = "stop" THEN 0 ELSE restarts
  /\ CASE decision = "stop" -> state' = "dead" /\ due' = NoTime
       [] decision = "circuit_break" -> state' = "circuit_broken" /\ due' = NoTime
       [] decision = "restart" -> state' = "crashed" /\ due' \in {now, now + 1}
  /\ UNCHANGED <<supported, now, asked, attempts>>

\* The subprocess of a failed exchange is killed; hello_failed is not restartable.
HelloFailed == state = "starting" /\ runtime.pc = "failed" /\ Exits("hello_failed")

SpawnFails ==
  /\ state = "starting" /\ runtime.pc = "waits" /\ toConnector = Hello
  /\ Exits("subprocess_spawn_failed")

Active == state \in {"ready", "draining"}

Crash == Active /\ \E reason \in RestartableExitReasons : Exits(reason)

\* Exit code 0: nothing is recorded and nothing is forgotten.
GracefulExit ==
  /\ Active
  /\ state' = "dead"
  /\ runtime' = Peer("none", 0) /\ connector' = Peer("gone", 0)
  /\ toConnector' = NoMessage /\ toRuntime' = NoMessage
  /\ UNCHANGED <<supported, now, asked, stamps, due, attempts, history>>

-----------------------------------------------------------------------------
(* The restart task and the callers of the instance.                       *)

Restart ==
  /\ due # NoTime /\ now >= due
  /\ due' = NoTime
  /\ IF asked \/ state # "crashed"
     THEN UNCHANGED <<state, peers, attempts, restarts>>
     ELSE Spawns /\ restarts' = restarts + 1
  /\ UNCHANGED <<supported, now, asked, stamps, crashes>>

Start ==
  /\ state \in {"not_started", "dead"}
  /\ Spawns
  /\ asked' = FALSE
  /\ UNCHANGED <<supported, now, stamps, due, history>>

\* Faulty variant: a ready instance is dead at once, like a crashed one.
RequestShutdownAborts ==
  /\ state \in {"ready", "crashed", "circuit_broken"}
  /\ asked' = TRUE /\ due' = NoTime
  /\ state' = "dead"
  /\ IF state = "crashed"
     THEN stamps' = <<>> /\ crashes' = <<>> /\ restarts' = 0
     ELSE UNCHANGED <<stamps, history>>
  /\ UNCHANGED <<supported, now, peers, attempts>>

RequestShutdown ==
  /\ state \in {"ready", "crashed", "circuit_broken"}
  /\ asked' = TRUE /\ due' = NoTime
  /\ state' = IF state = "ready" THEN "draining" ELSE "dead"
  /\ IF state = "crashed"
     THEN stamps' = <<>> /\ crashes' = <<>> /\ restarts' = 0
     ELSE UNCHANGED <<stamps, history>>
  /\ UNCHANGED <<supported, now, peers, attempts>>

ClearCircuitBreak ==
  /\ state = "circuit_broken"
  /\ Spawns
  /\ asked' = FALSE
  /\ stamps' = <<>> /\ crashes' = <<>> /\ restarts' = 0
  /\ UNCHANGED <<supported, now, due>>

Tick ==
  /\ now < MaxTime /\ now' = now + 1
  /\ due # NoTime => now < due
  /\ UNCHANGED <<supported, state, asked, stamps, due, peers, attempts, history>>

Runtime == RuntimeAgrees \/ RuntimeRefuses \/ RuntimeGivesUp \/ HelloFailed
Connector == ConnectorAnswers \/ ConnectorGivesUp

Next ==
  \/ Runtime \/ Connector \/ SpawnFails \/ Crash \/ GracefulExit
  \/ Restart \/ Start \/ RequestShutdown \/ ClearCircuitBreak \/ Tick

Spec == Init /\ [][Next]_vars

-----------------------------------------------------------------------------
(* Correctness.                                                            *)

\* Crashes at most a window before the last one.
Recent == {i \in DOMAIN crashes : crashes[i] >= crashes[Len(crashes)] - Window}

\* The circuit is broken exactly when MaxRestarts crashes fell into one window, and
\* otherwise a restart is due, whatever was trimmed, kept over a shutdown, or forgotten
\* (instance.py 282-327, restart_policy.py 72-77).
CircuitFollowsWindow ==
  /\ state = "circuit_broken" => Cardinality(Recent) >= MaxRestarts
  /\ due # NoTime => Cardinality(Recent) < MaxRestarts

\* The runtime goes on only with a connector that has settled on the same version,
\* the highest that both support (negotiation.py 113-235).
AgreeOnVersion ==
  runtime.pc = "agreed" =>
    /\ RuntimeVersions \cap supported # {}
    /\ runtime.version = Max(RuntimeVersions \cap supported)
    /\ connector.pc # "gone" => connector = runtime

\* The attempts stay within the promise of SubprocessLifecycle; an attempt lives from its
\* spawn to its exit.
Lifecycle == INSTANCE SubprocessLifecycle WITH live <- runtime.pc # "none"
AttemptsKeepLifecycle == Lifecycle!Spec

\* connector-runtime.md: with three restarts inside the window, the next crash breaks
\* the circuit.
BreaksAfterMaxRestarts == state = "circuit_broken" => restarts >= MaxRestarts
=============================================================================

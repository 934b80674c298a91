---------------------------- MODULE RestartPolicy ----------------------------
(***************************************************************************)
(* The pure restart decision of src/prow/connector/restart_policy.py, over *)
(* the number of restart timestamps that are still inside the rolling      *)
(* window when a subprocess exit is recorded.                              *)
(***************************************************************************)
EXTENDS Naturals

CONSTANT MaxRestarts   \* max_restarts_in_window, 3 in production

ASSUME MaxRestartsAssumption == MaxRestarts \in Nat \ {0}

\* How ConnectorProcess.wait() classifies the end of a subprocess.
ProcessExitReason ==
  {"graceful_shutdown", "crashed", "hello_failed",
   "timeout_killed", "protocol_error", "subprocess_spawn_failed"}

RestartableExitReasons == {"crashed", "timeout_killed", "protocol_error"}

\* should_restart: stop, break the circuit, or restart after a backoff.
ShouldRestart(reason, inWindow) ==
  IF reason \notin RestartableExitReasons THEN "stop"
  ELSE IF inWindow >= MaxRestarts THEN "circuit_break" ELSE "restart"
=============================================================================

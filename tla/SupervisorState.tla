--------------------------- MODULE SupervisorState ---------------------------
(***************************************************************************)
(* The canonical transition table of a supervised connector instance:      *)
(* src/prow/connector/supervisor_state.py.  Pure data: no variable.        *)
(***************************************************************************)

\* The lifecycle states of an instance.
ConnectorState ==
  {"not_started", "starting", "ready", "running",
   "draining", "dead", "crashed", "circuit_broken"}

\* The named events that index the table together with a state.
SupervisorTransitionEvent ==
  {"start_invoked", "hello_succeeded", "start_failure_to_crashed",
   "first_operational_message", "shutdown_requested",
   "graceful_process_exit", "graceful_exit_without_drain",
   "crash_while_draining", "crash_while_active", "restart_backoff_elapsed",
   "circuit_break_recorded", "policy_stop_to_dead",
   "circuit_clear_restart", "restart_abort_to_dead"}

\* (current state, event, next state)
SUPERVISOR_TRANSITION_TABLE ==
  { <<"not_started",    "start_invoked",               "starting">>,
    <<"dead",           "start_invoked",               "starting">>,
    <<"starting",       "hello_succeeded",             "ready">>,
    <<"starting",       "start_failure_to_crashed",    "crashed">>,
    <<"starting",       "shutdown_requested",          "draining">>,
    <<"ready",          "first_operational_message",   "running">>,
    <<"ready",          "shutdown_requested",          "draining">>,
    <<"running",        "shutdown_requested",          "draining">>,
    <<"ready",          "graceful_exit_without_drain", "dead">>,
    <<"running",        "graceful_exit_without_drain", "dead">>,
    <<"ready",          "crash_while_active",          "crashed">>,
    <<"running",        "crash_while_active",          "crashed">>,
    <<"draining",       "graceful_process_exit",       "dead">>,
    <<"draining",       "crash_while_draining",        "crashed">>,
    <<"crashed",        "restart_backoff_elapsed",     "starting">>,
    <<"crashed",        "circuit_break_recorded",      "circuit_broken">>,
    <<"crashed",        "policy_stop_to_dead",         "dead">>,
    <<"crashed",        "restart_abort_to_dead",       "dead">>,
    <<"circuit_broken", "circuit_clear_restart",       "starting">>,
    <<"circuit_broken", "shutdown_requested",          "dead">> }

\* apply_transition(s, e) returns; otherwise it raises InvalidStateTransitionError.
Defined(s, e) == \E n \in ConnectorState : <<s, e, n>> \in SUPERVISOR_TRANSITION_TABLE

\* The successor state, where Defined(s, e).
ApplyTransition(s, e) ==
  CHOOSE n \in ConnectorState : <<s, e, n>> \in SUPERVISOR_TRANSITION_TABLE

\* `with contextlib.suppress(InvalidStateTransitionError): _transition_locked(e)`
SuppressedTransition(s, e) == IF Defined(s, e) THEN ApplyTransition(s, e) ELSE s

\* The moves the table allows, whatever the event.
Move(s, n) == \E e \in SupervisorTransitionEvent : <<s, e, n>> \in SUPERVISOR_TRANSITION_TABLE
=============================================================================

------------------------- MODULE SubprocessLifecycle -------------------------
(***************************************************************************)
(* What a supervised connector instance promises, whoever calls it: its    *)
(* state follows the canonical transition table, at most one subprocess is *)
(* live, a subprocess is born only by entering "starting", and the         *)
(* instance is settled only when its subprocess is gone.                   *)
(***************************************************************************)
EXTENDS SupervisorState

VARIABLES state,  \* the instance's state
          live    \* a subprocess of the instance is being created or runs

Settled == {"not_started", "dead", "crashed", "circuit_broken"}

Init == state = "not_started" /\ live = FALSE

\* An exit handler records the crash and decides about it in one step.
Follows(s, n) == s = n \/ Move(s, n) \/ (Move(s, "crashed") /\ Move("crashed", n))

\* start(), the end of a backoff, or clear_circuit_break().
Begin ==
  /\ state \in Settled /\ ~live
  /\ Move(state, "starting")
  /\ state' = "starting" /\ live' = TRUE

\* Anything else: never a birth, and settled only without a subprocess.
Proceed ==
  /\ state' \in ConnectorState /\ Follows(state, state')
  /\ live' \in {FALSE, live}
  /\ state' # state => state' # "starting"
  /\ state' \in Settled => ~live'

Next == Begin \/ Proceed

Spec == Init /\ [][Next]_<<state, live>>
=============================================================================

-------------------------- MODULE MCConnectorSession --------------------------
EXTENDS ConnectorSession

Symmetry == Permutations(Ops) \cup Permutations(Probes)

\* What became of a request nobody waits for and no frame carries does not matter.
Forgotten(i) ==
  /\ i \notin Stops /\ ~OnWire(i) /\ serving.id # i
  /\ IF i \in Ops THEN op[i] = "idle" ELSE request[i] = "idle"

View == <<up, down, alive, stdioVars, runtimeVars, misses,
          [i \in Ids |-> IF Forgotten(i) THEN "none" ELSE handled[i]]>>
=============================================================================

-------------------------- MODULE MCConnectorRuntime --------------------------
EXTENDS ConnectorRuntime, FiniteSets, TLC

Symmetry == Permutations(Procs)

\* Handles nobody refers to are alike, and so are subprocesses whose exit has been
\* handled, up to a dispatch loop that still drains.
View == <<instanceVars, callVars, taskVars,
  [p \in Procs |->
     IF Fresh(p) THEN <<>>
     ELSE IF watch[p] = "done" /\ ~Live(p) /\ process # p THEN <<link[p] = "up">>
     ELSE <<watch[p], starter[p], os[p], link[p], timeoutKill[p]>>]>>

\* The handles are enough: a start never waits for one.
HandlesSuffice == \E p \in Procs : Fresh(p)
=============================================================================

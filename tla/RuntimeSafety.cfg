SPECIFICATION Spec
CONSTANTS
  p1 = p1
  p2 = p2
  p3 = p3
  p4 = p4
  Procs = {p1, p2, p3, p4}
  NoProc = NoProc
  MaxRestarts = 3
  OperatorClears = TRUE
  HelloWriteMayRaise = TRUE
  CancelMaySwallow = TRUE
VIEW View
SYMMETRY Symmetry
INVARIANT RuntimeTypeOK
INVARIANT AtMostOneLiveProcess
INVARIANT ActiveIsWatched
INVARIANT CrashedIsOwned
INVARIANT SingleRestartTask
INVARIANT StartOwnsProcess
PROPERTY KeepsLifecycle

SPECIFICATION HungConnectorSpec
CONSTANTS
  p1 = p1
  p2 = p2
  Procs = {p1, p2}
  NoProc = NoProc
  MaxRestarts = 2
  OperatorClears = FALSE
  HelloWriteMayRaise = FALSE
  CancelMaySwallow = FALSE
PROPERTY AskedToStopEnds

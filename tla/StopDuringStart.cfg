SPECIFICATION FairSpec
CONSTANTS
  p1 = p1
  p2 = p2
  Procs = {p1, p2}
  NoProc = NoProc
  MaxRestarts = 2
  OperatorClears = TRUE
  HelloWriteMayRaise = FALSE
  CancelMaySwallow = FALSE
PROPERTY DrainingEnds

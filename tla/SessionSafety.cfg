SPECIFICATION Spec
CONSTANTS
  o1 = o1
  o2 = o2
  r1 = r1
  r2 = r2
  Ops = {o1, o2}
  Probes = {r1, r2}
  Stops = {}
  NoId = NoId
  Sizes = {1, 2}
  StreamLimit = 1
  FrameLimit = 2
  PipeRoom = 1
  HighWater = 1
  Calls = {"emit", "get-state"}
  MaxInFlight = 1
VIEW View
SYMMETRY Symmetry
CHECK_DEADLOCK FALSE
INVARIANT SessionTypeOK
INVARIANT InFlightExact
INVARIANT FuturesAwaited
PROPERTY KeepsContract

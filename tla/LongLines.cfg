SPECIFICATION Spec
CONSTANTS
  o1 = o1
  Ops = {o1}
  r1 = r1
  r2 = r2
  Probes = {r1, r2}
  Stops = {}
  NoId = NoId
  Sizes = {1, 2}
  StreamLimit = 1
  FrameLimit = 2
  PipeRoom = 2
  HighWater = 1
  Calls = {"emit"}
  MaxInFlight = 1
CHECK_DEADLOCK FALSE
PROPERTY OnlyLongLinesReject

SPECIFICATION FairSpec
CONSTANTS
  o1 = o1
  o2 = o2
  Ops = {o1, o2}
  r1 = r1
  r2 = r2
  Probes = {r1, r2}
  Stops = {}
  NoId = NoId
  Sizes = {1}
  StreamLimit = 1
  FrameLimit = 1
  PipeRoom = 1
  HighWater = 0
  Calls = {"emit"}
  MaxInFlight = 2
CHECK_DEADLOCK FALSE
PROPERTY ProbesEnd

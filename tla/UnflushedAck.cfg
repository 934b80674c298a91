SPECIFICATION Spec
CONSTANTS
  o1 = o1
  r1 = r1
  s1 = s1
  Ops = {o1}
  Probes = {r1}
  Stops = {s1}
  NoId = NoId
  Sizes = {1}
  StreamLimit = 1
  FrameLimit = 1
  PipeRoom = 1
  HighWater = 1
  Calls = {"emit"}
  MaxInFlight = 1
CHECK_DEADLOCK FALSE
INVARIANT AckOutlivesConnector

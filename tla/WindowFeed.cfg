SPECIFICATION FairSpec
CONSTANTS
  Session = {"s1", "s2"}
  Instance = {"s1", "s2"}
  Key = {"last_fetch_date", "last_successful_fetch"}
  Feed <- MCFeed
  Setups <- MCSetups
  Day = 1
  DaysBack = 2
  Limit = 2
  StreamLimit = 2
  FrameLimit = 3
  MaxTick = 3
  MaxFetches = 3
  MaxFailures = 1
CHECK_DEADLOCK FALSE
INVARIANTS RelationshipsResolve NothingMissed
PROPERTY EachFetchEnds

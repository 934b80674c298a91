SPECIFICATION FairSpec
CONSTANTS
  Broken = {2}
  MaxSaves = 2
  MaxFaults = 2
CHECK_DEADLOCK FALSE
INVARIANTS DevTypeOK OneFetchOnLiveConnector NoConnectorLeaked
PROPERTIES SavesAreAnswered InterruptEnds

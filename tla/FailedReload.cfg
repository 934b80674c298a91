SPECIFICATION FairSpec
CONSTANTS
  Broken = {}
  MaxSaves = 1
  MaxFaults = 1
CHECK_DEADLOCK FALSE
PROPERTY SavedCodeIsImported

SPECIFICATION Spec
CONSTANTS
  Broken = {}
  MaxSaves = 1
  MaxFaults = 0
CHECK_DEADLOCK FALSE
INVARIANT StaleCodeIsCancelled

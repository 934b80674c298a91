SPECIFICATION Spec
CONSTANTS
  MaxRestarts = 3
  RuntimeVersions = {1, 2}
  Versions = {1, 2, 3}
  Window = 2
  MaxTime = 6
  MaxAttempts = 6
CHECK_DEADLOCK FALSE
INVARIANT BreaksAfterMaxRestarts

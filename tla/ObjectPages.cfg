SPECIFICATION Spec
CONSTANTS
  Bundle <- MCBundle
  Object <- MCObject
  Carries <- MCCarries
  TypeOf <- MCTypeOf
  Created <- MCCreated
  Confidence <- MCConfidence
  Limits <- MCLimits
  Purges = TRUE
INVARIANTS
  WalkSeesEverything
  QuietWalkShowsOnce
CHECK_DEADLOCK FALSE

SPECIFICATION Spec
CONSTANTS
  Bundle <- MCBundle
  Object <- MCObject
  Carries <- MCCarries
  TypeOf <- MCTypeOf
  Created <- MCCreated
  Confidence <- MCConfidence
  Limits <- MCLimits
  Purges = FALSE
INVARIANT PagesAreDisjoint
CHECK_DEADLOCK FALSE

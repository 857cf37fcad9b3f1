SPECIFICATION Spec
CONSTANTS
  Client = {c1, c2}
  Method <- Methods
  MaxCalls = 3
  MaxFailed = 1
  MaxCrashes = 1
  NONE = NONE
INVARIANTS OwnAnswer AtMostOnce StatusIsReal
PROPERTIES Returns
CHECK_DEADLOCK FALSE

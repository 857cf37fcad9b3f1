SPECIFICATION Spec
CONSTANTS
  Client = {c1, c2}
  MaxRuns = 2
  MaxRequests = 2
  NONE = NONE
INVARIANTS RepliesMatch NoCallbackAfterStop
PROPERTIES Answered StopAndDisconnectReturn
CHECK_DEADLOCK FALSE

CONSTANTS
  Addr <- TwoHosts
  ConfigAddr <- Config
  ConfigPaths <- BelowConfig
  Service = {s}
  Peer = {p, q}
  MaxHandlers = 2
  NONE = NONE
SPECIFICATION Spec
INVARIANTS AnswersBelong ExposedOnlyInCalls
PROPERTIES Answered
CHECK_DEADLOCK FALSE

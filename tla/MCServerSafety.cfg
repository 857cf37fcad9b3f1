CONSTANTS
  Addr <- OneHost
  ConfigAddr <- Config
  ConfigPaths <- BelowConfig
  Service = {s, t}
  Peer = {p, q}
  MaxHandlers = 4
  NONE = NONE
SPECIFICATION Spec
SYMMETRY Sym
INVARIANTS ListedIsAlive
PROPERTIES RemovalIsExact
CHECK_DEADLOCK FALSE

SPECIFICATION Spec
CONSTANTS
  Context = {c1, c2}
  Name = {"A", "B"}
  Document <- MCDocument
  Config <- MCConfig
  Priority <- MCPriority
  Dummy = {"http"}
  None = None
  MaxConns = 2
INVARIANTS SpeaksItsIdl NamesAreTakenOnce BestEndpoint LoadersAreOwned
CHECK_DEADLOCK FALSE

SPECIFICATION Spec
CONSTANTS
  Radix = 2
  PartGroups = 2
  PartRange = 8
  ValueRange = 64
  Known <- Service
  Names <- Called
  Arguments <- Lists
  Outputs <- Results
  Errors <- Thrown
  NoSuchMethod <- Unknown
  InvalidRequest <- Invalid
  Failure <- Failing
  Foreign <- Strange
  MaxCalls = 2
INVARIANTS VarintsAgree ArgumentsArrive AnswerIsWhole
CHECK_DEADLOCK FALSE

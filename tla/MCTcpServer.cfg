SPECIFICATION Spec
CONSTANTS
  MaxConn = 2
  MaxLate = 1
  Thread = {t1, t2}
  MaxBlocks = 2
INVARIANTS AnswersInOrder
PROPERTIES Answered StopEnds
CHECK_DEADLOCK FALSE

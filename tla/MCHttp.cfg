SPECIFICATION HttpSpec
CONSTANTS
  MaxMessages = 3
  MaxAnswers = 3
  NOBODY = NOBODY
INVARIANTS OneOperation AnswersMatch
PROPERTIES RequestsAnswered
CHECK_DEADLOCK FALSE

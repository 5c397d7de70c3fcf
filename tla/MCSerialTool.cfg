CONSTANTS
  RxSize = 3
  SendTries = 1
  MaxLines = 1
  MaxArrivals = 2
SPECIFICATION StFairSpec
PROPERTIES AnswerEnds
CHECK_DEADLOCK FALSE

CONSTANTS
  Cap = 8
  MinSize = 3
  MaxErrors = 1
  MaxFds = 2
  MaxItems = 4
SPECIFICATION Spec
INVARIANTS EachSentenceOnce TicksRemembered
CHECK_DEADLOCK FALSE

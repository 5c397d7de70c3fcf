CONSTANTS
  NBUFF = 2
  NItems = 5
  MaxCrashes = 2
  ABSENT = ABSENT
  NWriters = 3
  NReaders = 2
  Limit = 3
  Children = {1, 2, 3, 4}
  BufCap = 3
  MaxLate = 3
SPECIFICATION ProgSpec
INVARIANTS SlotsAccounted ItemsInOrder RightUnlessLate
PROPERTIES OwnRunEnds LockDemoEnds LateExitReapsAll DriverResyncs
CHECK_DEADLOCK FALSE

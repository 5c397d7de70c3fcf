CONSTANTS
  main = main
  worker = worker
  NULL = NULL
  Threads = {main, worker}
  Producers = {worker}
  Consumers = {main}
  Owner = main
  Blocks <- MCBlocks
  Size = 2
SPECIFICATION FairSpec
INVARIANTS RingConsistent SoleOwner CheckedCallsSucceed
PROPERTIES LeakOnlyOnReject ImplementsFifo MutexReleased
CHECK_DEADLOCK FALSE

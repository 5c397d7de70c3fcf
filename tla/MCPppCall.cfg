CONSTANTS
  Pids = {1, 2}
  StartTimeout = 2
  PingCount = 1
SPECIFICATION FairSpec
INVARIANTS LoopHasABranch OneDialer
PROPERTIES ZombiesReaped DialsAgain

CONSTANTS
  Clients = {c1, c2}
  LISTEN = LISTEN
  NBytes = 2
  LineCap = 2
  SockBuf = 1
SPECIFICATION FairSpec
INVARIANTS EchoUnlessMixed OnlyFloodersAreCutOff
PROPERTIES Served
CHECK_DEADLOCK FALSE

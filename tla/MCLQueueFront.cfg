CONSTANTS
  n1 = n1
  n2 = n2
  b1 = b1
  b2 = b2
  NULL = NULL
  Nodes = {n1, n2}
  Blocks = {b1, b2}
  InitSize = 2
SPECIFICATION Spec
PROPERTIES FrontGoesToCaller
CHECK_DEADLOCK FALSE

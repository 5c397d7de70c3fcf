CONSTANTS
  n1 = n1
  n2 = n2
  n3 = n3
  b1 = b1
  b2 = b2
  b3 = b3
  b4 = b4
  NULL = NULL
  Nodes = {n1, n2, n3}
  Blocks = {b1, b2, b3, b4}
  InitSize = 2
SYMMETRY NodesAndBlocks
SPECIFICATION Spec
INVARIANTS CircleClosed
PROPERTIES StepsLikeADeque HeadLostOnlyThere
CHECK_DEADLOCK FALSE

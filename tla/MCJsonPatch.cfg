CONSTANTS
  LLONG_MAX = 99
  DBL_MAX = 999990000
  DBL_DIG = 3
  Documents <- MCDocuments
  Pointers <- MCPointers
  Additions <- MCAdditions
SPECIFICATION JpSpec
INVARIANTS MergePatchMoves
CHECK_DEADLOCK FALSE

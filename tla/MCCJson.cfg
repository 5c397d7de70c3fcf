CONSTANTS
  Items = {i1, i2, i3, i4, i5}
  NULL = NULL
  Names = {"k", "m"}
  MaxSize = 6
SPECIFICATION Spec
SYMMETRY Addresses
INVARIANTS ItemsAccounted MembersFound

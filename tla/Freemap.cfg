CONSTANTS
  Programs <- MCPrograms
  Names = {"sh", "x", "y"}
  Types = {"file", "dir"}
  NINODES = 6
  ROOM = 6
  NBITS = 5
  BITS = 2
  DATASTART = 3
  MaxLink = 2
  NULL = NULL
SPECIFICATION Spec
INVARIANTS
  DataPrivate

CONSTANTS
  Procs = {p0, p1}
  InitProc = p0
  NFILE = 2
  NOFILE = 2
  NSLOT = 1
  NINODES = 4
  Names = {a, b}
  MaxRef = 3
  MaxIref = 3
  Types = {"dir"}
  NULL = NULL
SPECIFICATION MCSpec
INVARIANTS
  DescriptorsCounted
PROPERTY
  NotHandedOut
  
SYMMETRY Symmetry

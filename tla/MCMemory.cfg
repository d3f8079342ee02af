CONSTANTS
  Procs = {p0, p1}
  InitProc = p0
  NPAGES = 12
  NKPT = 1
  NV = 4
  PTSZ = 2
  PAGE_SZ = 2
  Images <- MCImages
  Grows = {1, 2, 4}
  NULL = NULL
SPECIFICATION Spec
INVARIANTS
  OneOwner
  SizeMapped

CONSTANTS
  BSIZE = 4
  NDIRECT = 4
  NINDIRECT1 = 2
  PAGE_SZ = 8
  OFFSETS = 256
  DATASTART = 6
  NDATA = 14
  BITS = 6
  ENTRY = 3
  ProgSizes = {2, 12, 18, 24, 25}
  Counts = {1, 3, 6, 25}
  MaxCalls = 4
  SECSZ = 4
  MEM = 32
  Kernels <- MCKernels
  STACKSZ = 32
  WORDSZ = 2
  TOP = 96
  MAXARGS = 3
  Argvs <- MCArgvs
SPECIFICATION ImageSpec
INVARIANTS FilesKept ReadReturns KernelLoaded ArgumentsPassed

CONSTANTS
  NBUF = 3
  Blocks = {sb, k1, k2, k3}
  Super = sb
  Vals = {z, a, b}
  Zero = z
  MaxHeld = 3
  NULL = NULL
SPECIFICATION FairSpec
INVARIANTS
  QueueIsHeld
PROPERTIES
  ImplementsStore
  RequestsComplete

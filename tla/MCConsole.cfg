CONSTANTS
  LINE_BUF_SZ = 4
  Readers = {r1, r2}
  Sizes = {1, 4}
  Letters = {"x"}
  MaxInput = 4
  NULL = NULL
SPECIFICATION MCSpec
INVARIANT
  BufferIsLine
PROPERTIES
  LineDelivered
  ReaderServed

CONSTANTS
  PIPESZ = 2
  COUNTERS = 4
  Readers = {r1}
  Writers = {w1, w2}
  Bytes = {a, b}
  Sizes = {1, 3}
SPECIFICATION FairSpec
INVARIANTS
  NoLostWakeup
PROPERTIES
  ImplementsQueue
  SleepersWoken

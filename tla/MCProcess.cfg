CONSTANTS
  NPROC = 5
  Chan = {c1}
  Watched = 2
  NULL = NULL
SPECIFICATION MCSpec
INVARIANTS
  OneRunning
  NoLostExit
  WellFormedTree
  NoPageLeak
PROPERTIES
  ReapedByParent
  RoundRobin
  ImplementsLifecycle
  ReadyRuns
  WaitReturns

CONSTANT Procs = {p1, p2}
SPECIFICATION FairSpec
INVARIANTS
  NoPanic
  HandlersDoNotNest
  MutexKept
PROPERTY InterruptsReopen

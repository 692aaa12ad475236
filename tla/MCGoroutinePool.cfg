\* Two workers, a queue of one, two submitters (one with a context), two Shutdown
\* callers (one timed).
SPECIFICATION FairSpec
CONSTANTS
  Size = 2
  QueueSize = 1
  Tasks = {t1, t2}
  CtxTasks = {t2}
  Closers = {c1, c2}
  TimedClosers = {c2}
  NoTask = NoTask
INVARIANTS
  TypeOK
  TaskPlacement
  DrainedOnReturn
  CounterBalance
PROPERTIES
  LifecycleSpec
  ShutdownReturns

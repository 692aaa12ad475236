SPECIFICATION Spec
CONSTANTS
  Size = 1
  QueueSize = 1
  Tasks = {t1, t2}
  CtxTasks = {t2}
  Closers = {c1}
  TimedClosers = {}
  NoTask = NoTask
INVARIANT
  SubmitReportsClosedPool

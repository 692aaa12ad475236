\* Three goroutines, two sessions, one of them under two names.
SPECIFICATION Spec
CONSTANTS
  Callers = {p1, p2, p3}
  SessionIDs = {empty, global, chat}
  Empty = empty
  Global = global
  MaxCalls = 4
  MaxHours = 2
INVARIANTS
  TypeOK
  DenseUntilCollected
CHECK_DEADLOCK FALSE

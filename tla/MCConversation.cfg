SPECIFICATION Spec
CONSTANTS
  ann = ann
  bob = bob
  s1 = s1
  s2 = s2
  q1 = q1
  q2 = q2
  q3 = q3
  Callers = {1, 2, 3, 4}
  Users = {ann, bob}
  Sessions = {s1, s2}
  Questions = {q1, q2, q3}
  Answers <- AllAnswers
  Sim <- Likeness
  Scripts <- AllScripts
  Tools = {q3}
  threshold = 1
  maxEntries = 2
  contextLimit = 2
  contextWindowSize = 1
  ContextLimit = 1
  MaxActive = 2
  None = None
INVARIANTS
  TypeOK
  CacheBounded
  StatsAddUp
  HistorySound
  HistoryKeepsTail
  
  ReplyFits

  
CHECK_DEADLOCK FALSE

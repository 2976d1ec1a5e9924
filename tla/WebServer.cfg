SPECIFICATION WebFairSpec
CONSTANTS
  c1 = c1
  c2 = c2
  t1 = t1
  t2 = t2
  Clients = {c1, c2}
  Workers = {t1, t2}
  Limits = {2, 3, 4}
  Free = Free
  File = File
INVARIANTS
  AnswerFits
  LeakPerRequest
PROPERTIES
  AllServed
CHECK_DEADLOCK FALSE

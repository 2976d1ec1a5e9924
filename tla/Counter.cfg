SPECIFICATION CounterSpec
CONSTANTS
  num_thread = 4
  Rounds = 2
  None = None
INVARIANTS
  NothingLost
  RaceBounds
\* main and every thread return
CHECK_DEADLOCK FALSE

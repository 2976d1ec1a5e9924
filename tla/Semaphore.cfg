SPECIFICATION SemFairSpec
CONSTANTS
  Rounds = 5
  Inputs = {1, 2}
  None = None
INVARIANTS
  NumExclusive
  SumComplete
PROPERTIES
  Handover
  Ends
\* main and both threads return
CHECK_DEADLOCK FALSE

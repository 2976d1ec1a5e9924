SPECIFICATION Spec
CONSTANTS
  h1 = h1
  h2 = h2
  Hosts = {h1, h2}
  Receivers = {h1}
  MaxExtra = 1
  BUF_SIZE = 3
  MaxLines = 3
  Files <- NewsFiles
INVARIANTS
  AnswersOwn
  NewsWhole
CHECK_DEADLOCK FALSE

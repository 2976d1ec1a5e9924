SPECIFICATION FairSpec
CONSTANTS
  c1 = c1
  c2 = c2
  Clients = {c1, c2}
  BUF_SIZE = 2
  None = None
  PieceRoom = 1
  ByteRoom = 8
  Serves = 2
  Lengths = {0, 2, 4}
  MaxLines = 2
  Base = 4
  IntSize = 2
  Operands <- Few
  MaxCount = 2
  TextLen = 3
  ThanksLen = 2
INVARIANTS
  InStep
  ServerSurvives
  AnswerRight
  Delivered
PROPERTIES
  Answered
  BothEnd
CHECK_DEADLOCK FALSE

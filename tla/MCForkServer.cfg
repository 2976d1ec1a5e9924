SPECIFICATION FairSpec
CONSTANTS
  c1 = c1
  c2 = c2
  Clients = {c1, c2}
  Talker = c1
  Logger = Logger
  BUF_SIZE = 2
  PipeSize = 2
  LogReads = 1
  MaxPieces <- OneTalker
  MaxPauses <- InMpserv
  Window = 1
  None = None
INVARIANTS
  StatusSet
  LogIntact
PROPERTIES
  AllEchoed
  LeaverEnds
\* all clients may have left, and every process wait
CHECK_DEADLOCK FALSE

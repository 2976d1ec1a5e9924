SPECIFICATION Spec
CONSTANTS
  c1 = c1
  c2 = c2
  c3 = c3
  t1 = t1
  t2 = t2
  t3 = t3
  Clients = {c1, c2, c3}
  Threads = {t1, t2, t3}
  Fds = {4, 5, 6}
  MAX_CLNT = 4
  MaxPieces <- OnePiece
  Talker = c1
  Window = 1
  NoClient = NoClient
  Main = Main
  Free = Free
INVARIANTS
  SendsToAll
SYMMETRY Symmetry
\* the last clients may be gone, or SIGPIPE may have killed the server
CHECK_DEADLOCK FALSE

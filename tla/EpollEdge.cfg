SPECIFICATION FairSpec
CONSTANTS
  c1 = c1
  c2 = c2
  Clients = {c1, c2}
  server_socket = 3
  Fds = {5, 6}
  EPOLL_SIZE = 3
  BUF_SIZE = 2
  MaxPieces = 3
  Window = 1
  NoClient = NoClient
INVARIANTS
  NoLostEdge
PROPERTIES
  LossySpec
  LeaverEndsService
\* every client may be gone and the server spin, wait for ever or be dead
CHECK_DEADLOCK FALSE

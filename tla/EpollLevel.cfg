SPECIFICATION FairSpec
CONSTANTS
  c1 = c1
  c2 = c2
  Clients = {c1, c2}
  server_socket = 3
  Fds = {5, 6}
  EPOLL_SIZE = 3
  BUF_SIZE = 2
  MaxPieces = 2
  Window = 1
  NoClient = NoClient
INVARIANTS
  BatchValid
PROPERTIES
  EchoSpec
  AllEchoed
  ResetKills
\* every client may be gone and epoll_wait wait for ever, or the server be dead
CHECK_DEADLOCK FALSE

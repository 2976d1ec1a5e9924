SPECIFICATION FairSpec
CONSTANTS
  c1 = c1
  c2 = c2
  Clients = {c1, c2}
  server_socket = 3
  Fds = {4, 5}
  MaxPieces = 2
  Window = 1
  NoClient = NoClient
INVARIANTS
  WatchesAll
  SnapshotValid
PROPERTIES
  EchoSpec
  AllEchoed
  LeaverClosed
\* every client may be gone and select wait for ever, or the server be dead
CHECK_DEADLOCK FALSE

SPECIFICATION Spec
CONSTANTS
  c1 = c1
  c2 = c2
  t1 = t1
  t2 = t2
  Clients = {c1, c2}
  Threads = {t1, t2}
  Fds = {4, 5}
  MAX_CLNT = 3
  MaxPieces <- OneTalker
  Talker = c1
  Window = 1
  NoClient = NoClient
  Main = Main
  Free = Free
INVARIANTS
  CountMatchesHandlers
  OneHandlerPerSocket
  StreamIntact
PROPERTIES
  AtomicBroadcast
  BroadcastSpec
\* the last clients may be gone, or SIGPIPE may have killed the server
CHECK_DEADLOCK FALSE

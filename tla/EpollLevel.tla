----------------------------- MODULE EpollLevel -----------------------------
(***************************************************************************)
(* The two level-triggered epoll servers of ch17: blocking sockets, one    *)
(* thread.  echo_epollserv.cpp differs from echo_epltserv.cpp in that it   *)
(* answers every read, a failed one too, with its whole buffer, which all  *)
(* clients share and nobody clears.                                        *)
(***************************************************************************)
EXTENDS TcpConn, FiniteSets

CONSTANTS
  Clients,         \* each connects once
  server_socket,   \* the descriptor socket() returned
  Fds,             \* descriptors accept can return
  EPOLL_SIZE,      \* events one epoll_wait returns at most
  BUF_SIZE,        \* pieces the buffer holds
  MaxPieces,       \* bound: pieces one client types
  NoClient

ASSUME EpollAssumption ==
  /\ NoClient \notin Clients
  /\ Fds \subseteq Nat /\ server_socket \in Nat \ Fds
  /\ {EPOLL_SIZE, BUF_SIZE} \subseteq Nat \ {0}
  /\ MaxPieces \in Nat

VARIABLES
  conn, backlog,      \* connections; those listen() holds for accept
  file,               \* descriptor table of the server process
  interest,           \* the descriptors added to epfd, all of them EPOLLIN
  ep_events,          \* events of this epoll_wait the loop has not reached
  fd,                 \* the event being handled
  buf, todo,          \* whose piece is where in buf; what is left to write
  leak,               \* history: what buf held in the last place behind an
                      \* answer that was written
  pc,                 \* "wait", "batch", "write", or "dead"
  program             \* the program that runs; it never changes

net  == <<conn, backlog>>
memory == <<buf, leak>>
vars == <<net, file, interest, ep_events, fd, todo, memory, pc, program>>

Padding == 0                 \* in todo: a place of buf behind the answer
Unset   == <<NoClient, 0>>   \* in buf: memory nobody has written to

Init ==
  /\ conn = [c \in Clients |-> NoConn] /\ backlog = {}
  /\ file = [f \in Fds |-> NoClient]
  /\ interest = {server_socket}
  /\ ep_events = {} /\ fd = server_socket /\ todo = <<>>
  /\ buf = [i \in 1..BUF_SIZE |-> Unset] /\ leak = Unset
  /\ pc = "wait"
  /\ program \in {"echo_epltserv", "echo_epollserv"}

-----------------------------------------------------------------------------
(* The clients: ch4/echo_client.cpp, or anybody else.                       *)

Connect(c) ==
  /\ conn[c].peer = "none"
  /\ conn' = [conn EXCEPT ![c] = Dial(@)]
  /\ backlog' = backlog \cup {c}

Type(c) ==
  /\ conn[c].peer = "open" /\ conn[c].sent < MaxPieces
  /\ conn' = [conn EXCEPT ![c] = Send(@)]
  /\ UNCHANGED backlog

Show(c) ==
  /\ conn[c].peer = "open" /\ conn[c].seen < Len(conn[c].out)
  /\ conn' = [conn EXCEPT ![c] = Receive(@)]
  /\ UNCHANGED backlog

Quit(c) ==
  /\ conn[c].peer = "open"
  /\ conn' = [conn EXCEPT ![c] = HangUp(@)]
  /\ UNCHANGED backlog

(* What clients do once the server process is gone is left out.             *)
Client(c) ==
  /\ pc # "dead"
  /\ Connect(c) \/ Type(c) \/ Show(c) \/ Quit(c)
  /\ UNCHANGED <<file, interest, ep_events, fd, todo, memory, pc>>

-----------------------------------------------------------------------------
(* The kernel's side of epoll and of the descriptor table.                  *)

IsOpen(f) == f \in Fds /\ file[f] # NoClient

Readable(k) == DataReady(k) \/ ErrorReady(k) \/ EofReady(k)

Ready(f) ==
  IF f = server_socket THEN backlog # {} ELSE IsOpen(f) /\ Readable(conn[file[f]])

LowestFree(f) == file[f] = NoClient /\ \A g \in Fds : file[g] = NoClient => f <= g

-----------------------------------------------------------------------------
(* The server: main.                                                        *)

(* The events come in no order a program may rely on, so they are a set.    *)
EpollWait ==
  /\ pc = "wait"
  /\ LET ready == {f \in interest : Ready(f)} IN
       \E events \in SUBSET ready :
         /\ events # {}
         /\ \/ Cardinality(events) = EPOLL_SIZE
            \/ events = ready /\ Cardinality(ready) < EPOLL_SIZE
         /\ ep_events' = events
  /\ pc' = "batch"
  /\ UNCHANGED <<net, file, interest, fd, todo, memory>>

Take(f) ==    \* the next event is about f
  /\ pc = "batch" /\ f \in ep_events
  /\ ep_events' = ep_events \ {f}
  /\ fd' = f

EndOfBatch ==
  /\ pc = "batch" /\ ep_events = {}
  /\ pc' = "wait"
  /\ UNCHANGED <<net, file, interest, ep_events, fd, todo, memory>>

AcceptNoAdd ==    \* without EPOLL_CTL_ADD
  /\ Take(server_socket)
  /\ \E c \in backlog, f \in Fds :
       /\ LowestFree(f)
       /\ file' = [file EXCEPT ![f] = c]
       /\ backlog' = backlog \ {c}
  /\ UNCHANGED <<conn, interest, todo, memory, pc>>

AcceptIntoBatch ==    \* the new descriptor is read at once
  /\ pc = "batch" /\ server_socket \in ep_events
  /\ fd' = server_socket
  /\ \E c \in backlog, f \in Fds :
       /\ LowestFree(f)
       /\ file' = [file EXCEPT ![f] = c]
       /\ backlog' = backlog \ {c}
       /\ interest' = interest \cup {f}
       /\ ep_events' = (ep_events \ {server_socket}) \cup {f}
  /\ UNCHANGED <<conn, todo, memory, pc>>

Accept ==
  /\ Take(server_socket)
  /\ \E c \in backlog, f \in Fds :
       /\ LowestFree(f)
       /\ file' = [file EXCEPT ![f] = c]
       /\ backlog' = backlog \ {c}
       /\ interest' = interest \cup {f}
  /\ UNCHANGED <<conn, todo, memory, pc>>

(* No descriptor or no memory is left: accept gives -1, nobody looks, and   *)
(* EPOLL_CTL_ADD refuses -1.  The connection stays in the backlog and is    *)
(* reported again.                                                          *)
AcceptFails ==
  /\ Take(server_socket)
  /\ UNCHANGED <<net, file, interest, todo, memory, pc>>

WholeBuffer == program = "echo_epollserv"    \* write(fd, buf, BUF_SIZE)

Reply(s) ==
  IF WholeBuffer THEN s \o [i \in 1..BUF_SIZE - Len(s) |-> Padding] ELSE s

(* The pieces s of client c overwrite the beginning of buf.                 *)
Stored(c, s) == [i \in 1..BUF_SIZE |-> IF i <= Len(s) THEN <<c, s[i]>> ELSE buf[i]]

ReadLeavingOne(f) ==
  /\ Take(f) /\ IsOpen(f)
  /\ LET c == file[f] IN
       \E n \in 1..Len(conn[c].in) :
         /\ n <= BUF_SIZE
         /\ buf' = Stored(c, Taken(conn[c], n))
         /\ todo' = Reply(Taken(conn[c], n))
         /\ conn' = [conn EXCEPT ![c] = Left(@, n - 1)]
  /\ pc' = "write"
  /\ UNCHANGED <<backlog, file, interest, leak>>

ReadOneShot(f) ==    \* as with EPOLLONESHOT and nobody who rearms it
  /\ Take(f) /\ IsOpen(f)
  /\ LET c == file[f] IN
       \E n \in 1..Len(conn[c].in) :
         /\ n <= BUF_SIZE
         /\ buf' = Stored(c, Taken(conn[c], n))
         /\ todo' = Reply(Taken(conn[c], n))
         /\ conn' = [conn EXCEPT ![c] = Left(@, n)]
  /\ interest' = interest \ {f}
  /\ pc' = "write"
  /\ UNCHANGED <<backlog, file, leak>>

ReadData(f) ==
  /\ Take(f) /\ IsOpen(f)
  /\ LET c == file[f] IN
       \E n \in 1..Len(conn[c].in) :
         /\ n <= BUF_SIZE
         /\ buf' = Stored(c, Taken(conn[c], n))
         /\ todo' = Reply(Taken(conn[c], n))
         /\ conn' = [conn EXCEPT ![c] = Left(@, n)]
  /\ pc' = "write"
  /\ UNCHANGED <<backlog, file, interest, leak>>

(* read gives -1.  echo_epltserv.cpp only looks for EAGAIN, which a         *)
(* blocking socket does not give; to echo_epollserv.cpp -1 is not 0, and it *)
(* writes its buffer as it is.                                              *)
ReadError(f) ==
  /\ Take(f) /\ IsOpen(f)
  /\ ErrorReady(conn[file[f]])
  /\ conn' = [conn EXCEPT ![file[f]] = ErrorSeen(@)]
  /\ IF WholeBuffer THEN todo' = Reply(<<>>) /\ pc' = "write" ELSE UNCHANGED <<todo, pc>>
  /\ UNCHANGED <<backlog, file, interest, memory>>

ReadEof(f) ==    \* EPOLL_CTL_DEL and close
  /\ Take(f) /\ IsOpen(f)
  /\ EofReady(conn[file[f]])
  /\ interest' = interest \ {f}
  /\ file' = [file EXCEPT ![f] = NoClient]
  /\ UNCHANGED <<net, todo, memory, pc>>

(* A blocking write: piece by piece while the client listens ...            *)
WritePiece ==
  /\ pc = "write" /\ todo # <<>>
  /\ LET c == file[fd] IN
       /\ conn[c].peer = "open" /\ Writable(conn[c])
       /\ \E k \in Written(conn[c], Head(todo)) : conn' = [conn EXCEPT ![c] = k]
  /\ todo' = Tail(todo)
  /\ leak' = IF Head(todo) = Padding THEN buf[BUF_SIZE - Len(todo) + 1] ELSE leak
  /\ UNCHANGED <<backlog, file, interest, ep_events, fd, buf, pc>>

(* ... and what is left of it is dropped when the client has gone.  A write *)
(* to a reset connection raises SIGPIPE.                                    *)
WriteToGone ==
  /\ pc = "write" /\ todo # <<>>
  /\ LET c == file[fd] IN
       /\ Closed(conn[c])
       /\ \E k \in Written(conn[c], Head(todo)) \cup {conn[c]} :
            conn' = [conn EXCEPT ![c] = k]
       /\ pc' = IF Fatal(conn[c]) THEN "dead" ELSE "write"
  /\ todo' = <<>>
  /\ UNCHANGED <<backlog, file, interest, ep_events, fd, memory>>

WriteDone ==
  /\ pc = "write" /\ todo = <<>>
  /\ pc' = "batch"
  /\ UNCHANGED <<net, file, interest, ep_events, fd, todo, memory>>

Write == WritePiece \/ WriteToGone \/ WriteDone

Batch ==
  EndOfBatch \/ Accept \/ AcceptFails
  \/ \E f \in Fds : ReadData(f) \/ ReadError(f) \/ ReadEof(f)

Server == EpollWait \/ Batch \/ Write

Next ==
  /\ Server \/ \E c \in Clients : Client(c)
  /\ UNCHANGED program

Spec == Init /\ [][Next]_vars

(* The process runs whenever it can, and a client that listens reads what   *)
(* comes back; nothing obliges anybody to connect, type or quit.            *)
Fairness ==
  /\ WF_vars(Server /\ UNCHANGED program)
  /\ \A c \in Clients : WF_vars(Show(c) /\ Client(c) /\ UNCHANGED program)

FairSpec == Spec /\ Fairness

-----------------------------------------------------------------------------
(* Every variable keeps its type, and no answer exceeds the buffer.         *)
TypeOK ==
  /\ conn \in [Clients -> ConnType] /\ backlog \in SUBSET Clients
  /\ file \in [Fds -> Clients \cup {NoClient}]
  /\ interest \in SUBSET (Fds \cup {server_socket})
  /\ ep_events \in SUBSET (Fds \cup {server_socket})
  /\ fd \in Fds \cup {server_socket}
  /\ todo \in Seq(Nat) /\ Len(todo) <= BUF_SIZE
  /\ buf \in [1..BUF_SIZE -> (Clients \cup {NoClient}) \X Nat]
  /\ leak \in (Clients \cup {NoClient}) \X Nat
  /\ pc \in {"wait", "batch", "write", "dead"}
  /\ program \in {"echo_epltserv", "echo_epollserv"}

(* The loop handles events of the past while it closes descriptors and gets *)
(* their numbers back from accept.  Still, every event it has yet to reach  *)
(* is about an open descriptor that is ready: no call it makes blocks, and  *)
(* no event is taken for another connection's.                              *)
BatchValid == pc \in {"batch", "write"} => \A f \in ep_events : Ready(f)

(* Every client gets back what it sent, once and in order, and from         *)
(* echo_epltserv.cpp nothing else.  Between the answers of                  *)
(* echo_epollserv.cpp comes what its buffer holds behind them: memory that  *)
(* nobody has written to, or text that this client or another one sent      *)
(* before.                                                                  *)
Echo == INSTANCE PaddedEcho WITH
  sent <- [c \in Clients |-> conn[c].sent],
  echoed <- [c \in Clients |-> conn[c].out],
  pads <- WholeBuffer
EchoSpec == Echo!Spec

(* What a client with a descriptor has sent is echoed in the end, unless it *)
(* hangs up or the server dies.                                             *)
Accepted(c) == \E f \in Fds : file[f] = c

AllEchoed ==
  \A c \in Clients : Accepted(c) /\ ~WholeBuffer /\ conn[c].sent > Len(conn[c].out) ~>
    Len(conn[c].out) = conn[c].sent \/ Closed(conn[c]) \/ pc = "dead"

(* A client that resets its connection ends echo_epollserv.cpp: the read    *)
(* that reports the reset is answered too, and that write raises SIGPIPE.   *)
(* Only a write already under way can pick the error up first.              *)
ResetKills ==
  \A c \in Clients :
    /\ Accepted(c) /\ WholeBuffer /\ ErrorReady(conn[c])
    /\ ~(pc = "write" /\ fd \in Fds /\ file[fd] = c)
    ~> pc = "dead"
==============================================================================

------------------------------ MODULE EpollEdge ------------------------------
(***************************************************************************)
(* ch17/echo_epetserv.cpp: one thread; clients are watched edge-triggered, *)
(* so epoll_wait reports only what is new, and their sockets do not block, *)
(* so the loop reads until there is nothing left.  A closed descriptor is  *)
(* read for ever: close is followed by no break.                           *)
(***************************************************************************)
EXTENDS TcpConn, FiniteSets

CONSTANTS
  Clients,         \* each connects once
  server_socket,   \* the descriptor socket() returned, level-triggered
  Fds,             \* descriptors accept can return
  EPOLL_SIZE,      \* events one epoll_wait returns at most
  BUF_SIZE,        \* pieces one read returns at most
  MaxPieces,       \* bound: pieces one client types
  NoClient

ASSUME EdgeAssumption ==
  /\ NoClient \notin Clients
  /\ Fds \subseteq Nat /\ server_socket \in Nat \ Fds
  /\ {EPOLL_SIZE, BUF_SIZE} \subseteq Nat \ {0}
  /\ MaxPieces \in Nat

VARIABLES
  conn, backlog,      \* connections; those listen() holds for accept
  file,               \* descriptor table of the server process
  interest, rdlist,   \* what epfd watches, and those with something new
  ep_events,          \* events of this epoll_wait the loop has not reached
  fd, buf,            \* the event being handled, the bytes to write
  pc                  \* "wait", "batch", "accepted", "drain", "write",
                      \* "spin", or "dead"

net   == <<conn, backlog>>
epoll == <<interest, rdlist>>
vars  == <<net, file, epoll, ep_events, fd, buf, pc>>

Init ==
  /\ conn = [c \in Clients |-> NoConn] /\ backlog = {}
  /\ file = [f \in Fds |-> NoClient]
  /\ interest = {server_socket} /\ rdlist = {}
  /\ ep_events = {} /\ fd = server_socket /\ buf = <<>>
  /\ pc = "wait"

-----------------------------------------------------------------------------
(* The clients: ch4/echo_client.cpp, or anybody else.  What arrives at a    *)
(* watched descriptor is news for epoll.                                    *)

IsOpen(f) == f \in Fds /\ file[f] # NoClient

News(c) == rdlist' = rdlist \cup {f \in interest : IsOpen(f) /\ file[f] = c}

Connect(c) ==
  /\ conn[c].peer = "none"
  /\ conn' = [conn EXCEPT ![c] = Dial(@)]
  /\ backlog' = backlog \cup {c}
  /\ UNCHANGED rdlist

Type(c) ==
  /\ conn[c].peer = "open" /\ conn[c].sent < MaxPieces
  /\ conn' = [conn EXCEPT ![c] = Send(@)]
  /\ News(c)
  /\ UNCHANGED backlog

Show(c) ==
  /\ conn[c].peer = "open" /\ conn[c].seen < Len(conn[c].out)
  /\ conn' = [conn EXCEPT ![c] = Receive(@)]
  /\ UNCHANGED <<backlog, rdlist>>

Quit(c) ==
  /\ conn[c].peer = "open"
  /\ conn' = [conn EXCEPT ![c] = HangUp(@)]
  /\ News(c)
  /\ UNCHANGED backlog

(* What clients do once the server process is gone is left out.             *)
Client(c) ==
  /\ pc # "dead"
  /\ Connect(c) \/ Type(c) \/ Show(c) \/ Quit(c)
  /\ UNCHANGED <<file, interest, ep_events, fd, buf, pc>>

-----------------------------------------------------------------------------
(* The kernel's side of epoll and of the descriptor table.                  *)

Readable(k) == DataReady(k) \/ ErrorReady(k) \/ EofReady(k)

(* epoll looks again at what is new, and reports it if it is still there.   *)
Reportable ==
  {f \in rdlist : IsOpen(f) /\ Readable(conn[file[f]])}
  \cup {f \in {server_socket} : backlog # {}}

LowestFree(f) == file[f] = NoClient /\ \A g \in Fds : file[g] = NoClient => f <= g

-----------------------------------------------------------------------------
(* The server: main.                                                        *)

EpollWait ==
  /\ pc = "wait"
  /\ \E events \in SUBSET Reportable :
       /\ events # {}
       /\ \/ Cardinality(events) = EPOLL_SIZE
          \/ events = Reportable /\ Cardinality(Reportable) < EPOLL_SIZE
       /\ ep_events' = events
       /\ rdlist' = (rdlist \cap Reportable) \ events
  /\ pc' = "batch"
  /\ UNCHANGED <<net, file, interest, fd, buf>>

EndOfBatch ==
  /\ pc = "batch" /\ ep_events = {}
  /\ pc' = "wait"
  /\ UNCHANGED <<net, file, epoll, ep_events, fd, buf>>

(* accept gives a blocking descriptor; setnonblockingmode comes before      *)
(* anybody reads it.                                                        *)
Accept ==
  /\ pc = "batch" /\ server_socket \in ep_events
  /\ \E c \in backlog, f \in Fds :
       /\ LowestFree(f)
       /\ file' = [file EXCEPT ![f] = c]
       /\ backlog' = backlog \ {c}
       /\ fd' = f
  /\ ep_events' = ep_events \ {server_socket}
  /\ pc' = "accepted"
  /\ UNCHANGED <<conn, epoll, buf>>

(* No descriptor or no memory is left: accept gives -1, nobody looks, and   *)
(* fcntl and epoll_ctl refuse -1.  The connection stays in the backlog.     *)
AcceptFails ==
  /\ pc = "batch" /\ server_socket \in ep_events
  /\ ep_events' = ep_events \ {server_socket}
  /\ UNCHANGED <<net, file, epoll, fd, buf, pc>>

(* Data may have arrived since accept: EPOLL_CTL_ADD looks at once.         *)
AddQuietly ==
  /\ pc = "accepted"
  /\ interest' = interest \cup {fd}
  /\ pc' = "batch"
  /\ UNCHANGED <<net, file, rdlist, ep_events, fd, buf>>

Add ==
  /\ pc = "accepted"
  /\ interest' = interest \cup {fd}
  /\ rdlist' = IF Readable(conn[file[fd]]) THEN rdlist \cup {fd} ELSE rdlist
  /\ pc' = "batch"
  /\ UNCHANGED <<net, file, ep_events, fd, buf>>

Handle(f) ==
  /\ pc = "batch" /\ f \in ep_events /\ f # server_socket
  /\ ep_events' = ep_events \ {f}
  /\ fd' = f
  /\ pc' = "drain"
  /\ UNCHANGED <<net, file, epoll, buf>>

ReadAgain ==
  /\ pc = "drain" /\ IsOpen(fd)
  /\ LET c == file[fd] IN
       \E n \in 1..Len(conn[c].in) :
         /\ n <= BUF_SIZE
         /\ buf' = Taken(conn[c], n)
         /\ conn' = [conn EXCEPT ![c] = Left(@, n - 1)]
  /\ pc' = "write"
  /\ UNCHANGED <<backlog, file, epoll, ep_events, fd>>

ReadData ==
  /\ pc = "drain" /\ IsOpen(fd)
  /\ LET c == file[fd] IN
       \E n \in 1..Len(conn[c].in) :
         /\ n <= BUF_SIZE
         /\ buf' = Taken(conn[c], n)
         /\ conn' = [conn EXCEPT ![c] = Left(@, n)]
  /\ pc' = "write"
  /\ UNCHANGED <<backlog, file, epoll, ep_events, fd>>

ReadWouldBlock ==    \* EAGAIN: the only way out of the reading loop
  /\ pc = "drain" /\ IsOpen(fd)
  /\ ~Readable(conn[file[fd]])
  /\ pc' = "batch"
  /\ UNCHANGED <<net, file, epoll, ep_events, fd, buf>>

ReadError ==    \* any other errno: read again
  /\ pc = "drain" /\ IsOpen(fd)
  /\ ErrorReady(conn[file[fd]])
  /\ conn' = [conn EXCEPT ![file[fd]] = ErrorSeen(@)]
  /\ UNCHANGED <<backlog, file, epoll, ep_events, fd, buf, pc>>

(* EPOLL_CTL_DEL, close, and the loop goes on: from now on read gives -1    *)
(* with EBADF, which is not EAGAIN.                                         *)
ReadEof ==
  /\ pc = "drain" /\ IsOpen(fd)
  /\ EofReady(conn[file[fd]])
  /\ interest' = interest \ {fd} /\ rdlist' = rdlist \ {fd}
  /\ file' = [file EXCEPT ![fd] = NoClient]
  /\ pc' = "spin"
  /\ UNCHANGED <<net, ep_events, fd, buf>>

(* A write that does not block takes what fits ...                          *)
WritePiece ==
  /\ pc = "write" /\ buf # <<>>
  /\ LET c == file[fd] IN
       /\ conn[c].peer = "open" /\ Writable(conn[c])
       /\ \E k \in Written(conn[c], Head(buf)) : conn' = [conn EXCEPT ![c] = k]
  /\ buf' = Tail(buf)
  /\ UNCHANGED <<backlog, file, epoll, ep_events, fd, pc>>

(* ... and the rest is lost: nobody looks at what write returns.            *)
WriteFull ==
  /\ pc = "write" /\ buf # <<>>
  /\ ~Writable(conn[file[fd]])
  /\ buf' = <<>>
  /\ UNCHANGED <<net, file, epoll, ep_events, fd, pc>>

(* The client has gone; a reset that comes back is news, too.               *)
WriteToGone ==
  /\ pc = "write" /\ buf # <<>>
  /\ LET c == file[fd] IN
       /\ Closed(conn[c])
       /\ \E k \in Written(conn[c], Head(buf)) \cup {conn[c]} :
            /\ conn' = [conn EXCEPT ![c] = k]
            /\ IF k # conn[c] THEN News(c) ELSE UNCHANGED rdlist
       /\ pc' = IF Fatal(conn[c]) THEN "dead" ELSE "write"
  /\ buf' = <<>>
  /\ UNCHANGED <<backlog, file, interest, ep_events, fd>>

WriteDone ==
  /\ pc = "write" /\ buf = <<>>
  /\ pc' = "drain"
  /\ UNCHANGED <<net, file, epoll, ep_events, fd, buf>>

Batch == EndOfBatch \/ Accept \/ AcceptFails \/ Add \/ \E f \in Fds : Handle(f)
Drain == ReadData \/ ReadWouldBlock \/ ReadError \/ ReadEof
Write == WritePiece \/ WriteFull \/ WriteToGone \/ WriteDone

Server == EpollWait \/ Batch \/ Drain \/ Write

Next == Server \/ \E c \in Clients : Client(c)

Spec == Init /\ [][Next]_vars

(* The process runs whenever it can, and never waits for a client.          *)
FairSpec == Spec /\ WF_vars(Server)

-----------------------------------------------------------------------------
(* Every variable keeps its type.                                           *)
TypeOK ==
  /\ conn \in [Clients -> ConnType] /\ backlog \in SUBSET Clients
  /\ file \in [Fds -> Clients \cup {NoClient}]
  /\ interest \in SUBSET (Fds \cup {server_socket}) /\ rdlist \in SUBSET Fds
  /\ ep_events \in SUBSET (Fds \cup {server_socket})
  /\ fd \in Fds \cup {server_socket} /\ buf \in Seq(Nat)
  /\ pc \in {"wait", "batch", "accepted", "drain", "write", "spin", "dead"}

Unaccepted(f) == pc = "accepted" /\ f = fd
Handling(f)   == pc \in {"drain", "write"} /\ f = fd

(* What an edge-triggered server lives by: unread data, an error or the end *)
(* of a client is in epoll's list, or among the events not reached yet, or  *)
(* is being read.  It is never forgotten, although it is reported once.     *)
NoLostEdge ==
  pc # "dead" =>
    \A f \in Fds : IsOpen(f) /\ Readable(conn[file[f]]) =>
      f \in rdlist \/ f \in ep_events \/ Unaccepted(f) \/ Handling(f)

(* What a client gets back are pieces it sent, none twice, none out of      *)
(* order, none of another client's.                                         *)
Lossy == INSTANCE LossyEcho WITH
  sent <- [c \in Clients |-> conn[c].sent], echoed <- [c \in Clients |-> conn[c].out]
LossySpec == Lossy!Spec

(* The first client whose end is noticed is the last: the server reads its  *)
(* closed descriptor for ever, or SIGPIPE killed it, and whoever else is    *)
(* connected is never served again.                                         *)
LeaverEndsService ==
  \A c \in Clients :
    Closed(conn[c]) /\ (\E f \in Fds : file[f] = c) ~> [](pc \in {"spin", "dead"})
==============================================================================

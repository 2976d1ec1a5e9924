-------------------------- MODULE EpollEdge_proofs --------------------------
(* Proofs about ch17/echo_epetserv.cpp, for any clients, descriptors, batch  *)
(* and buffer sizes and amounts of data.                                     *)
EXTENDS EpollEdge, TcpConn_proofs

(* A client that has not connected is neither in the backlog nor behind a   *)
(* descriptor, so connecting makes no open descriptor readable.             *)
Dialled ==
  \A c \in Clients : conn[c].peer = "none" =>
    c \notin backlog /\ \A f \in Fds : file[f] # c

(* Every open descriptor is watched, but for the one just accepted.         *)
Watched == \A f \in Fds : IsOpen(f) => f \in interest \/ Unaccepted(f)

(* Where the loop is: epoll_wait finds no event left from the last time,    *)
(* and a descriptor being written to is open.                               *)
LoopInv ==
  /\ pc = "wait" => ep_events = {}
  /\ pc \in {"accepted", "drain", "write"} => fd \in Fds
  /\ pc \in {"accepted", "write"} => file[fd] # NoClient

(* What was echoed, what the server holds and what it has not read yet are  *)
(* pieces the client sent, and come in this order; some may be missing.     *)
Held(c) == IF pc = "write" /\ file[fd] = c THEN buf ELSE <<>>
Streams == \A c \in Clients : LossyStream(conn[c], Held(c))

IInv == TypeOK /\ Dialled /\ Watched /\ LoopInv /\ NoLostEdge /\ Streams

-----------------------------------------------------------------------------
LEMMA InvInit == Init => IInv
<1> SUFFICES ASSUME Init PROVE IInv
  OBVIOUS
<1> USE EdgeAssumption
<1>1. TypeOK
  <2>1. NoConn \in ConnType BY DEF NoConn, ConnType, PeerStates
  <2> QED BY <2>1 DEF Init, TypeOK
<1>2. Dialled /\ Watched /\ LoopInv /\ NoLostEdge
  BY DEF Init, Dialled, Watched, LoopInv, NoLostEdge, IsOpen
<1>3. Streams
  BY DEF Init, Streams, Held, NoConn, LossyStream, UpTo, Rising, Before
<1> QED BY <1>1, <1>2, <1>3 DEF IInv

(* What the server has open belongs to a client.                            *)
LEMMA OpenIsClient ==
  ASSUME TypeOK, LoopInv
  PROVE  /\ \A f \in Fds : file[f] # NoClient =>
              file[f] \in Clients /\ conn[file[f]] \in ConnType
         /\ pc = "write" =>
              fd \in Fds /\ file[fd] \in Clients /\ conn[file[fd]] \in ConnType
BY DEF TypeOK, LoopInv

-----------------------------------------------------------------------------
(* Types.                                                                   *)

LEMMA TypeStep == TypeOK /\ LoopInv /\ [Next]_vars => TypeOK'
<1> SUFFICES ASSUME TypeOK, LoopInv, [Next]_vars PROVE TypeOK'
  OBVIOUS
<1> USE EdgeAssumption DEF TypeOK, net, epoll
<1>1. ASSUME NEW c \in Clients, Client(c) PROVE TypeOK'
  <2>1. conn[c] \in ConnType OBVIOUS
  <2>a. \E k \in {Dial(conn[c]), Send(conn[c]), Receive(conn[c]), HangUp(conn[c])} :
          conn' = [conn EXCEPT ![c] = k]
    BY <1>1 DEF Client, Connect, Type, Show, Quit
  <2>2. conn' \in [Clients -> ConnType]
    BY <2>1, <2>a, ConnClosure
  <2>3. rdlist' \in SUBSET Fds /\ backlog' \in SUBSET Clients
    BY <1>1 DEF Client, Connect, Type, Show, Quit, News, IsOpen
  <2> QED BY <1>1, <2>2, <2>3 DEF Client
<1>2. CASE EpollWait
  BY <1>2 DEF EpollWait, Reportable
<1>3. CASE EndOfBatch \/ AcceptFails
  BY <1>3 DEF EndOfBatch, AcceptFails
<1>4. CASE Accept
  BY <1>4 DEF Accept
<1>5. CASE Add
  BY <1>5 DEF Add, LoopInv
<1>6. ASSUME NEW f \in Fds, Handle(f) PROVE TypeOK'
  BY <1>6 DEF Handle
<1>7. CASE ReadData
  <2>1. PICK n \in 1..Len(conn[file[fd]].in) :
          /\ buf' = Taken(conn[file[fd]], n)
          /\ conn' = [conn EXCEPT ![file[fd]] = Left(@, n)]
    BY <1>7 DEF ReadData
  <2>2. file[fd] \in Clients /\ conn[file[fd]] \in ConnType
    BY <1>7, OpenIsClient DEF ReadData, IsOpen
  <2>3. buf' \in Seq(Nat) /\ conn' \in [Clients -> ConnType]
    BY <2>1, <2>2, ReadClosure
  <2> QED BY <1>7, <2>3 DEF ReadData
<1>8. CASE ReadError
  <2>1. file[fd] \in Clients /\ conn[file[fd]] \in ConnType
    BY <1>8, OpenIsClient DEF ReadError, IsOpen
  <2>2. conn' \in [Clients -> ConnType]
    BY <1>8, <2>1, ConnClosure DEF ReadError
  <2> QED BY <1>8, <2>2 DEF ReadError
<1>9. CASE ReadWouldBlock \/ ReadEof
  BY <1>9 DEF ReadWouldBlock, ReadEof
<1>10. CASE WritePiece \/ WriteToGone
  <2> DEFINE c == file[fd]
  <2>1. pc = "write" /\ buf # <<>>
    BY <1>10 DEF WritePiece, WriteToGone
  <2>2. c \in Clients /\ conn[c] \in ConnType
    BY <2>1, OpenIsClient
  <2>3. Head(buf) \in Nat /\ Tail(buf) \in Seq(Nat) /\ <<>> \in Seq(Nat)
    BY <2>1
  <2>4. Written(conn[c], Head(buf)) \subseteq ConnType
    BY <2>2, <2>3, ConnClosure
  <2>5. conn' \in [Clients -> ConnType]
    BY <1>10, <2>2, <2>4 DEF WritePiece, WriteToGone
  <2>6. rdlist' \in SUBSET Fds
    BY <1>10 DEF WritePiece, WriteToGone, News, IsOpen
  <2>7. buf' \in Seq(Nat)
    BY <1>10, <2>3 DEF WritePiece, WriteToGone
  <2> QED BY <1>10, <2>5, <2>6, <2>7 DEF WritePiece, WriteToGone
<1>11. CASE WriteFull \/ WriteDone
  <2>1. <<>> \in Seq(Nat)
    OBVIOUS
  <2> QED BY <1>11, <2>1 DEF WriteFull, WriteDone
<1>12. CASE UNCHANGED vars
  BY <1>12 DEF vars
<1> QED
  BY <1>1, <1>2, <1>3, <1>4, <1>5, <1>6, <1>7, <1>8, <1>9, <1>10, <1>11, <1>12
  DEF Next, Server, Batch, Drain, Write

-----------------------------------------------------------------------------
(* Descriptors and the loop.                                                *)

LEMMA LoopStep == TypeOK /\ LoopInv /\ [Next]_vars => LoopInv'
<1> SUFFICES ASSUME TypeOK, LoopInv, [Next]_vars PROVE LoopInv'
  OBVIOUS
<1> USE EdgeAssumption DEF LoopInv
<1>t. file \in [Fds -> Clients \cup {NoClient}] /\ backlog \in SUBSET Clients
  BY DEF TypeOK
<1>1. ASSUME NEW c \in Clients, Client(c) PROVE LoopInv'
  BY <1>1 DEF Client
<1>2. CASE EpollWait \/ EndOfBatch \/ AcceptFails
  BY <1>2 DEF EpollWait, EndOfBatch, AcceptFails
<1>3. CASE Accept
  BY <1>3, <1>t DEF Accept
<1>4. CASE Add \/ ReadWouldBlock \/ ReadEof
  BY <1>4 DEF Add, ReadWouldBlock, ReadEof
<1>5. ASSUME NEW f \in Fds, Handle(f) PROVE LoopInv'
  BY <1>5 DEF Handle
<1>6. CASE ReadData \/ ReadError
  BY <1>6 DEF ReadData, ReadError, IsOpen
<1>7. CASE Write
  BY <1>7 DEF Write, WritePiece, WriteFull, WriteToGone, WriteDone
<1>8. CASE UNCHANGED vars
  BY <1>8 DEF vars
<1> QED BY <1>1, <1>2, <1>3, <1>4, <1>5, <1>6, <1>7, <1>8 DEF Next, Server, Batch, Drain

LEMMA WatchStep == TypeOK /\ LoopInv /\ Watched /\ [Next]_vars => Watched'
<1> SUFFICES ASSUME TypeOK, LoopInv, Watched, [Next]_vars PROVE Watched'
  OBVIOUS
<1> USE EdgeAssumption DEF Watched, IsOpen, Unaccepted, epoll
<1>t. file \in [Fds -> Clients \cup {NoClient}]
  BY DEF TypeOK
<1>1. ASSUME NEW c \in Clients, Client(c) PROVE Watched'
  BY <1>1 DEF Client
<1>2. CASE EpollWait \/ EndOfBatch \/ AcceptFails
  BY <1>2 DEF EpollWait, EndOfBatch, AcceptFails
<1>3. CASE Accept
  BY <1>3, <1>t DEF Accept
<1>4. CASE Add \/ ReadWouldBlock
  BY <1>4 DEF Add, ReadWouldBlock
<1>5. ASSUME NEW f \in Fds, Handle(f) PROVE Watched'
  BY <1>5 DEF Handle
<1>6. CASE ReadData \/ ReadError
  BY <1>6 DEF ReadData, ReadError
<1>7. CASE ReadEof
  BY <1>7, <1>t DEF ReadEof
<1>8. CASE Write
  BY <1>8 DEF Write, WritePiece, WriteFull, WriteToGone, WriteDone
<1>9. CASE UNCHANGED vars
  BY <1>9 DEF vars
<1> QED BY <1>1, <1>2, <1>3, <1>4, <1>5, <1>6, <1>7, <1>8, <1>9
  DEF Next, Server, Batch, Drain

(* The server never brings a client back to the state "none".               *)
LEMMA NoneFrame ==
  ASSUME TypeOK, LoopInv, [Next]_vars, NEW d \in Clients, conn'[d].peer = "none"
  PROVE  conn[d].peer = "none"
<1>t. conn \in [Clients -> ConnType] BY DEF TypeOK
<1>1. ASSUME NEW c \in Clients, Client(c) PROVE conn[d].peer = "none"
  BY <1>1, <1>t, PeerFrame DEF Client, Connect, Type, Show, Quit
<1>2. CASE ReadData \/ ReadError
  <2>1. file[fd] \in Clients /\ conn[file[fd]] \in ConnType
    BY <1>2, OpenIsClient DEF ReadData, ReadError, IsOpen
  <2> QED BY <1>2, <1>t, <2>1, PeerFrame DEF ReadData, ReadError
<1>3. CASE WritePiece \/ WriteToGone
  <2>1. file[fd] \in Clients /\ conn[file[fd]] \in ConnType
    BY <1>3, OpenIsClient DEF WritePiece, WriteToGone
  <2>2. PICK w \in Written(conn[file[fd]], Head(buf)) \cup {conn[file[fd]]} :
          conn' = [conn EXCEPT ![file[fd]] = w]
    BY <1>3 DEF WritePiece, WriteToGone
  <2>3. w.peer = "none" => conn[file[fd]].peer = "none"
    BY <2>1, <2>2, PeerFrame
  <2> QED BY <1>t, <2>1, <2>2, <2>3
<1>4. ASSUME conn' = conn PROVE conn[d].peer = "none"
  BY <1>4
<1>5. CASE EpollWait \/ EndOfBatch \/ Accept \/ AcceptFails \/ Add
  BY <1>4, <1>5 DEF EpollWait, EndOfBatch, Accept, AcceptFails, Add, net
<1>6. ASSUME NEW f \in Fds, Handle(f) PROVE conn[d].peer = "none"
  BY <1>4, <1>6 DEF Handle, net
<1>7. CASE ReadWouldBlock \/ ReadEof \/ WriteFull \/ WriteDone
  BY <1>4, <1>7 DEF ReadWouldBlock, ReadEof, WriteFull, WriteDone, net
<1>8. CASE UNCHANGED vars
  BY <1>4, <1>8 DEF vars, net
<1> QED BY <1>1, <1>2, <1>3, <1>5, <1>6, <1>7, <1>8 DEF Next, Server, Batch, Drain, Write


LEMMA DialledStep == TypeOK /\ LoopInv /\ Dialled /\ [Next]_vars => Dialled'
<1> SUFFICES ASSUME TypeOK, LoopInv, Dialled, [Next]_vars,
                    NEW d \in Clients, conn'[d].peer = "none"
             PROVE  d \notin backlog' /\ \A f \in Fds : file'[f] # d
  BY DEF Dialled
<1>t. /\ conn \in [Clients -> ConnType] /\ backlog \in SUBSET Clients
      /\ file \in [Fds -> Clients \cup {NoClient}]
  BY DEF TypeOK
<1>0. d \notin backlog /\ \A f \in Fds : file[f] # d
  BY NoneFrame DEF Dialled
<1>1. ASSUME NEW c \in Clients, Client(c)
      PROVE  d \notin backlog' /\ \A f \in Fds : file'[f] # d
  <2>1. Connect(c) => c # d
    BY <1>t, PeerFrame DEF Connect
  <2> QED BY <1>0, <1>1, <2>1 DEF Client, Connect, Type, Show, Quit
<1>2. CASE Accept
  BY <1>0, <1>2, <1>t DEF Accept
<1>3. CASE ReadEof
  BY <1>0, <1>3, <1>t, EdgeAssumption DEF ReadEof, net
<1>4. ASSUME UNCHANGED <<backlog, file>>
      PROVE  d \notin backlog' /\ \A f \in Fds : file'[f] # d
  BY <1>0, <1>4
<1>5. CASE EpollWait \/ EndOfBatch \/ AcceptFails \/ Add
  BY <1>4, <1>5 DEF EpollWait, EndOfBatch, AcceptFails, Add, net
<1>6. ASSUME NEW f \in Fds, Handle(f)
      PROVE  d \notin backlog' /\ \A g \in Fds : file'[g] # d
  BY <1>4, <1>6 DEF Handle, net
<1>7. CASE ReadData \/ ReadError \/ ReadWouldBlock
  BY <1>4, <1>7 DEF ReadData, ReadError, ReadWouldBlock, net
<1>8. CASE Write
  BY <1>4, <1>8 DEF Write, WritePiece, WriteFull, WriteToGone, WriteDone, net
<1>9. CASE UNCHANGED vars
  BY <1>4, <1>9 DEF vars, net
<1> QED BY <1>1, <1>2, <1>3, <1>5, <1>6, <1>7, <1>8, <1>9 DEF Next, Server, Batch, Drain

-----------------------------------------------------------------------------
(* No event is forgotten.                                                   *)

Noticed(f) == f \in rdlist \/ f \in ep_events \/ Unaccepted(f) \/ Handling(f)

(* A read, an error reported and a piece echoed make nothing readable that  *)
(* was not.                                                                 *)
LEMMA ReadableFrame ==
  ASSUME NEW k \in ConnType
  PROVE  /\ Readable(Receive(k)) => Readable(k)
         /\ \A n \in 1..Len(k.in) : Readable(k)
         /\ ErrorReady(k) => Readable(k)
         /\ \A s : Readable([k EXCEPT !.out = s]) => Readable(k)
<1>1. Receive(k).in = k.in /\ Receive(k).peer = k.peer
  BY DEF Receive, ConnType
<1>2. \A s : [k EXCEPT !.out = s].in = k.in /\ [k EXCEPT !.out = s].peer = k.peer
  BY DEF ConnType
<1>3. \A n \in 1..Len(k.in) : k.in # <<>>
  BY DEF ConnType
<1> QED BY <1>1, <1>2, <1>3 DEF Readable, DataReady, ErrorReady, EofReady

LEMMA EdgeStep ==
  TypeOK /\ Dialled /\ Watched /\ LoopInv /\ NoLostEdge /\ [Next]_vars => NoLostEdge'
<1> SUFFICES ASSUME TypeOK, Dialled, Watched, LoopInv, NoLostEdge, [Next]_vars,
                    pc' # "dead", NEW f \in Fds, file'[f] # NoClient,
                    Readable(conn'[file'[f]])
             PROVE  Noticed(f)'
  BY DEF NoLostEdge, Noticed, IsOpen
<1> USE EdgeAssumption
<1> DEFINE d == file[f]
<1>t. /\ conn \in [Clients -> ConnType] /\ backlog \in SUBSET Clients
      /\ file \in [Fds -> Clients \cup {NoClient}]
  BY DEF TypeOK
<1>0. pc # "dead" /\ d # NoClient /\ Readable(conn[d]) => Noticed(f)
  BY DEF NoLostEdge, Noticed, IsOpen
<1>o. d # NoClient => d \in Clients /\ conn[d] \in ConnType
  BY OpenIsClient
<1>1. ASSUME NEW c \in Clients, Client(c) PROVE Noticed(f)'
  <2>1. /\ pc # "dead" /\ UNCHANGED <<file, interest, ep_events, fd, pc>>
        /\ d \in Clients /\ conn[d] \in ConnType
    BY <1>1, <1>o DEF Client
  <2>2. rdlist \subseteq rdlist'
    BY <1>1 DEF Client, Connect, Type, Show, Quit, News
  <2>3. Noticed(f) => Noticed(f)'
    BY <2>1, <2>2 DEF Noticed, Unaccepted, Handling
  <2>4. CASE d # c
    <3>1. conn'[d] = conn[d]
      BY <1>1, <1>t, <2>4 DEF Client, Connect, Type, Show, Quit
    <3> QED BY <1>0, <2>1, <2>3, <3>1
  <2>5. CASE d = c
    <3>1. ~Connect(c)
      BY <2>5 DEF Dialled, Connect
    <3>2. CASE Show(c)
      <4>1. conn'[d] = Receive(conn[d])
        BY <1>t, <2>5, <3>2 DEF Show
      <4> QED BY <1>0, <2>1, <2>3, <4>1, ReadableFrame
    <3>3. CASE Type(c) \/ Quit(c)
      <4>1. f \in interest \/ Unaccepted(f)
        BY <2>1, <2>5 DEF Watched, IsOpen
      <4>2. f \in interest => f \in rdlist'
        BY <2>1, <2>5, <3>3 DEF Type, Quit, News, IsOpen
      <4> QED BY <2>1, <4>1, <4>2 DEF Noticed, Unaccepted
    <3> QED BY <1>1, <3>1, <3>2, <3>3 DEF Client
  <2> QED BY <2>4, <2>5
<1>2. CASE EpollWait
  <2>1. /\ pc = "wait" /\ ep_events = {} /\ UNCHANGED <<conn, file>>
        /\ rdlist' = (rdlist \cap Reportable) \ ep_events'
    BY <1>2 DEF EpollWait, LoopInv, net
  <2>2. f \in rdlist
    BY <1>0, <2>1 DEF Noticed, Unaccepted, Handling
  <2>3. f \in Reportable
    BY <2>1, <2>2 DEF Reportable, IsOpen
  <2> QED BY <2>1, <2>2, <2>3 DEF Noticed
<1>3. CASE EndOfBatch \/ AcceptFails
  <2>1. /\ pc = "batch" /\ UNCHANGED <<conn, file, rdlist>>
        /\ ep_events \ {server_socket} \subseteq ep_events'
    BY <1>3 DEF EndOfBatch, AcceptFails, net, epoll
  <2> QED BY <1>0, <2>1 DEF Noticed, Unaccepted, Handling
<1>4. CASE Accept
  <2>1. PICK c \in backlog, h \in Fds :
          /\ file' = [file EXCEPT ![h] = c] /\ fd' = h /\ pc = "batch"
          /\ pc' = "accepted" /\ UNCHANGED <<conn, rdlist>>
          /\ ep_events' = ep_events \ {server_socket}
    BY <1>4 DEF Accept, epoll
  <2>2. CASE f = h
    BY <2>1, <2>2 DEF Noticed, Unaccepted
  <2>3. CASE f # h
    BY <1>0, <1>t, <2>1, <2>3 DEF Noticed, Unaccepted, Handling
  <2> QED BY <2>2, <2>3
<1>5. CASE Add
  <2>1. /\ pc = "accepted" /\ UNCHANGED <<conn, file, ep_events>>
        /\ rdlist' = IF Readable(conn[file[fd]]) THEN rdlist \cup {fd} ELSE rdlist
    BY <1>5 DEF Add, net
  <2> QED BY <1>0, <2>1 DEF Noticed, Unaccepted, Handling
<1>6. ASSUME NEW g \in Fds, Handle(g) PROVE Noticed(f)'
  BY <1>0, <1>6 DEF Handle, net, epoll, Noticed, Unaccepted, Handling
<1>7. CASE ReadData \/ ReadError
  <2>1. /\ pc = "drain" /\ pc' \in {"drain", "write"}
        /\ UNCHANGED <<file, rdlist, ep_events, fd>> /\ IsOpen(fd)
    BY <1>7 DEF ReadData, ReadError, epoll
  <2>2. Readable(conn[file[fd]]) /\ \A c \in Clients : c # file[fd] => conn'[c] = conn[c]
    BY <1>7, <1>t, <2>1, OpenIsClient, ReadableFrame DEF ReadData, ReadError, IsOpen
  <2>3. Readable(conn[d])
    BY <1>o, <2>1, <2>2
  <2> QED BY <1>0, <2>1, <2>3 DEF Noticed, Unaccepted, Handling
<1>8. CASE ReadWouldBlock
  <2>1. UNCHANGED <<conn, file, rdlist, ep_events, fd>> /\ pc = "drain"
        /\ ~Readable(conn[file[fd]])
    BY <1>8 DEF ReadWouldBlock, net, epoll
  <2> QED BY <1>0, <2>1 DEF Noticed, Unaccepted, Handling
<1>9. CASE ReadEof
  <2>1. /\ UNCHANGED <<conn, ep_events, fd>> /\ pc = "drain" /\ IsOpen(fd)
        /\ rdlist' = rdlist \ {fd} /\ file' = [file EXCEPT ![fd] = NoClient]
    BY <1>9 DEF ReadEof, net
  <2>2. f # fd /\ file'[f] = d
    BY <1>t, <2>1
  <2> QED BY <1>0, <2>1, <2>2 DEF Noticed, Unaccepted, Handling
<1>10. CASE WritePiece
  <2>1. /\ pc = "write" /\ UNCHANGED <<file, rdlist, ep_events, fd, pc>>
        /\ conn[file[fd]].peer = "open"
        /\ \E k \in Written(conn[file[fd]], Head(buf)) : conn' = [conn EXCEPT ![file[fd]] = k]
    BY <1>10 DEF WritePiece, epoll
  <2>2. conn' = [conn EXCEPT ![file[fd]] =
                 [conn[file[fd]] EXCEPT !.out = Append(conn[file[fd]].out, Head(buf))]]
    BY <2>1 DEF Written
  <2>3. Readable(conn[d])
    BY <1>o, <1>t, <2>1, <2>2, ReadableFrame
  <2> QED BY <1>0, <2>1, <2>3 DEF Noticed, Unaccepted, Handling
<1>11. CASE WriteToGone
  <2> DEFINE c == file[fd]
  <2>1. PICK k \in Written(conn[c], Head(buf)) \cup {conn[c]} :
          /\ conn' = [conn EXCEPT ![c] = k]
          /\ IF k # conn[c] THEN News(c) ELSE UNCHANGED rdlist
    BY <1>11 DEF WriteToGone
  <2>2. pc = "write" /\ pc' = "write" /\ UNCHANGED <<file, interest, ep_events, fd>>
    BY <1>11 DEF WriteToGone
  <2>3. rdlist \subseteq rdlist'
    BY <2>1 DEF News
  <2>4. CASE d # c \/ k = conn[c]
    <3>1. conn'[d] = conn[d]
      BY <1>t, <1>o, <2>1, <2>2, <2>4
    <3> QED BY <1>0, <2>2, <2>3, <3>1 DEF Noticed, Unaccepted, Handling
  <2>5. CASE d = c /\ k # conn[c]
    <3>1. f \in interest
      BY <2>2, <2>5 DEF Watched, IsOpen, Unaccepted
    <3> QED BY <2>1, <2>2, <2>5, <3>1 DEF News, IsOpen, Noticed
  <2> QED BY <2>4, <2>5
<1>12. CASE WriteFull \/ WriteDone
  <2>1. /\ pc = "write" /\ pc' \in {"write", "drain"}
        /\ UNCHANGED <<conn, file, rdlist, ep_events, fd>>
    BY <1>12 DEF WriteFull, WriteDone, net, epoll
  <2> QED BY <1>0, <2>1 DEF Noticed, Unaccepted, Handling
<1>13. CASE UNCHANGED vars
  <2>1. UNCHANGED <<conn, file, rdlist, ep_events, fd, pc>>
    BY <1>13 DEF vars, net, epoll
  <2> QED BY <1>0, <2>1 DEF Noticed, Unaccepted, Handling
<1> QED
  BY <1>1, <1>2, <1>3, <1>4, <1>5, <1>6, <1>7, <1>8, <1>9, <1>10, <1>11, <1>12, <1>13
  DEF Next, Server, Batch, Drain, Write


-----------------------------------------------------------------------------
(* The echoed streams.                                                      *)

(* A connection that keeps its three sequences keeps its stream, also when  *)
(* what the server held is dropped.                                         *)
LEMMA StreamFrame ==
  ASSUME Streams, NEW c \in Clients,
         conn'[c].out = conn[c].out, conn'[c].in = conn[c].in,
         conn'[c].sent = conn[c].sent,
         Held(c)' = Held(c) \/ Held(c)' = <<>>
  PROVE  LossyStream(conn'[c], Held(c)')
<1>1. LossyStream(conn[c], Held(c)) BY DEF Streams
<1>2. LossyStream(conn'[c], Held(c)) /\ LossyStream(conn'[c], <<>>)
  BY <1>1, LossyFrame
<1> QED BY <1>2

LEMMA StreamSame ==
  ASSUME Streams, UNCHANGED conn,
         \A c \in Clients : Held(c)' = Held(c) \/ Held(c)' = <<>>
  PROVE  Streams'
BY StreamFrame DEF Streams

LEMMA ClientKeepsStream ==
  ASSUME TypeOK, Streams, NEW d \in Clients, Client(d) PROVE Streams'
<1>t. conn \in [Clients -> ConnType] /\ buf \in Seq(Nat) BY DEF TypeOK
<1> SUFFICES ASSUME NEW c \in Clients PROVE LossyStream(conn'[c], Held(c)')
  BY DEF Streams
<1>1. Held(c)' = Held(c) /\ Held(c) \in Seq(Nat)
  BY <1>t DEF Client, Held
<1>2. CASE conn'[c] = Send(conn[c])
  BY <1>t, <1>1, <1>2, LossySend DEF Streams
<1>3. CASE conn'[c] # Send(conn[c])
  <2>1. conn'[c] \in {conn[c], Dial(conn[c]), Receive(conn[c]), HangUp(conn[c])}
    BY <1>t, <1>3 DEF Client, Connect, Type, Show, Quit
  <2>2. conn'[c].out = conn[c].out /\ conn'[c].in = conn[c].in
        /\ conn'[c].sent = conn[c].sent
    BY <1>t, <2>1 DEF Dial, Receive, HangUp, ConnType
  <2> QED BY <1>1, <2>2, StreamFrame
<1> QED BY <1>2, <1>3

LEMMA ReadKeepsStream ==
  ASSUME TypeOK, LoopInv, Streams, ReadData PROVE Streams'
<1>t. conn \in [Clients -> ConnType] BY DEF TypeOK
<1> DEFINE d == file[fd]
<1>1. PICK n \in 1..Len(conn[d].in) :
        buf' = Taken(conn[d], n) /\ conn' = [conn EXCEPT ![d] = Left(@, n)]
  BY DEF ReadData
<1>2. /\ d \in Clients /\ pc = "drain" /\ pc' = "write" /\ UNCHANGED <<file, fd>>
  BY OpenIsClient DEF ReadData, IsOpen
<1> SUFFICES ASSUME NEW c \in Clients PROVE LossyStream(conn'[c], Held(c)')
  BY DEF Streams
<1>3. Held(c) = <<>> BY <1>2 DEF Held
<1>4. CASE c # d
  <2>1. Held(c)' = <<>> /\ conn'[c] = conn[c] BY <1>1, <1>2, <1>4, <1>t DEF Held
  <2> QED BY <2>1, StreamFrame
<1>5. CASE c = d
  <2>1. Held(c)' = Taken(conn[c], n) /\ conn'[c] = Left(conn[c], n)
    BY <1>1, <1>2, <1>5, <1>t DEF Held
  <2>2. LossyStream(conn[c], <<>>)
    BY <1>3 DEF Streams
  <2> QED BY <1>1, <1>5, <1>t, <2>1, <2>2, LossyRead
<1> QED BY <1>4, <1>5

LEMMA WriteKeepsStream ==
  ASSUME TypeOK, LoopInv, Streams, WritePiece
  PROVE  /\ Streams'
         /\ \E d \in Clients : \E x \in 1..conn[d].sent :
              /\ \A j \in 1..Len(conn[d].out) : conn[d].out[j] < x
              /\ conn' = [conn EXCEPT ![d] =
                           [conn[d] EXCEPT !.out = Append(conn[d].out, x)]]
<1>t. conn \in [Clients -> ConnType] /\ buf \in Seq(Nat) /\ buf # <<>>
  BY DEF TypeOK, WritePiece
<1> DEFINE d == file[fd]
           l == [conn[d] EXCEPT !.out = Append(conn[d].out, Head(buf))]
<1>1. /\ d \in Clients /\ buf' = Tail(buf) /\ pc = "write" /\ UNCHANGED <<file, fd, pc>>
      /\ conn' = [conn EXCEPT ![d] = l]
  BY OpenIsClient DEF WritePiece, Written
<1>2. /\ \A c \in Clients : c = d => Held(c) = buf /\ Held(c)' = Tail(buf)
      /\ \A c \in Clients : c # d => Held(c) = <<>> /\ Held(c)' = <<>>
  BY <1>1 DEF Held
<1>3. LossyStream(conn[d], buf)
  BY <1>1, <1>2 DEF Streams
<1>4. /\ Head(buf) \in 1..conn[d].sent
      /\ \A j \in 1..Len(conn[d].out) : conn[d].out[j] < Head(buf)
      /\ LossyStream(l, Tail(buf))
  BY <1>1, <1>3, <1>t, LossyWrite
<1>5. conn'[d] = l /\ \A c \in Clients : c # d => conn'[c] = conn[c]
  BY <1>1, <1>t
<1>6. ASSUME NEW c \in Clients PROVE LossyStream(conn'[c], Held(c)')
  <2>1. CASE c = d
    <3>1. conn'[c] = l /\ Held(c)' = Tail(buf) BY <1>2, <1>5, <2>1
    <3> QED BY <3>1, <1>4
  <2>2. CASE c # d
    BY <1>2, <1>5, <2>2, StreamFrame
  <2> QED BY <2>1, <2>2
<1>7. Streams'
  BY <1>6 DEF Streams
<1> QED BY <1>1, <1>4, <1>7

(* What a write to a client that has gone, or the report of its reset, does *)
(* to the connection is not seen in its sequences.                          *)
LEMMA GoneFrame ==
  ASSUME TypeOK, LoopInv, ReadError \/ WriteToGone
  PROVE  \A c \in Clients : /\ conn'[c].out = conn[c].out /\ conn'[c].in = conn[c].in
                             /\ conn'[c].sent = conn[c].sent
<1>t. conn \in [Clients -> ConnType] BY DEF TypeOK
<1> DEFINE d == file[fd]
<1>1. d \in Clients /\ conn[d] \in ConnType
  BY OpenIsClient DEF ReadError, IsOpen, WriteToGone
<1>2. CASE ReadError
  BY <1>1, <1>2, <1>t DEF ReadError, ErrorSeen, ConnType
<1>3. CASE WriteToGone
  <2>1. PICK k \in Written(conn[d], Head(buf)) \cup {conn[d]} :
          conn' = [conn EXCEPT ![d] = k]
    BY <1>3 DEF WriteToGone
  <2>2. Closed(conn[d]) BY <1>3 DEF WriteToGone
  <2>3. k.out = conn[d].out /\ k.in = conn[d].in /\ k.sent = conn[d].sent
    BY <1>1, <2>1, <2>2 DEF Written, Closed, ConnType
  <2> QED BY <1>1, <1>t, <2>1, <2>3
<1> QED BY <1>2, <1>3

LEMMA StreamStep == TypeOK /\ LoopInv /\ Streams /\ [Next]_vars => Streams'
<1> SUFFICES ASSUME TypeOK, LoopInv, Streams, [Next]_vars PROVE Streams'
  OBVIOUS
<1>1. CASE ReadError \/ WriteToGone
  <2>1. \A c \in Clients : Held(c)' = Held(c) \/ Held(c)' = <<>>
    BY <1>1 DEF ReadError, WriteToGone, Held
  <2> QED BY <1>1, <2>1, GoneFrame, StreamFrame DEF Streams
<1>2. CASE EpollWait \/ EndOfBatch \/ Accept \/ AcceptFails \/ Add
  <2>1. UNCHANGED conn /\ \A c \in Clients : Held(c)' = <<>>
    BY <1>2 DEF EpollWait, EndOfBatch, Accept, AcceptFails, Add, net, Held
  <2> QED BY <2>1, StreamSame
<1>3. ASSUME NEW f \in Fds, Handle(f) PROVE Streams'
  <2>1. UNCHANGED conn /\ \A c \in Clients : Held(c)' = <<>>
    BY <1>3 DEF Handle, net, Held
  <2> QED BY <2>1, StreamSame
<1>4. CASE ReadWouldBlock \/ ReadEof \/ WriteDone
  <2>1. UNCHANGED conn /\ \A c \in Clients : Held(c)' = <<>>
    BY <1>4 DEF ReadWouldBlock, ReadEof, WriteDone, net, Held
  <2> QED BY <2>1, StreamSame
<1>5. CASE WriteFull
  <2>1. UNCHANGED conn /\ \A c \in Clients : Held(c)' = <<>>
    BY <1>5 DEF WriteFull, net, Held
  <2> QED BY <2>1, StreamSame
<1>6. CASE UNCHANGED vars
  <2>1. UNCHANGED conn /\ \A c \in Clients : Held(c)' = Held(c)
    BY <1>6 DEF vars, net, Held
  <2> QED BY <2>1, StreamSame
<1> QED
  BY <1>1, <1>2, <1>3, <1>4, <1>5, <1>6, ClientKeepsStream, ReadKeepsStream, WriteKeepsStream
  DEF Next, Server, Batch, Drain, Write

-----------------------------------------------------------------------------
(* The theorems.                                                            *)

LEMMA Inductive == Spec => []IInv
<1>1. IInv /\ [Next]_vars => IInv'
  BY TypeStep, LoopStep, WatchStep, DialledStep, EdgeStep, StreamStep DEF IInv
<1> QED BY <1>1, InvInit, PTL DEF Spec

(* Every variable keeps its type.                                           *)
THEOREM TypeCorrect == Spec => []TypeOK
BY Inductive, PTL DEF IInv

(* Unread data, an error or the end of a client is never forgotten,         *)
(* although epoll reports it once and a batch may be too small for it.      *)
THEOREM NoEdgeIsLost == Spec => []NoLostEdge
BY Inductive, PTL DEF IInv

(* The server is a lossy echo server: a client gets back pieces it sent,    *)
(* none twice and none out of order, whatever a full buffer drops.          *)
THEOREM EdgeImplementsLossyEcho == Spec => LossySpec
<1>1. Init => Lossy!Init
  BY DEF Init, Lossy!Init, NoConn
<1>2. IInv /\ [Next]_vars => [Lossy!Next]_(Lossy!vars)
  <2> SUFFICES ASSUME IInv, [Next]_vars PROVE [Lossy!Next]_(Lossy!vars)
    OBVIOUS
  <2> USE DEF IInv
  <2> DEFINE S == [c \in Clients |-> conn[c].sent]
             O == [c \in Clients |-> conn[c].out]
  <2>t. conn \in [Clients -> ConnType]
    BY DEF TypeOK
  <2>1. ASSUME NEW c \in Clients, Type(c) PROVE Lossy!Next
    <3>1. conn' = [conn EXCEPT ![c] = Send(@)] BY <2>1 DEF Type
    <3>2. Send(conn[c]).out = conn[c].out /\ Send(conn[c]).sent = conn[c].sent + 1
      BY <2>t DEF Send, ConnType
    <3>3. S' = [S EXCEPT ![c] = @ + 1] BY <3>1, <3>2, <2>t
    <3>4. O' = O BY <3>1, <3>2, <2>t
    <3> QED BY <3>3, <3>4 DEF Lossy!Next, Lossy!Send
  <2>2. CASE WritePiece
    <3>0. PICK d \in Clients : \E x \in 1..conn[d].sent :
            /\ \A j \in 1..Len(conn[d].out) : conn[d].out[j] < x
            /\ conn' = [conn EXCEPT ![d] =
                         [conn[d] EXCEPT !.out = Append(conn[d].out, x)]]
      BY <2>2, WriteKeepsStream
    <3>1. PICK x \in 1..conn[d].sent :
            /\ \A j \in 1..Len(conn[d].out) : conn[d].out[j] < x
            /\ conn' = [conn EXCEPT ![d] =
                         [conn[d] EXCEPT !.out = Append(conn[d].out, x)]]
      BY <3>0
    <3> DEFINE k == [conn[d] EXCEPT !.out = Append(conn[d].out, x)]
    <3>2. k.sent = conn[d].sent /\ k.out = Append(conn[d].out, x)
      BY <2>t DEF ConnType
    <3>3. S' = S BY <3>1, <3>2, <2>t
    <3>4. O' = [O EXCEPT ![d] = Append(@, x)] BY <3>1, <3>2, <2>t
    <3>5. DOMAIN O[d] = 1..Len(conn[d].out) /\ O[d] = conn[d].out /\ S[d] = conn[d].sent
      BY <2>t DEF ConnType
    <3>6. \A j \in DOMAIN O[d] : O[d][j] < x BY <3>1, <3>5
    <3>7. x \in 1..S[d] BY <3>5
    <3> HIDE DEF S, O, k
    <3>8. Lossy!Echo(d)
      BY <3>3, <3>4, <3>6, <3>7 DEF Lossy!Echo, S, O
    <3> QED BY <3>8 DEF Lossy!Next
  <2>3. ASSUME \A c \in Clients : conn'[c].sent = conn[c].sent /\ conn'[c].out = conn[c].out
        PROVE  UNCHANGED Lossy!vars
    BY <2>3 DEF Lossy!vars
  <2>4. ASSUME NEW c \in Clients, Connect(c) \/ Show(c) \/ Quit(c)
        PROVE  UNCHANGED Lossy!vars
    BY <2>t, <2>4, <2>3, OutFrame, SentFrame DEF Connect, Show, Quit
  <2>5. CASE ReadData
    <3>1. file[fd] \in Clients /\ conn[file[fd]] \in ConnType
      BY <2>5, OpenIsClient DEF ReadData, IsOpen
    <3> QED BY <3>1, <2>t, <2>5, <2>3, OutFrame, SentFrame DEF ReadData
  <2>6. CASE ReadError \/ WriteToGone
    BY <2>6, <2>3, GoneFrame
  <2>7. CASE EpollWait \/ EndOfBatch \/ Accept \/ AcceptFails \/ Add
    BY <2>7, <2>3 DEF EpollWait, EndOfBatch, Accept, AcceptFails, Add, net
  <2>8. ASSUME NEW f \in Fds, Handle(f) PROVE UNCHANGED Lossy!vars
    BY <2>8, <2>3 DEF Handle, net
  <2>9. CASE ReadWouldBlock \/ ReadEof \/ WriteFull \/ WriteDone
    BY <2>9, <2>3 DEF ReadWouldBlock, ReadEof, WriteFull, WriteDone, net
  <2>10. CASE UNCHANGED vars
    BY <2>10, <2>3 DEF vars, net
  <2> QED
    BY <2>1, <2>2, <2>4, <2>5, <2>6, <2>7, <2>8, <2>9, <2>10
    DEF Next, Server, Batch, Drain, Write, Client
<1> QED BY <1>1, <1>2, Inductive, PTL DEF Spec, LossySpec, Lossy!Spec

=============================================================================

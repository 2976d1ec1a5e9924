-------------------------- MODULE EpollLevel_proofs --------------------------
(* Proofs about ch17/echo_epltserv.cpp and ch17/echo_epollserv.cpp, for any  *)
(* clients, descriptors, batch and buffer sizes and amounts of data.         *)
EXTENDS EpollLevel, TcpConn_proofs

(* A connection is held by at most one descriptor, and while it waits to be *)
(* accepted, or does not exist yet, by none.                                *)
OneHolder ==
  /\ \A f, g \in Fds : file[f] = file[g] /\ file[f] # NoClient => f = g
  /\ \A f \in Fds : file[f] \notin backlog
  /\ \A c \in Clients : conn[c].peer = "none" =>
       c \notin backlog /\ \A f \in Fds : file[f] # c

(* The descriptor being written to is open, and its event was taken.        *)
Writing == pc = "write" => fd \in Fds /\ file[fd] # NoClient /\ fd \notin ep_events

(* What a client that has not hung up sent is echoed, among the first n     *)
(* elements of h, which the server has still to write, or not read yet, in  *)
(* this order.  Where the server pads, there is padding in what was echoed  *)
(* and at the end of h.                                                     *)
Pieces(pads, h, n) ==
  /\ pads \/ n = Len(h)
  /\ \A j \in n + 1..Len(h) : h[j] = Padding
EchoedUpTo(s, b) ==
  /\ \A j \in 1..Len(s) : s[j] \in 0..b
  /\ \A x \in 1..b : \E j \in 1..Len(s) : s[j] = x
Split(pads, k, h, b, n) ==
  /\ EchoedUpTo(k.out, b) /\ Pieces(pads, h, n)
  /\ b + n + Len(k.in) = k.sent
  /\ \A j \in 1..n : h[j] = b + j
  /\ \A j \in 1..Len(k.in) : k.in[j] = b + n + j
PaddedStream(pads, k, h) ==
  \E b \in 0..k.sent : \E n \in 0..Len(h) : Split(pads, k, h, b, n)

Held(c) == IF pc = "write" /\ file[fd] = c THEN todo ELSE <<>>
Streams ==
  \A c \in Clients : ~Closed(conn[c]) => PaddedStream(WholeBuffer, conn[c], Held(c))

(* What is unread, what the buffer holds and what came out of it, somebody  *)
(* has sent.                                                                *)
Known(x) == x = Unset \/ \E d \in Clients : \E n \in 1..conn[d].sent : x = <<d, n>>
MemoryInv ==
  /\ \A c \in Clients : \A j \in 1..Len(conn[c].in) : conn[c].in[j] \in 1..conn[c].sent
  /\ \A i \in 1..BUF_SIZE : Known(buf[i])
  /\ Known(leak)

IInv == TypeOK /\ OneHolder /\ Writing /\ BatchValid /\ MemoryInv /\ Streams

-----------------------------------------------------------------------------
LEMMA InvInit == Init => IInv
<1> SUFFICES ASSUME Init PROVE IInv
  OBVIOUS
<1> USE EpollAssumption
<1>1. TypeOK
  <2>1. NoConn \in ConnType BY DEF NoConn, ConnType, PeerStates
  <2>2. Unset \in (Clients \cup {NoClient}) \X Nat
    BY DEF Unset
  <2>3. buf \in [1..BUF_SIZE -> (Clients \cup {NoClient}) \X Nat]
        /\ leak \in (Clients \cup {NoClient}) \X Nat
    BY <2>2 DEF Init
  <2>4. todo \in Seq(Nat) /\ Len(todo) <= BUF_SIZE
    <3>1. todo = <<>> /\ Len(<<>>) = 0 /\ 0 <= BUF_SIZE BY DEF Init
    <3> QED BY <3>1
  <2> QED BY <2>1, <2>3, <2>4 DEF Init, TypeOK
<1>2. OneHolder /\ Writing /\ BatchValid
  BY DEF Init, OneHolder, Writing, BatchValid
<1>3. PaddedStream(WholeBuffer, NoConn, <<>>)
  BY DEF PaddedStream, Split, NoConn, EchoedUpTo, Pieces
<1>4. Streams
  BY <1>3 DEF Init, Streams, Held
<1>5. MemoryInv
  <2>1. NoConn.in = <<>> /\ \A j \in 1..Len(<<>>) : FALSE BY DEF NoConn
  <2> QED BY <2>1 DEF Init, MemoryInv, Known
<1> QED BY <1>1, <1>2, <1>4, <1>5 DEF IInv

(* What the server has open belongs to a client.                            *)
LEMMA OpenIsClient ==
  ASSUME TypeOK, Writing
  PROVE  /\ \A f \in Fds : file[f] # NoClient =>
              file[f] \in Clients /\ conn[file[f]] \in ConnType
         /\ pc = "write" =>
              fd \in Fds /\ file[fd] \in Clients /\ conn[file[fd]] \in ConnType
BY DEF TypeOK, Writing

-----------------------------------------------------------------------------
(* Types.                                                                   *)

(* The answer s, and behind it padding up to the size of the buffer.        *)
LEMMA ReplyIs ==
  ASSUME NEW s \in Seq(Nat), Len(s) <= BUF_SIZE
  PROVE  /\ Reply(s) \in Seq(Nat) /\ Len(Reply(s)) <= BUF_SIZE
         /\ Len(s) <= Len(Reply(s)) /\ (WholeBuffer \/ Len(Reply(s)) = Len(s))
         /\ \A j \in 1..Len(s) : Reply(s)[j] = s[j]
         /\ \A j \in Len(s) + 1..Len(Reply(s)) : Reply(s)[j] = Padding
<1> DEFINE m == BUF_SIZE - Len(s)
           p == [i \in 1..m |-> Padding]
<1>1. BUF_SIZE \in Nat /\ Len(s) \in Nat /\ m \in Nat
  BY EpollAssumption
<1>2. p \in Seq(Nat) /\ Len(p) = m /\ \A i \in 1..m : p[i] = Padding
  <2>1. p \in [1..m -> Nat] BY DEF Padding
  <2> HIDE DEF m
  <2> QED BY <1>1, <2>1
<1>3. CASE WholeBuffer
  <2>1. Reply(s) = s \o p BY <1>3 DEF Reply
  <2>2. m + Len(s) = BUF_SIZE BY <1>1
  <2> HIDE DEF m, p
  <2>3. /\ s \o p \in Seq(Nat) /\ Len(s \o p) = Len(s) + m
        /\ \A j \in 1..Len(s) : (s \o p)[j] = s[j]
        /\ \A j \in Len(s) + 1..Len(s) + m : (s \o p)[j] = p[j - Len(s)]
    BY <1>1, <1>2
  <2>4. \A j \in Len(s) + 1..Len(s) + m : j - Len(s) \in 1..m
    BY <1>1
  <2> QED BY <1>1, <1>2, <1>3, <2>1, <2>2, <2>3, <2>4
<1>4. CASE ~WholeBuffer
  BY <1>1, <1>4 DEF Reply
<1> QED BY <1>3, <1>4

(* After a read of n pieces.                                                *)
LEMMA ReadReply ==
  ASSUME NEW k \in ConnType, NEW n \in 1..Len(k.in), n <= BUF_SIZE
  PROVE  Taken(k, n) \in Seq(Nat) /\ Len(Taken(k, n)) = n /\ Len(Taken(k, n)) <= BUF_SIZE
BY ReadClosure, ReadSplits

LEMMA EmptyReply == Reply(<<>>) \in Seq(Nat) /\ Len(Reply(<<>>)) <= BUF_SIZE
<1>1. <<>> \in Seq(Nat) /\ Len(<<>>) = 0 /\ 0 <= BUF_SIZE
  BY EpollAssumption
<1> QED BY <1>1, ReplyIs

(* What is left to write ends where the buffer ends.                        *)
LEMMA PlaceInBuf ==
  ASSUME TypeOK, todo # <<>>
  PROVE  BUF_SIZE - Len(todo) + 1 \in 1..BUF_SIZE
<1>1. Len(todo) \in Nat /\ Len(todo) > 0 /\ Len(todo) <= BUF_SIZE /\ BUF_SIZE \in Nat
  BY EpollAssumption DEF TypeOK
<1> QED BY <1>1

LEMMA TypeStep == TypeOK /\ Writing /\ [Next]_vars => TypeOK'
<1> SUFFICES ASSUME TypeOK, Writing, [Next]_vars PROVE TypeOK'
  OBVIOUS
<1> USE EpollAssumption DEF TypeOK, net, memory
<1>p. program' = program
  BY DEF Next, vars
<1>1. ASSUME NEW c \in Clients, Client(c) PROVE TypeOK'
  <2>1. conn[c] \in ConnType OBVIOUS
  <2>2. conn' \in [Clients -> ConnType]
    BY <1>1, <2>1, ConnClosure DEF Client, Connect, Type, Show, Quit
  <2>3. backlog' \in SUBSET Clients
    BY <1>1 DEF Client, Connect, Type, Show, Quit
  <2> QED BY <1>1, <1>p, <2>2, <2>3 DEF Client
<1>2. CASE EpollWait
  BY <1>2, <1>p DEF EpollWait
<1>3. CASE EndOfBatch \/ AcceptFails
  BY <1>3, <1>p DEF EndOfBatch, AcceptFails, Take
<1>4. CASE Accept
  BY <1>4, <1>p DEF Accept, Take
<1>5. ASSUME NEW f \in Fds, ReadData(f) PROVE TypeOK'
  <2>1. PICK n \in 1..Len(conn[file[f]].in) :
          /\ n <= BUF_SIZE
          /\ buf' = Stored(file[f], Taken(conn[file[f]], n))
          /\ todo' = Reply(Taken(conn[file[f]], n))
          /\ conn' = [conn EXCEPT ![file[f]] = Left(@, n)]
    BY <1>5 DEF ReadData
  <2>2. file[f] \in Clients /\ conn[file[f]] \in ConnType
    BY <1>5, OpenIsClient DEF ReadData, IsOpen
  <2>3. todo' \in Seq(Nat) /\ Len(todo') <= BUF_SIZE
    BY <2>1, <2>2, ReadReply, ReplyIs
  <2>4. conn' \in [Clients -> ConnType]
    BY <2>1, <2>2, ReadClosure
  <2>5. buf' \in [1..BUF_SIZE -> (Clients \cup {NoClient}) \X Nat]
    <3>1. PICK t \in Seq(Nat) : t = Taken(conn[file[f]], n) BY <2>1, <2>2, ReadReply
    <3>2. \A i \in 1..Len(t) : t[i] \in Nat BY SMTT(20), <3>1
    <3> QED BY SMTT(20), <2>1, <2>2, <3>1, <3>2 DEF Stored
  <2> QED BY <1>5, <1>p, <2>3, <2>4, <2>5 DEF ReadData, Take
<1>6. ASSUME NEW f \in Fds, ReadError(f) PROVE TypeOK'
  <2>1. file[f] \in Clients /\ conn[file[f]] \in ConnType
    BY <1>6, OpenIsClient DEF ReadError, IsOpen
  <2>2. conn' \in [Clients -> ConnType]
    BY <1>6, <2>1, ConnClosure DEF ReadError
  <2>3. todo' \in Seq(Nat) /\ Len(todo') <= BUF_SIZE /\ pc' \in {"write", pc}
    <3>1. todo' \in {Reply(<<>>), todo} /\ pc' \in {"write", pc} BY <1>6 DEF ReadError
    <3> QED BY <3>1, EmptyReply
  <2> QED BY <1>6, <1>p, <2>2, <2>3 DEF ReadError, Take, memory
<1>7. ASSUME NEW f \in Fds, ReadEof(f) PROVE TypeOK'
  BY <1>7, <1>p DEF ReadEof, Take
<1>8. CASE WritePiece \/ WriteToGone
  <2> DEFINE c == file[fd]
  <2>1. pc = "write" /\ todo # <<>>
    BY <1>8 DEF WritePiece, WriteToGone
  <2>2. c \in Clients /\ conn[c] \in ConnType
    BY <2>1, OpenIsClient
  <2>3. Head(todo) \in Nat /\ Tail(todo) \in Seq(Nat) /\ <<>> \in Seq(Nat)
    BY <2>1
  <2>4. Written(conn[c], Head(todo)) \subseteq ConnType
    BY <2>2, <2>3, ConnClosure
  <2>5. conn' \in [Clients -> ConnType]
    BY <1>8, <2>2, <2>4 DEF WritePiece, WriteToGone
  <2>6. todo' \in Seq(Nat) /\ Len(todo') <= BUF_SIZE
    <3>1. todo' \in {Tail(todo), <<>>} BY <1>8 DEF WritePiece, WriteToGone
    <3>2. Len(Tail(todo)) <= BUF_SIZE /\ Len(<<>>) <= BUF_SIZE
      <4>1. Len(Tail(todo)) = Len(todo) - 1 /\ Len(todo) \in Nat /\ Len(<<>>) = 0
        BY <2>1
      <4> QED BY <4>1
    <3> QED BY <2>3, <3>1, <3>2
  <2>7. buf' = buf /\ leak' \in (Clients \cup {NoClient}) \X Nat
    <3>1. CASE WritePiece
      <4>1. buf' = buf /\ leak' \in {buf[BUF_SIZE - Len(todo) + 1], leak}
        BY <3>1 DEF WritePiece
      <4> QED BY <2>1, <4>1, PlaceInBuf
    <3>2. CASE WriteToGone
      BY <3>2 DEF WriteToGone, memory
    <3> QED BY <1>8, <3>1, <3>2
  <2> QED BY <1>8, <1>p, <2>5, <2>6, <2>7 DEF WritePiece, WriteToGone
<1>9. CASE WriteDone
  BY <1>9, <1>p DEF WriteDone
<1>10. CASE UNCHANGED vars
  BY <1>10 DEF vars
<1> QED
  BY <1>1, <1>2, <1>3, <1>4, <1>5, <1>6, <1>7, <1>8, <1>9, <1>10
  DEF Next, Server, Batch, Write

-----------------------------------------------------------------------------
(* Descriptors and the loop.                                                *)

LEMMA WritingStep == TypeOK /\ Writing /\ [Next]_vars => Writing'
<1> SUFFICES ASSUME TypeOK, Writing, [Next]_vars PROVE Writing'
  OBVIOUS
<1> USE EpollAssumption DEF Writing, Take, net
<1>1. ASSUME NEW c \in Clients, Client(c) PROVE Writing'
  BY <1>1 DEF Client
<1>2. CASE EpollWait \/ EndOfBatch \/ AcceptFails \/ Accept
  BY <1>2 DEF EpollWait, EndOfBatch, AcceptFails, Accept
<1>3. ASSUME NEW f \in Fds, ReadData(f) \/ ReadError(f) \/ ReadEof(f) PROVE Writing'
  BY <1>3 DEF ReadData, ReadError, ReadEof, IsOpen
<1>4. CASE Write
  BY <1>4 DEF Write, WritePiece, WriteToGone, WriteDone
<1>5. CASE UNCHANGED vars
  BY <1>5 DEF vars
<1> QED BY <1>1, <1>2, <1>3, <1>4, <1>5 DEF Next, Server, Batch

(* The server never brings a client back to the state "none".               *)
LEMMA NoneFrame ==
  ASSUME TypeOK, Writing, [Next]_vars, NEW d \in Clients, conn'[d].peer = "none"
  PROVE  conn[d].peer = "none"
<1>t. conn \in [Clients -> ConnType] BY DEF TypeOK
<1>1. ASSUME NEW c \in Clients, Client(c) PROVE conn[d].peer = "none"
  BY <1>1, <1>t, PeerFrame DEF Client, Connect, Type, Show, Quit
<1>2. ASSUME NEW f \in Fds, ReadData(f) \/ ReadError(f) PROVE conn[d].peer = "none"
  <2>1. file[f] \in Clients /\ conn[file[f]] \in ConnType
    BY <1>2, OpenIsClient DEF ReadData, ReadError, IsOpen
  <2> QED BY <1>2, <1>t, <2>1, PeerFrame DEF ReadData, ReadError
<1>3. CASE WritePiece \/ WriteToGone
  <2>1. file[fd] \in Clients /\ conn[file[fd]] \in ConnType
    BY <1>3, OpenIsClient DEF WritePiece, WriteToGone
  <2>2. PICK w \in Written(conn[file[fd]], Head(todo)) \cup {conn[file[fd]]} :
          conn' = [conn EXCEPT ![file[fd]] = w]
    BY <1>3 DEF WritePiece, WriteToGone
  <2>3. w.peer = "none" => conn[file[fd]].peer = "none"
    BY <2>1, <2>2, PeerFrame
  <2> QED BY <1>t, <2>1, <2>2, <2>3
<1>4. ASSUME conn' = conn PROVE conn[d].peer = "none"
  BY <1>4
<1>5. CASE EpollWait \/ EndOfBatch \/ Accept \/ AcceptFails \/ WriteDone
  BY <1>4, <1>5 DEF EpollWait, EndOfBatch, Accept, AcceptFails, WriteDone, net
<1>6. ASSUME NEW f \in Fds, ReadEof(f) PROVE conn[d].peer = "none"
  BY <1>4, <1>6 DEF ReadEof, net
<1>7. CASE UNCHANGED vars
  BY <1>4, <1>7 DEF vars, net
<1> QED BY <1>1, <1>2, <1>3, <1>5, <1>6, <1>7 DEF Next, Server, Batch, Write

LEMMA HolderStep == TypeOK /\ Writing /\ OneHolder /\ [Next]_vars => OneHolder'
<1> SUFFICES ASSUME TypeOK, Writing, OneHolder, [Next]_vars PROVE OneHolder'
  OBVIOUS
<1> USE EpollAssumption
<1>t. /\ conn \in [Clients -> ConnType] /\ backlog \in SUBSET Clients
      /\ file \in [Fds -> Clients \cup {NoClient}]
  BY DEF TypeOK
<1>n. \A d \in Clients : conn'[d].peer = "none" => conn[d].peer = "none"
  BY NoneFrame
<1>1. ASSUME NEW c \in Clients, Client(c) PROVE OneHolder'
  <2>1. file' = file BY <1>1 DEF Client
  <2>2. CASE Connect(c)
    <3>1. conn[c].peer = "none" /\ conn'[c].peer = "open" /\ backlog' = backlog \cup {c}
      BY <1>t, <2>2, PeerFrame DEF Connect
    <3> QED BY <1>n, <2>1, <3>1 DEF OneHolder
  <2>3. CASE backlog' = backlog
    BY <1>n, <2>1, <2>3 DEF OneHolder
  <2> QED BY <1>1, <2>2, <2>3 DEF Client, Type, Show, Quit
<1>2. CASE Accept
  BY <1>2, <1>t, <1>n DEF Accept, LowestFree, OneHolder
<1>3. ASSUME NEW f \in Fds, ReadEof(f) PROVE OneHolder'
  BY <1>3, <1>t, <1>n DEF ReadEof, OneHolder, net
<1>4. ASSUME UNCHANGED <<backlog, file>> PROVE OneHolder'
  BY <1>4, <1>n DEF OneHolder
<1>5. CASE EpollWait \/ EndOfBatch \/ AcceptFails
  BY <1>4, <1>5 DEF EpollWait, EndOfBatch, AcceptFails, net
<1>6. ASSUME NEW f \in Fds, ReadData(f) \/ ReadError(f) PROVE OneHolder'
  BY <1>4, <1>6 DEF ReadData, ReadError
<1>7. CASE Write
  BY <1>4, <1>7 DEF Write, WritePiece, WriteToGone, WriteDone, net
<1>8. CASE UNCHANGED vars
  BY <1>4, <1>8 DEF vars, net
<1> QED BY <1>1, <1>2, <1>3, <1>5, <1>6, <1>7, <1>8 DEF Next, Server, Batch

-----------------------------------------------------------------------------
(* The events of a batch stay good.                                         *)

(* What a client does leaves a readable connection readable.                *)
LEMMA ReadableStays ==
  ASSUME NEW k \in ConnType, Readable(k)
  PROVE  /\ Readable(Send(k)) /\ Readable(Receive(k))
         /\ k.peer = "open" => Readable(HangUp(k))
<1>1. k.in \in Seq(Nat) BY DEF ConnType
<1>2. Send(k).in # <<>>
  <2>1. Send(k).in = Append(k.in, k.sent + 1) BY DEF Send, ConnType
  <2>2. Len(Send(k).in) = Len(k.in) + 1 /\ Len(k.in) \in Nat BY <1>1, <2>1
  <2> QED BY <2>2
<1>3. /\ Receive(k).in = k.in /\ Receive(k).peer = k.peer
      /\ HangUp(k).in = k.in
  BY DEF Receive, HangUp, ConnType
<1> QED BY <1>2, <1>3 DEF Readable, DataReady, ErrorReady, EofReady

(* An event stays true while its descriptor, and the connection behind it,  *)
(* are left alone.                                                          *)
LEMMA ReadyFrame ==
  ASSUME NEW f, Ready(f), f = server_socket => backlog \subseteq backlog',
         f # server_socket => file'[f] = file[f] /\ conn'[file[f]] = conn[file[f]]
  PROVE  Ready(f)'
BY DEF Ready, IsOpen

LEMMA BatchStep ==
  TypeOK /\ OneHolder /\ Writing /\ BatchValid /\ [Next]_vars => BatchValid'
<1> SUFFICES ASSUME TypeOK, OneHolder, Writing, BatchValid, [Next]_vars,
                    pc' \in {"batch", "write"}, NEW f \in ep_events'
             PROVE  Ready(f)'
  BY DEF BatchValid
<1> USE EpollAssumption
<1>t. /\ conn \in [Clients -> ConnType] /\ backlog \in SUBSET Clients
      /\ file \in [Fds -> Clients \cup {NoClient}]
      /\ ep_events \in SUBSET (Fds \cup {server_socket}) /\ server_socket \notin Fds
  BY DEF TypeOK
<1>0. pc \in {"batch", "write"} /\ f \in ep_events => Ready(f) /\ f \in Fds \cup {server_socket}
  BY <1>t DEF BatchValid
<1>1. ASSUME NEW c \in Clients, Client(c) PROVE Ready(f)'
  <2>1. /\ Ready(f) /\ f \in Fds \cup {server_socket} /\ file' = file
        /\ backlog \subseteq backlog'
    BY <1>0, <1>1 DEF Client, Connect, Type, Show, Quit
  <2>2. CASE f = server_socket
    BY <2>1, <2>2, ReadyFrame
  <2>3. CASE f # server_socket /\ file[f] # c
    <3>1. conn'[file[f]] = conn[file[f]]
      BY <1>1, <1>t, <2>1, <2>3 DEF Client, Connect, Type, Show, Quit, Ready, IsOpen
    <3> QED BY <2>1, <2>3, <3>1, ReadyFrame
  <2>4. CASE f # server_socket /\ file[f] = c
    <3>1. Readable(conn[c]) /\ conn[c] \in ConnType /\ f \in Fds
      BY <1>t, <2>1, <2>4 DEF Ready
    <3>2. ~Connect(c)
      BY <2>4, <3>1 DEF OneHolder, Connect
    <3>3. Readable(conn'[c])
      BY <1>1, <1>t, <3>1, <3>2, ReadableStays DEF Client, Type, Show, Quit
    <3> QED BY <2>1, <2>4, <3>1, <3>3 DEF Ready, IsOpen
  <2> QED BY <2>2, <2>3, <2>4
<1>2. CASE EpollWait
  <2>1. Ready(f) /\ UNCHANGED <<conn, backlog, file>>
    BY <1>2 DEF EpollWait, net
  <2> QED BY <2>1, ReadyFrame
<1>3. CASE AcceptFails \/ EndOfBatch
  <2>1. Ready(f) /\ UNCHANGED <<conn, backlog, file>>
    BY <1>0, <1>3 DEF AcceptFails, EndOfBatch, Take, net
  <2> QED BY <2>1, ReadyFrame
<1>4. CASE Accept
  <2>1. PICK h \in Fds, c \in backlog :
          /\ file[h] = NoClient /\ file' = [file EXCEPT ![h] = c]
    BY <1>4 DEF Accept, LowestFree
  <2>2. Ready(f) /\ f # server_socket /\ UNCHANGED conn
    BY <1>0, <1>4 DEF Accept, Take
  <2>3. f # h
    BY <2>1, <2>2 DEF Ready, IsOpen
  <2> QED BY <1>t, <2>1, <2>2, <2>3, ReadyFrame
<1>5. ASSUME NEW g \in Fds, ReadData(g) \/ ReadError(g) PROVE Ready(f)'
  <2>1. /\ Ready(f) /\ f # g /\ f \in Fds \cup {server_socket} /\ UNCHANGED <<backlog, file>>
        /\ file[g] # NoClient /\ \A c \in Clients : c # file[g] => conn'[c] = conn[c]
    BY <1>0, <1>5, <1>t DEF ReadData, ReadError, Take, IsOpen
  <2>2. f # server_socket => file[f] # file[g] /\ file[f] \in Clients
    BY <1>t, <2>1 DEF OneHolder, Ready, IsOpen
  <2> QED BY <2>1, <2>2, ReadyFrame
<1>6. ASSUME NEW g \in Fds, ReadEof(g) PROVE Ready(f)'
  <2>1. /\ Ready(f) /\ f # g /\ UNCHANGED <<backlog, conn>>
        /\ file' = [file EXCEPT ![g] = NoClient]
    BY <1>0, <1>6 DEF ReadEof, Take, net
  <2> QED BY <1>t, <2>1, ReadyFrame
<1>7. CASE Write
  <2>1. /\ pc = "write" /\ UNCHANGED <<backlog, file, ep_events>>
        /\ fd \in Fds /\ file[fd] # NoClient /\ fd # f
    BY <1>7 DEF Write, WritePiece, WriteToGone, WriteDone, Writing, net
  <2>2. Ready(f) /\ f \in Fds \cup {server_socket}
    BY <1>0, <2>1
  <2>3. \A c \in Clients : c # file[fd] => conn'[c] = conn[c]
    BY <1>7, <1>t DEF Write, WritePiece, WriteToGone, WriteDone, net
  <2>4. f # server_socket => file[f] # file[fd] /\ file[f] \in Clients
    BY <1>t, <2>1, <2>2 DEF OneHolder, Ready, IsOpen
  <2> QED BY <2>1, <2>2, <2>3, <2>4, ReadyFrame
<1>8. CASE UNCHANGED vars
  <2>1. Ready(f) /\ UNCHANGED <<conn, backlog, file>>
    BY <1>0, <1>8 DEF vars, net
  <2> QED BY <2>1, ReadyFrame
<1> QED
  BY <1>1, <1>2, <1>3, <1>4, <1>5, <1>6, <1>7, <1>8 DEF Next, Server, Batch

-----------------------------------------------------------------------------
(* The echoed streams: lemmas on one connection.                            *)

(* It depends on the three sequences and on sent.                           *)
LEMMA PaddedFrame ==
  ASSUME NEW pads, NEW k, NEW l, NEW h, PaddedStream(pads, k, h),
         l.out = k.out, l.in = k.in, l.sent = k.sent
  PROVE  PaddedStream(pads, l, h)
<1>1. \A b, n : Split(pads, k, h, b, n) => Split(pads, l, h, b, n)
  BY DEF Split
<1> QED BY <1>1 DEF PaddedStream

LEMMA PaddedSend ==
  ASSUME NEW pads, NEW k \in ConnType, NEW h \in Seq(Nat), PaddedStream(pads, k, h)
  PROVE  PaddedStream(pads, Send(k), h)
<1> DEFINE l == Send(k)
           s == k.sent
           q == Len(k.in)
           in == k.in
           lin == l.in
<1>1. k.in \in Seq(Nat) /\ s \in Nat /\ q \in Nat
  BY DEF ConnType
<1>2. l.out = k.out /\ l.sent = s + 1 /\ lin = Append(in, s + 1)
  BY DEF Send, ConnType
<1>3. Len(lin) = q + 1 /\ lin[q + 1] = s + 1 /\ \A j \in 1..q : lin[j] = in[j]
  BY <1>1, <1>2
<1>4. PICK b \in 0..s, n \in 0..Len(h) :
        /\ EchoedUpTo(k.out, b) /\ Pieces(pads, h, n)
        /\ b + n + q = s
        /\ \A j \in 1..n : h[j] = b + j
        /\ \A j \in 1..q : in[j] = b + n + j
  BY DEF PaddedStream, Split
<1> HIDE DEF l, s, q, in, lin
<1>5. b \in Nat /\ n \in Nat /\ b \in 0..s + 1 /\ b + n + (q + 1) = s + 1
  BY <1>1, <1>4
<1>6. ASSUME NEW j \in 1..q + 1 PROVE lin[j] = b + n + j
  <2>1. CASE j = q + 1 BY <1>3, <1>5, <2>1
  <2>2. CASE j \in 1..q BY <1>3, <1>4, <2>2
  <2> QED BY <1>1, <2>1, <2>2
<1>7. Split(pads, l, h, b, n)
  BY <1>2, <1>3, <1>4, <1>5, <1>6 DEF Split, lin
<1>8. PaddedStream(pads, l, h)
  BY <1>2, <1>4, <1>5, <1>7 DEF PaddedStream
<1> QED BY <1>8 DEF l

(* What is read is held, with padding behind it or without.                 *)
LEMMA PaddedRead ==
  ASSUME NEW pads, NEW k \in ConnType, NEW n \in 1..Len(k.in), PaddedStream(pads, k, <<>>),
         NEW h \in Seq(Nat), n <= Len(h), pads \/ Len(h) = n,
         \A j \in 1..n : h[j] = Taken(k, n)[j],
         \A j \in n + 1..Len(h) : h[j] = Padding
  PROVE  PaddedStream(pads, Left(k, n), h)
<1> DEFINE l == Left(k, n)
           t == Taken(k, n)
           s == k.sent
           q == Len(k.in)
           in == k.in
           lin == l.in
<1>1. l.out = k.out /\ l.sent = s
  BY DEF Left, ConnType
<1>2. s \in Nat /\ q \in Nat /\ n \in 1..q
  BY DEF ConnType
<1>3. /\ Len(t) = n /\ Len(lin) = q - n
      /\ \A j \in 1..n : t[j] = in[j]
      /\ \A j \in 1..q - n : lin[j] = in[j + n]
  BY ReadSplits
<1>4. PICK b \in 0..s :
        /\ EchoedUpTo(k.out, b) /\ b + 0 + q = s
        /\ \A j \in 1..q : in[j] = b + 0 + j
  <2>1. Len(<<>>) = 0 /\ \A m \in 0..0 : m = 0
    OBVIOUS
  <2>2. PICK b \in 0..s : Split(pads, k, <<>>, b, 0)
    BY <2>1 DEF PaddedStream
  <2> QED BY <2>2 DEF Split
<1>5. t \in Seq(Nat)
  BY ReadClosure
<1>6. /\ n \in 0..Len(h) /\ Pieces(pads, h, n)
      /\ \A j \in 1..n : h[j] = t[j]
  BY <1>2 DEF Pieces
<1> HIDE DEF l, t, s, q, in, lin
<1>7. \A j \in 1..n : j \in 1..q
  BY <1>2
<1>8. ASSUME NEW j \in 1..n PROVE h[j] = b + j
  <2>1. h[j] = b + 0 + j BY <1>3, <1>4, <1>6, <1>7
  <2> QED BY <1>2, <2>1
<1>9. ASSUME NEW j \in 1..q - n PROVE lin[j] = b + n + j
  <2>1. j + n \in 1..q BY <1>2
  <2>2. lin[j] = b + 0 + (j + n) BY <1>3, <1>4, <2>1
  <2> QED BY <1>2, <2>2
<1>10. b + n + (q - n) = s
  BY <1>2, <1>4
<1>11. Split(pads, l, h, b, n)
  BY <1>1, <1>3, <1>4, <1>6, <1>8, <1>9, <1>10 DEF Split, s, lin
<1>12. PaddedStream(pads, l, h)
  BY <1>1, <1>4, <1>6, <1>11 DEF PaddedStream
<1> QED BY <1>12 DEF l

(* What is written is padding, or the first piece that was not echoed.      *)
NextPiece(k, x) ==
  /\ x \in 1..k.sent /\ \A j \in 1..Len(k.out) : k.out[j] # x
  /\ \A y \in 1..x - 1 : \E j \in 1..Len(k.out) : k.out[j] = y

LEMMA PaddedWrite ==
  ASSUME NEW pads, NEW k \in ConnType, NEW h \in Seq(Nat), h # <<>>,
         PaddedStream(pads, k, h)
  PROVE  /\ NextPiece(k, Head(h)) \/ (pads /\ Head(h) = Padding)
         /\ PaddedStream(pads, [k EXCEPT !.out = Append(@, Head(h))], Tail(h))
<1> DEFINE l == [k EXCEPT !.out = Append(@, Head(h))]
           r == Tail(h)
           x == Head(h)
           m == Len(h)
           s == k.sent
           q == Len(k.in)
           in == k.in
           out == k.out
           lout == l.out
           p == Len(k.out)
<1>1. /\ out \in Seq(Nat) /\ in \in Seq(Nat) /\ s \in Nat /\ q \in Nat
      /\ m \in Nat /\ m > 0 /\ x = h[1] /\ x \in Nat
  BY DEF ConnType
<1>2. lout = Append(out, x) /\ l.in = in /\ l.sent = s
  BY DEF ConnType
<1>3. Len(r) = m - 1 /\ \A j \in 1..m - 1 : r[j] = h[j + 1]
  BY HeadTailProperties
<1>4. p \in Nat /\ Len(out) = p /\ Len(lout) = p + 1 /\ lout[p + 1] = x
      /\ \A j \in 1..p : lout[j] = out[j]
  BY <1>1, <1>2
<1>5. PICK b \in 0..s, n \in 0..m :
        /\ EchoedUpTo(out, b) /\ Pieces(pads, h, n)
        /\ b + n + q = s
        /\ \A j \in 1..n : h[j] = b + j
        /\ \A j \in 1..q : in[j] = b + n + j
  BY DEF PaddedStream, Split
<1>m. Len(h) = m /\ Len(in) = q
  OBVIOUS
<1> HIDE DEF l, r, x, m, s, q, in, out, lout, p
<1>6. b \in Nat /\ n \in Nat
  BY <1>1, <1>5
<1>7. CASE n = 0
  <2>0. pads /\ \A j \in 1..m : h[j] = Padding
    BY <1>1, <1>5, <1>m, <1>7 DEF Pieces
  <2>1. pads /\ x = Padding
    BY <1>1, <2>0
  <2>2. EchoedUpTo(lout, b)
    <3>1. ASSUME NEW j \in 1..p + 1 PROVE lout[j] \in 0..b
      <4>1. CASE j \in 1..p BY <1>4, <1>5, <4>1 DEF EchoedUpTo
      <4>2. CASE j = p + 1 BY <1>4, <1>6, <2>1, <4>2 DEF Padding
      <4> QED BY <1>4, <4>1, <4>2
    <3>2. ASSUME NEW y \in 1..b PROVE \E j \in 1..p + 1 : lout[j] = y
      <4>1. PICK j \in 1..p : out[j] = y BY <1>4, <1>5 DEF EchoedUpTo
      <4>2. j \in 1..p + 1 /\ lout[j] = y BY <1>4, <4>1
      <4> QED BY <4>2
    <3> QED BY <1>4, <3>1, <3>2 DEF EchoedUpTo
  <2>3. 0 \in 0..Len(r) /\ Pieces(pads, r, 0) /\ \A j \in 1..0 : FALSE
    <3>1. \A j \in 1..m - 1 : j + 1 \in 1..m BY <1>1
    <3>2. \A j \in 1..m - 1 : r[j] = Padding BY <1>3, <2>0, <3>1
    <3> QED BY <1>1, <1>3, <2>1, <3>2 DEF Pieces
  <2>4. b + 0 + q = s /\ \A j \in 1..q : in[j] = b + 0 + j
    BY <1>5, <1>7
  <2>a. Split(pads, l, r, b, 0)
    BY <1>2, <1>5, <1>m, <2>2, <2>3, <2>4 DEF Split, lout
  <2>5. PaddedStream(pads, l, r)
    BY <1>2, <1>5, <2>3, <2>a DEF PaddedStream
  <2> QED BY <2>1, <2>5 DEF l, r, x
<1>8. CASE n > 0
  <2>1. x = b + 1 /\ b + 1 \in 1..s /\ b + 1 \in 0..s
    BY <1>1, <1>5, <1>6, <1>8
  <2>2. EchoedUpTo(lout, b + 1)
    <3>1. ASSUME NEW j \in 1..p + 1 PROVE lout[j] \in 0..b + 1
      <4>1. CASE j \in 1..p
        <5>1. out[j] \in 0..b BY <1>4, <1>5, <4>1 DEF EchoedUpTo
        <5> QED BY <1>4, <1>6, <4>1, <5>1
      <4>2. CASE j = p + 1 BY <1>4, <1>6, <2>1, <4>2
      <4> QED BY <1>4, <4>1, <4>2
    <3>2. ASSUME NEW y \in 1..b + 1 PROVE \E j \in 1..p + 1 : lout[j] = y
      <4>1. CASE y = b + 1
        <5>1. p + 1 \in 1..p + 1 /\ lout[p + 1] = y BY <1>4, <2>1, <4>1
        <5> QED BY <5>1
      <4>2. CASE y \in 1..b
        <5>1. PICK j \in 1..p : out[j] = y BY <1>4, <1>5, <4>2 DEF EchoedUpTo
        <5>2. j \in 1..p + 1 /\ lout[j] = y BY <1>4, <5>1
        <5> QED BY <5>2
      <4> QED BY <1>6, <4>1, <4>2
    <3> QED BY <1>4, <3>1, <3>2 DEF EchoedUpTo
  <2>3. n - 1 \in 0..Len(r) /\ Pieces(pads, r, n - 1)
    <3>1. (pads \/ n = m) /\ \A j \in n + 1..m : h[j] = Padding
      BY <1>5, <1>m DEF Pieces
    <3>2. \A j \in n..m - 1 : j \in 1..m - 1 /\ j + 1 \in n + 1..m
      BY <1>1, <1>6, <1>8
    <3>3. \A j \in n..m - 1 : r[j] = Padding
      BY <1>3, <3>1, <3>2
    <3>4. n - 1 \in 0..m - 1 /\ (n - 1) + 1 = n /\ (n = m => n - 1 = m - 1)
      BY <1>1, <1>5, <1>6, <1>8
    <3> QED BY <1>3, <3>1, <3>3, <3>4 DEF Pieces
  <2>4. ASSUME NEW j \in 1..n - 1 PROVE r[j] = (b + 1) + j
    <3>1. j \in 1..m - 1 /\ j + 1 \in 1..n BY <1>1, <1>5, <1>6
    <3>2. r[j] = b + (j + 1) BY <1>3, <1>5, <3>1
    <3> QED BY <1>6, <3>2
  <2>5. (b + 1) + (n - 1) + q = s /\ (b + 1) + (n - 1) = b + n
    BY <1>1, <1>5, <1>6
  <2>6. \A j \in 1..q : in[j] = (b + 1) + (n - 1) + j
    BY <1>5, <2>5
  <2>a. Split(pads, l, r, b + 1, n - 1)
    BY <1>2, <1>m, <2>1, <2>2, <2>3, <2>4, <2>5, <2>6 DEF Split, lout
  <2>7. PaddedStream(pads, l, r)
    BY <1>2, <2>1, <2>3, <2>a DEF PaddedStream
  <2>8. NextPiece(k, x)
    <3>1. \A j \in 1..p : out[j] # x
      BY <1>4, <1>5, <1>6, <2>1 DEF EchoedUpTo
    <3>2. \A y \in 1..x - 1 : \E j \in 1..p : out[j] = y
      BY <1>4, <1>5, <1>6, <2>1 DEF EchoedUpTo
    <3> QED BY <2>1, <3>1, <3>2 DEF NextPiece, s, out, p
  <2> QED BY <2>7, <2>8 DEF l, r, x
<1> QED BY <1>6, <1>7, <1>8

-----------------------------------------------------------------------------
(* The echoed streams.                                                      *)

(* A client that hung up stays so, and a connection that keeps its three    *)
(* sequences keeps its stream.                                              *)
LEMMA StreamFrame ==
  ASSUME Streams, NEW c \in Clients, ~Closed(conn'[c]) => ~Closed(conn[c]),
         ~Closed(conn'[c]) =>
           /\ conn'[c].out = conn[c].out /\ conn'[c].in = conn[c].in
           /\ conn'[c].sent = conn[c].sent /\ Held(c)' = Held(c),
         program' = program
  PROVE  ~Closed(conn'[c]) => PaddedStream(WholeBuffer', conn'[c], Held(c)')
<1> SUFFICES ASSUME ~Closed(conn'[c]) PROVE PaddedStream(WholeBuffer', conn'[c], Held(c)')
  OBVIOUS
<1>1. PaddedStream(WholeBuffer, conn[c], Held(c)) BY DEF Streams
<1>2. PaddedStream(WholeBuffer, conn'[c], Held(c)) BY <1>1, PaddedFrame
<1> QED BY <1>2 DEF WholeBuffer

LEMMA StreamSame ==
  ASSUME Streams, UNCHANGED <<conn, program>>, \A c \in Clients : Held(c)' = Held(c)
  PROVE  Streams'
BY StreamFrame DEF Streams

LEMMA ClientKeepsStream ==
  ASSUME TypeOK, Streams, NEW d \in Clients, Client(d), program' = program PROVE Streams'
<1>t. conn \in [Clients -> ConnType] /\ todo \in Seq(Nat) BY DEF TypeOK
<1> SUFFICES ASSUME NEW c \in Clients
             PROVE  ~Closed(conn'[c]) => PaddedStream(WholeBuffer', conn'[c], Held(c)')
  BY DEF Streams
<1>1. Held(c)' = Held(c) /\ Held(c) \in Seq(Nat)
  BY <1>t DEF Client, Held
<1>2. CASE conn'[c] = Send(conn[c])
  <2>1. Closed(Send(conn[c])) = Closed(conn[c])
    BY <1>t, PeerFrame DEF Closed
  <2>2. ~Closed(conn[c]) => PaddedStream(WholeBuffer, Send(conn[c]), Held(c))
    BY <1>t, <1>1, PaddedSend DEF Streams
  <2> QED BY <1>1, <1>2, <2>1, <2>2 DEF WholeBuffer
<1>3. CASE conn'[c] # Send(conn[c])
  <2>1. \/ conn'[c] \in {conn[c], Receive(conn[c]), HangUp(conn[c])}
        \/ conn[c].peer = "none" /\ conn'[c] = Dial(conn[c])
    BY <1>t, <1>3 DEF Client, Connect, Type, Show, Quit
  <2>2. conn'[c].out = conn[c].out /\ conn'[c].in = conn[c].in
        /\ conn'[c].sent = conn[c].sent
    BY <1>t, <2>1 DEF Dial, Receive, HangUp, ConnType
  <2>3. ~Closed(conn'[c]) => ~Closed(conn[c])
    BY <1>t, <2>1 DEF Dial, Receive, HangUp, ConnType, Closed
  <2> QED BY <1>1, <2>2, <2>3, StreamFrame
<1> QED BY <1>2, <1>3

LEMMA ReadKeepsStream ==
  ASSUME TypeOK, Writing, Streams, NEW f \in Fds, ReadData(f), program' = program
  PROVE  Streams'
<1>t. conn \in [Clients -> ConnType] BY DEF TypeOK
<1> DEFINE d == file[f]
<1>1. PICK n \in 1..Len(conn[d].in) :
        /\ n <= BUF_SIZE
        /\ todo' = Reply(Taken(conn[d], n)) /\ conn' = [conn EXCEPT ![d] = Left(@, n)]
  BY DEF ReadData
<1>2. /\ d \in Clients /\ pc = "batch" /\ pc' = "write" /\ fd' = f /\ file' = file
  BY OpenIsClient DEF ReadData, IsOpen, Take
<1> SUFFICES ASSUME NEW c \in Clients
             PROVE  ~Closed(conn'[c]) => PaddedStream(WholeBuffer', conn'[c], Held(c)')
  BY DEF Streams
<1>3. Held(c) = <<>> BY <1>2 DEF Held
<1>4. CASE c # d
  <2>1. Held(c)' = <<>> /\ conn'[c] = conn[c] BY <1>1, <1>2, <1>4, <1>t DEF Held
  <2> QED BY <1>3, <2>1, StreamFrame
<1>5. CASE c = d
  <2>1. Held(c)' = Reply(Taken(conn[c], n)) /\ conn'[c] = Left(conn[c], n)
    BY <1>1, <1>2, <1>5, <1>t DEF Held
  <2>2. ~Closed(conn[c]) => PaddedStream(WholeBuffer, conn[c], <<>>)
    BY <1>3 DEF Streams
  <2>3. Closed(Left(conn[c], n)) = Closed(conn[c])
    BY <1>t, PeerFrame DEF Closed
  <2>4. /\ Reply(Taken(conn[c], n)) \in Seq(Nat)
        /\ n <= Len(Reply(Taken(conn[c], n)))
        /\ WholeBuffer \/ Len(Reply(Taken(conn[c], n))) = n
        /\ \A j \in 1..n : Reply(Taken(conn[c], n))[j] = Taken(conn[c], n)[j]
        /\ \A j \in n + 1..Len(Reply(Taken(conn[c], n))) :
             Reply(Taken(conn[c], n))[j] = Padding
    <3> DEFINE t == Taken(conn[c], n)
    <3>1. t \in Seq(Nat) /\ Len(t) = n /\ Len(t) <= BUF_SIZE
      BY <1>1, <1>5, <1>t, ReadReply
    <3> HIDE DEF t
    <3>2. /\ Reply(t) \in Seq(Nat) /\ n <= Len(Reply(t))
          /\ WholeBuffer \/ Len(Reply(t)) = n
          /\ \A j \in 1..n : Reply(t)[j] = t[j]
          /\ \A j \in n + 1..Len(Reply(t)) : Reply(t)[j] = Padding
      BY <3>1, ReplyIs
    <3> QED BY <3>2 DEF t
  <2>5. ~Closed(conn[c]) => PaddedStream(WholeBuffer, Left(conn[c], n), Reply(Taken(conn[c], n)))
    BY <1>1, <1>5, <1>t, <2>2, <2>4, PaddedRead
  <2> QED BY <2>1, <2>3, <2>5 DEF WholeBuffer
<1> QED BY <1>4, <1>5

LEMMA WriteKeepsStream ==
  ASSUME TypeOK, Writing, Streams, WritePiece, program' = program
  PROVE  /\ Streams'
         /\ \E d \in Clients : \E x \in Nat :
              /\ \/ NextPiece(conn[d], x) /\ x # Padding /\ leak' = leak
                 \/ WholeBuffer /\ x = Padding
              /\ conn' = [conn EXCEPT ![d] =
                           [conn[d] EXCEPT !.out = Append(conn[d].out, x)]]
<1>t. conn \in [Clients -> ConnType] /\ todo \in Seq(Nat) /\ todo # <<>>
  BY DEF TypeOK, WritePiece
<1> DEFINE d == file[fd]
           l == [conn[d] EXCEPT !.out = Append(conn[d].out, Head(todo))]
<1>1. /\ d \in Clients /\ todo' = Tail(todo) /\ pc = "write" /\ UNCHANGED <<file, fd, pc>>
      /\ conn' = [conn EXCEPT ![d] = l] /\ ~Closed(conn[d])
  BY OpenIsClient DEF WritePiece, Written, Closed
<1>2. /\ \A c \in Clients : c = d => Held(c) = todo /\ Held(c)' = Tail(todo)
      /\ \A c \in Clients : c # d => Held(c) = <<>> /\ Held(c)' = <<>>
  BY <1>1 DEF Held
<1>3. PaddedStream(WholeBuffer, conn[d], todo)
  BY <1>1, <1>2 DEF Streams
<1>4. /\ NextPiece(conn[d], Head(todo)) \/ (WholeBuffer /\ Head(todo) = Padding)
      /\ PaddedStream(WholeBuffer, l, Tail(todo))
  BY <1>1, <1>3, <1>t, PaddedWrite
<1>5. conn'[d] = l /\ \A c \in Clients : c # d => conn'[c] = conn[c]
  BY <1>1, <1>t
<1>6. ASSUME NEW c \in Clients
      PROVE  ~Closed(conn'[c]) => PaddedStream(WholeBuffer', conn'[c], Held(c)')
  <2>1. CASE c = d
    <3>1. conn'[c] = l /\ Held(c)' = Tail(todo) BY <1>2, <1>5, <2>1
    <3> QED BY <3>1, <1>4 DEF WholeBuffer
  <2>2. CASE c # d
    BY <1>2, <1>5, <2>2, StreamFrame
  <2> QED BY <2>1, <2>2
<1>7. Streams'
  BY <1>6 DEF Streams
<1>8. Head(todo) \in Nat
  BY <1>t
<1>9. \/ NextPiece(conn[d], Head(todo)) /\ Head(todo) # Padding /\ leak' = leak
      \/ WholeBuffer /\ Head(todo) = Padding
  <2>1. CASE Head(todo) = Padding
    <3>1. ~NextPiece(conn[d], Head(todo))
      BY <2>1, <1>1, <1>t DEF NextPiece, Padding, ConnType
    <3> QED BY <1>4, <2>1, <3>1
  <2>2. CASE Head(todo) # Padding
    BY <1>4, <2>2 DEF WritePiece
  <2> QED BY <2>1, <2>2
<1> QED BY <1>1, <1>7, <1>8, <1>9

(* What a write to a client that has gone, or the report of its reset, does *)
(* to the connection is not seen in its sequences.                          *)
LEMMA GoneFrame ==
  ASSUME TypeOK, Writing, NEW d,
         \/ \E f \in Fds : d = file[f] /\ ReadError(f)
         \/ d = file[fd] /\ WriteToGone
  PROVE  /\ d \in Clients /\ Closed(conn'[d])
         /\ \A c \in Clients : c # d => conn'[c] = conn[c]
         /\ \A c \in Clients : conn'[c].out = conn[c].out /\ conn'[c].sent = conn[c].sent
<1>t. conn \in [Clients -> ConnType] BY DEF TypeOK
<1>1. ASSUME NEW f \in Fds, d = file[f], ReadError(f)
      PROVE  /\ d \in Clients /\ Closed(conn'[d])
             /\ \A c \in Clients : c # d => conn'[c] = conn[c]
             /\ conn'[d].out = conn[d].out /\ conn'[d].sent = conn[d].sent
  <2>1. d \in Clients /\ conn[d] \in ConnType /\ conn' = [conn EXCEPT ![d] = ErrorSeen(@)]
    BY <1>1, OpenIsClient DEF ReadError, IsOpen
  <2> QED BY <1>t, <2>1 DEF ErrorSeen, ConnType, Closed
<1>2. CASE d = file[fd] /\ WriteToGone
  <2>1. PICK k \in Written(conn[d], Head(todo)) \cup {conn[d]} :
          conn' = [conn EXCEPT ![d] = k]
    BY <1>2 DEF WriteToGone
  <2>2. Closed(conn[d]) /\ d \in Clients /\ conn[d] \in ConnType
    BY <1>2, OpenIsClient DEF WriteToGone
  <2>3. k.out = conn[d].out /\ k.sent = conn[d].sent /\ Closed(k)
    BY <2>1, <2>2 DEF Written, Closed, ConnType
  <2> QED BY <2>2, <1>t, <2>1, <2>3
<1> QED BY <1>1, <1>2

LEMMA StreamStep == TypeOK /\ Writing /\ Streams /\ [Next]_vars => Streams'
<1> SUFFICES ASSUME TypeOK, Writing, Streams, [Next]_vars PROVE Streams'
  OBVIOUS
<1>p. program' = program
  BY DEF Next, vars
<1>1. ASSUME NEW f \in Fds, ReadError(f) PROVE Streams'
  <2>1. \A c \in Clients : c # file[f] => Held(c)' = Held(c)
    BY <1>1 DEF ReadError, Take, Held
  <2> QED BY <1>1, <1>p, <2>1, GoneFrame, StreamFrame DEF Streams
<1>2. CASE WriteToGone
  <2>1. \A c \in Clients : c # file[fd] => Held(c)' = Held(c)
    BY <1>2 DEF WriteToGone, Held
  <2> QED BY <1>2, <1>p, <2>1, GoneFrame, StreamFrame DEF Streams
<1>3. CASE EpollWait \/ EndOfBatch \/ Accept \/ AcceptFails
  <2>1. UNCHANGED conn /\ \A c \in Clients : Held(c) = <<>> /\ Held(c)' = <<>>
    BY <1>3 DEF EpollWait, EndOfBatch, Accept, AcceptFails, Take, net, Held
  <2> QED BY <1>p, <2>1, StreamSame
<1>4. ASSUME NEW f \in Fds, ReadEof(f) PROVE Streams'
  <2>1. UNCHANGED conn /\ \A c \in Clients : Held(c) = <<>> /\ Held(c)' = <<>>
    BY <1>4 DEF ReadEof, Take, net, Held
  <2> QED BY <1>p, <2>1, StreamSame
<1>5. CASE WriteDone
  <2>1. UNCHANGED conn /\ \A c \in Clients : Held(c) = <<>> /\ Held(c)' = <<>>
    BY <1>5 DEF WriteDone, net, Held
  <2> QED BY <1>p, <2>1, StreamSame
<1>6. CASE UNCHANGED vars
  <2>1. UNCHANGED conn /\ \A c \in Clients : Held(c)' = Held(c)
    BY <1>6 DEF vars, net, Held
  <2> QED BY <1>p, <2>1, StreamSame
<1> QED
  BY <1>p, <1>1, <1>2, <1>3, <1>4, <1>5, <1>6, ClientKeepsStream, ReadKeepsStream,
     WriteKeepsStream
  DEF Next, Server, Batch, Write

-----------------------------------------------------------------------------
(* What the buffer holds.                                                   *)

(* What was sent stays sent.                                                *)
LEMMA SentGrows ==
  ASSUME TypeOK, Writing, [Next]_vars, NEW c \in Clients
  PROVE  /\ conn[c].sent \in Nat /\ conn'[c].sent \in Nat
         /\ conn[c].sent <= conn'[c].sent
<1>t. conn \in [Clients -> ConnType]
  BY DEF TypeOK
<1>0. conn[c].sent \in Nat
  BY <1>t DEF ConnType
<1>1. ASSUME conn'[c].sent = conn[c].sent
      PROVE  conn'[c].sent \in Nat /\ conn[c].sent <= conn'[c].sent
  BY <1>0, <1>1
<1>2. ASSUME NEW d \in Clients, Client(d)
      PROVE  conn'[c].sent \in Nat /\ conn[c].sent <= conn'[c].sent
  <2>1. CASE conn'[c] = Send(conn[c])
    <3>1. Send(conn[c]).sent = conn[c].sent + 1 BY <1>t DEF Send, ConnType
    <3> QED BY <1>0, <2>1, <3>1
  <2>2. CASE conn'[c] # Send(conn[c])
    <3>1. conn'[c] \in {conn[c], Receive(conn[c]), HangUp(conn[c]), Dial(conn[c])}
      BY <1>t, <1>2, <2>2 DEF Client, Connect, Type, Show, Quit
    <3>2. conn'[c].sent = conn[c].sent
      BY <1>t, <3>1 DEF Dial, Receive, HangUp, ConnType
    <3> QED BY <1>1, <3>2
  <2> QED BY <2>1, <2>2
<1>3. ASSUME NEW f \in Fds, ReadData(f) PROVE conn'[c].sent = conn[c].sent
  <2>1. file[f] \in Clients /\ conn[file[f]] \in ConnType
    BY <1>3, OpenIsClient DEF ReadData, IsOpen
  <2> QED BY SMTT(20), <1>t, <1>3, <2>1 DEF ReadData, Left, ConnType
<1>4. ASSUME NEW f \in Fds, ReadError(f) PROVE conn'[c].sent = conn[c].sent
  BY <1>4, GoneFrame
<1>5. CASE WriteToGone
  BY <1>5, <1>1, GoneFrame
<1>6. CASE WritePiece
  <2>1. conn[file[fd]] \in ConnType /\ file[fd] \in Clients
        /\ conn' = [conn EXCEPT ![file[fd]] =
                      [conn[file[fd]] EXCEPT !.out = Append(@, Head(todo))]]
    BY <1>6, OpenIsClient DEF WritePiece, Written
  <2>2. conn'[c].sent = conn[c].sent
    BY <1>t, <2>1 DEF ConnType
  <2> QED BY <1>1, <2>2
<1>7. CASE EpollWait \/ EndOfBatch \/ Accept \/ AcceptFails \/ WriteDone \/ UNCHANGED vars
  BY <1>1, <1>7 DEF EpollWait, EndOfBatch, Accept, AcceptFails, WriteDone, net, vars
<1>8. ASSUME NEW f \in Fds, ReadEof(f) PROVE conn'[c].sent = conn[c].sent
  BY <1>8 DEF ReadEof, net
<1> QED
  BY <1>0, <1>1, <1>2, <1>3, <1>4, <1>5, <1>6, <1>7, <1>8
  DEF Next, Server, Batch, Write

LEMMA KnownStays ==
  ASSUME TypeOK, Writing, [Next]_vars, NEW x, Known(x)
  PROVE  Known(x)'
<1>1. CASE x = Unset
  BY <1>1 DEF Known
<1>2. CASE x # Unset
  <2>1. PICK d \in Clients : \E n \in 1..conn[d].sent : x = <<d, n>>
    BY <1>2 DEF Known
  <2>2. PICK n \in 1..conn[d].sent : x = <<d, n>>
    BY <2>1
  <2>3. n \in 1..conn'[d].sent
    BY <2>2, SentGrows
  <2> QED BY <2>2, <2>3 DEF Known
<1> QED BY <1>1, <1>2

(* Nothing is unread that was not sent.                                     *)
UnreadSent(k) == \A j \in 1..Len(k.in) : k.in[j] \in 1..k.sent

LEMMA UnreadFrame ==
  ASSUME NEW k \in ConnType, UnreadSent(k)
  PROVE  /\ UnreadSent(Send(k)) /\ UnreadSent(Receive(k)) /\ UnreadSent(Dial(k))
         /\ UnreadSent(HangUp(k)) /\ UnreadSent(ErrorSeen(k))
         /\ \A n \in 1..Len(k.in) : UnreadSent(Left(k, n))
<1> DEFINE in == k.in
           q == Len(k.in)
           s == k.sent
<1>1. in \in Seq(Nat) /\ q \in Nat /\ s \in Nat /\ q = Len(in)
  BY DEF ConnType
<1>2. \A j \in 1..q : in[j] \in 1..s
  BY DEF UnreadSent
<1>3. UnreadSent(Send(k))
  <2> DEFINE lin == Append(in, s + 1)
  <2>1. Send(k).in = lin /\ Send(k).sent = s + 1
    BY DEF Send, ConnType
  <2>2. Len(lin) = q + 1 /\ lin[q + 1] = s + 1 /\ \A j \in 1..q : lin[j] = in[j]
    BY <1>1
  <2> HIDE DEF lin, in, q, s
  <2>3. ASSUME NEW j \in 1..q + 1 PROVE lin[j] \in 1..s + 1
    <3>1. CASE j = q + 1 BY <1>1, <2>2, <3>1
    <3>2. CASE j \in 1..q
      <4>1. lin[j] \in 1..s BY <1>2, <2>2, <3>2
      <4> QED BY <1>1, <4>1
    <3> QED BY <1>1, <3>1, <3>2
  <2> QED BY <2>1, <2>2, <2>3 DEF UnreadSent
<1>4. ASSUME NEW l, l.in = k.in, l.sent = k.sent PROVE UnreadSent(l)
  BY <1>4 DEF UnreadSent
<1>5. /\ UnreadSent(Receive(k)) /\ UnreadSent(Dial(k))
      /\ UnreadSent(HangUp(k)) /\ UnreadSent(ErrorSeen(k))
  <2>1. \A l \in {Receive(k), Dial(k), HangUp(k), ErrorSeen(k)} :
          l.in = k.in /\ l.sent = k.sent
    BY DEF Receive, Dial, HangUp, ErrorSeen, ConnType
  <2> QED BY <1>4, <2>1
<1>6. ASSUME NEW n \in 1..q PROVE UnreadSent(Left(k, n))
  <2>1. /\ Left(k, n).sent = s /\ Len(Left(k, n).in) = q - n
        /\ \A j \in 1..q - n : Left(k, n).in[j] = in[j + n]
    BY ReadSplits DEF Left, ConnType
  <2>2. \A j \in 1..q - n : j + n \in 1..q
    BY <1>1
  <2> HIDE DEF in, q, s
  <2> QED BY <1>2, <2>1, <2>2 DEF UnreadSent
<1> QED BY <1>3, <1>5, <1>6

LEMMA UnreadStep ==
  ASSUME TypeOK, Writing, [Next]_vars, NEW c \in Clients, UnreadSent(conn[c])
  PROVE  UnreadSent(conn'[c])
<1>t. conn \in [Clients -> ConnType] /\ conn[c] \in ConnType
  BY DEF TypeOK
<1>1. ASSUME NEW d \in Clients, Client(d) PROVE UnreadSent(conn'[c])
  <2>1. conn'[c] \in {conn[c], Send(conn[c]), Receive(conn[c]), HangUp(conn[c]), Dial(conn[c])}
    BY <1>t, <1>1 DEF Client, Connect, Type, Show, Quit
  <2> QED BY <1>t, <2>1, UnreadFrame
<1>2. ASSUME NEW f \in Fds, ReadData(f) PROVE UnreadSent(conn'[c])
  <2>1. PICK n \in 1..Len(conn[file[f]].in) : conn' = [conn EXCEPT ![file[f]] = Left(@, n)]
    BY <1>2 DEF ReadData
  <2>2. CASE c = file[f]
    BY <1>t, <2>1, <2>2, UnreadFrame
  <2> QED BY <1>t, <2>1, <2>2
<1>3. ASSUME NEW f \in Fds, ReadError(f) PROVE UnreadSent(conn'[c])
  <2>1. conn'[c] \in {conn[c], ErrorSeen(conn[c])}
    BY <1>t, <1>3 DEF ReadError
  <2> QED BY <1>t, <2>1, UnreadFrame
<1>4. CASE WritePiece \/ WriteToGone
  <2>1. PICK k \in Written(conn[file[fd]], Head(todo)) \cup {conn[file[fd]]} :
          conn' = [conn EXCEPT ![file[fd]] = k]
    BY <1>4 DEF WritePiece, WriteToGone
  <2>2. file[fd] \in Clients /\ conn[file[fd]] \in ConnType
    BY <1>4, OpenIsClient DEF WritePiece, WriteToGone
  <2>3. k.in = conn[file[fd]].in /\ k.sent = conn[file[fd]].sent
    BY <2>1, <2>2 DEF Written, ConnType
  <2> QED BY <1>t, <2>1, <2>2, <2>3 DEF UnreadSent
<1>5. CASE EpollWait \/ EndOfBatch \/ Accept \/ AcceptFails \/ WriteDone \/ UNCHANGED vars
  BY <1>5 DEF EpollWait, EndOfBatch, Accept, AcceptFails, WriteDone, net, vars
<1>6. ASSUME NEW f \in Fds, ReadEof(f) PROVE UnreadSent(conn'[c])
  BY <1>6 DEF ReadEof, net
<1> QED
  BY <1>1, <1>2, <1>3, <1>4, <1>5, <1>6 DEF Next, Server, Batch, Write

LEMMA MemoryStep == TypeOK /\ Writing /\ MemoryInv /\ [Next]_vars => MemoryInv'
<1> SUFFICES ASSUME TypeOK, Writing, MemoryInv, [Next]_vars PROVE MemoryInv'
  OBVIOUS
<1>t. conn \in [Clients -> ConnType]
  BY DEF TypeOK
<1>1. \A c \in Clients : UnreadSent(conn[c])
  BY DEF MemoryInv, UnreadSent
<1>2. \A c \in Clients : UnreadSent(conn'[c])
  BY <1>1, UnreadStep
<1>3. \A i \in 1..BUF_SIZE : Known(buf[i])'
  <2>1. CASE buf' = buf
    <3>1. ASSUME NEW i \in 1..BUF_SIZE PROVE Known(buf[i])'
      <4>1. PICK x : x = buf[i] OBVIOUS
      <4>2. Known(x) BY <4>1 DEF MemoryInv
      <4>3. Known(x)' BY <4>2, KnownStays
      <4> QED BY <2>1, <4>1, <4>3 DEF Known
    <3> QED BY <3>1
  <2>2. ASSUME NEW f \in Fds, ReadData(f) PROVE \A i \in 1..BUF_SIZE : Known(buf[i])'
    <3>0. PICK d : d = file[f] OBVIOUS
    <3>1. PICK n \in 1..Len(conn[d].in) :
            n <= BUF_SIZE /\ buf' = Stored(d, Taken(conn[d], n))
      BY <2>2, <3>0 DEF ReadData
    <3>2. d \in Clients /\ conn[d] \in ConnType
      BY <2>2, <3>0, OpenIsClient DEF ReadData, IsOpen
    <3>3. /\ Len(Taken(conn[d], n)) = n
          /\ \A j \in 1..n : Taken(conn[d], n)[j] = conn[d].in[j]
      BY <3>1, <3>2, ReadSplits, ReadReply
    <3>4. ASSUME NEW i \in 1..BUF_SIZE PROVE Known(buf[i])'
      <4>0. PICK x : x = buf[i] OBVIOUS
      <4>1. CASE i <= n
        <5>1. i \in 1..n /\ i \in 1..Len(conn[d].in)
          BY <3>1, <3>2, <4>1 DEF ConnType
        <5>2. PICK y : y = conn[d].in[i] OBVIOUS
        <5>3. buf'[i] = <<d, y>>
          BY <3>1, <3>3, <5>1, <5>2, <4>1 DEF Stored
        <5>4. y \in 1..conn[d].sent
          BY <1>1, <3>2, <5>1, <5>2 DEF UnreadSent
        <5>5. Known(<<d, y>>)
          BY <3>2, <5>4 DEF Known
        <5>6. Known(<<d, y>>)'
          BY <5>5, KnownStays
        <5> QED BY <5>3, <5>6 DEF Known
      <4>2. CASE ~(i <= n)
        <5>1. buf'[i] = x
          BY <3>1, <3>3, <4>0, <4>2 DEF Stored
        <5>2. Known(x)
          BY <4>0 DEF MemoryInv
        <5>3. Known(x)'
          BY <5>2, KnownStays
        <5> QED BY <5>1, <5>3 DEF Known
      <4> QED BY <4>1, <4>2
    <3> QED BY <3>4
  <2>3. \/ buf' = buf
        \/ \E f \in Fds : ReadData(f)
    BY DEF Next, Server, Batch, Write, Client, EpollWait, EndOfBatch, Accept, AcceptFails,
           ReadError, ReadEof, WritePiece, WriteToGone, WriteDone, memory, vars
  <2> QED BY <2>1, <2>2, <2>3
<1>4. Known(leak)'
  <2>1. \/ leak' = leak
        \/ todo # <<>> /\ leak' = buf[BUF_SIZE - Len(todo) + 1]
    BY DEF Next, Server, Batch, Write, Client, EpollWait, EndOfBatch, Accept, AcceptFails,
           ReadData, ReadError, ReadEof, WritePiece, WriteToGone, WriteDone, memory, vars
  <2>2. PICK x : x = leak'
    OBVIOUS
  <2>3. Known(x)
    BY <2>1, <2>2, PlaceInBuf DEF MemoryInv
  <2>4. Known(x)'
    BY <2>3, KnownStays
  <2> QED BY <2>2, <2>4 DEF Known
<1> QED BY <1>2, <1>3, <1>4 DEF MemoryInv, UnreadSent

-----------------------------------------------------------------------------
(* The theorems.                                                            *)

LEMMA Inductive == Spec => []IInv
<1>1. IInv /\ [Next]_vars => IInv'
  BY TypeStep, WritingStep, HolderStep, BatchStep, MemoryStep, StreamStep DEF IInv
<1> QED BY <1>1, InvInit, PTL DEF Spec

(* Every variable keeps its type.                                           *)
THEOREM TypeCorrect == Spec => []TypeOK
BY Inductive, PTL DEF IInv

(* However descriptors close and their numbers come back from accept while  *)
(* a batch is handled, every event still to be handled is true: no call     *)
(* blocks, and no event is taken for another connection's.                  *)
THEOREM BatchStaysValid == Spec => []BatchValid
BY Inductive, PTL DEF IInv

(* Both programs are echo servers: a client gets back the pieces it sent,   *)
(* each once and in order.  What echo_epollserv.cpp writes behind an answer *)
(* is text that some client sent before, or memory nobody has written to.   *)
THEOREM LevelImplementsPaddedEcho == Spec => EchoSpec
<1>1. Init => Echo!Init
  <2>1. WholeBuffer \in BOOLEAN
    BY DEF WholeBuffer
  <2> QED BY <2>1 DEF Init, Echo!Init, NoConn
<1>2. IInv /\ [Next]_vars => [Echo!Next]_(Echo!vars)
  <2> SUFFICES ASSUME IInv, [Next]_vars PROVE [Echo!Next]_(Echo!vars)
    OBVIOUS
  <2> USE DEF IInv
  <2> DEFINE S == [c \in Clients |-> conn[c].sent]
             O == [c \in Clients |-> conn[c].out]
  <2>t. conn \in [Clients -> ConnType]
    BY DEF TypeOK
  <2>p. program' = program
    BY DEF Next, vars
  <2>w. WholeBuffer' = WholeBuffer
    BY <2>p DEF WholeBuffer
  <2>l. \/ \E c \in Clients : Client(c)
        \/ EpollWait \/ EndOfBatch \/ Accept \/ AcceptFails \/ WriteDone \/ WriteToGone
        \/ \E f \in Fds : ReadData(f) \/ ReadError(f) \/ ReadEof(f)
        \/ UNCHANGED vars
        => leak' = leak
    BY DEF Client, EpollWait, EndOfBatch, Accept, AcceptFails,
           ReadData, ReadError, ReadEof, WriteToGone, WriteDone, memory, vars
  <2>1. ASSUME NEW c \in Clients, Client(c), Type(c) PROVE Echo!Next
    <3>1. conn' = [conn EXCEPT ![c] = Send(@)] BY <2>1 DEF Type
    <3>2. Send(conn[c]).out = conn[c].out /\ Send(conn[c]).sent = conn[c].sent + 1
      BY <2>t DEF Send, ConnType
    <3>3. S' = [S EXCEPT ![c] = @ + 1] BY <3>1, <3>2, <2>t
    <3>4. O' = O BY <3>1, <3>2, <2>t
    <3>5. leak' = leak
      BY <2>1, <2>l
    <3> QED BY <3>3, <3>4, <3>5, <2>w DEF Echo!Next, Echo!Send
  <2>2. CASE WritePiece
    <3>0. PICK d \in Clients : \E x \in Nat :
            /\ \/ NextPiece(conn[d], x) /\ x # Padding /\ leak' = leak
               \/ WholeBuffer /\ x = Padding
            /\ conn' = [conn EXCEPT ![d] =
                         [conn[d] EXCEPT !.out = Append(conn[d].out, x)]]
      BY <2>2, <2>p, WriteKeepsStream
    <3>1. PICK x \in Nat :
            /\ \/ NextPiece(conn[d], x) /\ x # Padding /\ leak' = leak
               \/ WholeBuffer /\ x = Padding
            /\ conn' = [conn EXCEPT ![d] =
                         [conn[d] EXCEPT !.out = Append(conn[d].out, x)]]
      BY <3>0
    <3> DEFINE k == [conn[d] EXCEPT !.out = Append(conn[d].out, x)]
    <3>2. k.sent = conn[d].sent /\ k.out = Append(conn[d].out, x)
      BY <2>t DEF ConnType
    <3>3. S' = S BY <3>1, <3>2, <2>t
    <3>4. O' = [O EXCEPT ![d] = Append(@, x)] BY <3>1, <3>2, <2>t
    <3>5. DOMAIN O[d] = 1..Len(conn[d].out) /\ O[d] = conn[d].out /\ S[d] = conn[d].sent
      BY <2>t DEF ConnType
    <3>6. CASE WholeBuffer /\ x = Padding
      <4>0. Known(leak')
        <5>1. leak' = buf[BUF_SIZE - Len(todo) + 1] \/ leak' = leak
          BY <2>2 DEF WritePiece
        <5>2. BUF_SIZE - Len(todo) + 1 \in 1..BUF_SIZE
          BY <2>2, PlaceInBuf DEF WritePiece
        <5>3. Known(buf[BUF_SIZE - Len(todo) + 1])
          BY <5>2 DEF MemoryInv
        <5>4. Known(leak)
          BY DEF MemoryInv
        <5> QED BY <5>1, <5>3, <5>4
      <4>2. \A e \in Clients : S[e] = conn[e].sent
        OBVIOUS
      <4>3. Echo!Old(leak')
        BY <4>0, <4>2 DEF Known, Echo!Old
      <4>1. Echo!Pad(d)
        BY <3>3, <3>4, <3>6, <4>3, <2>w DEF Echo!Pad
      <4> QED BY <4>1 DEF Echo!Next
    <3>7. CASE NextPiece(conn[d], x) /\ leak' = leak
      <4>1. /\ x \in 1..S[d] /\ \A j \in DOMAIN O[d] : O[d][j] # x
            /\ \A y \in 1..x - 1 : \E j \in DOMAIN O[d] : O[d][j] = y
        BY <3>5, <3>7 DEF NextPiece
      <4> HIDE DEF S, O, k
      <4>2. Echo!Echo(d)
        BY <3>3, <3>4, <3>7, <4>1, <2>w DEF Echo!Echo, Echo!Echoed, S, O
      <4> QED BY <4>2 DEF Echo!Next
    <3> QED BY <3>1, <3>6, <3>7
  <2>3. ASSUME \A c \in Clients : conn'[c].sent = conn[c].sent /\ conn'[c].out = conn[c].out,
               leak' = leak
        PROVE  UNCHANGED Echo!vars
    BY <2>3, <2>w DEF Echo!vars
  <2>4. ASSUME NEW c \in Clients, Client(c), Connect(c) \/ Show(c) \/ Quit(c)
        PROVE  UNCHANGED Echo!vars
    <3>1. leak' = leak
      BY <2>4, <2>l
    <3> QED BY <3>1, <2>t, <2>4, <2>3, OutFrame, SentFrame DEF Connect, Show, Quit
  <2>5. ASSUME NEW f \in Fds, ReadData(f) PROVE UNCHANGED Echo!vars
    <3>1. file[f] \in Clients /\ conn[file[f]] \in ConnType
      BY <2>5, OpenIsClient DEF ReadData, IsOpen
    <3> QED BY <3>1, <2>t, <2>5, <2>l, <2>3, OutFrame, SentFrame DEF ReadData
  <2>6. ASSUME NEW f \in Fds, ReadError(f) PROVE UNCHANGED Echo!vars
    BY <2>6, <2>l, <2>3, GoneFrame
  <2>7. CASE WriteToGone
    BY <2>7, <2>l, <2>3, GoneFrame
  <2>8. CASE EpollWait \/ EndOfBatch \/ Accept \/ AcceptFails \/ WriteDone
    BY <2>8, <2>l, <2>3 DEF EpollWait, EndOfBatch, Accept, AcceptFails, WriteDone, net
  <2>9. ASSUME NEW f \in Fds, ReadEof(f) PROVE UNCHANGED Echo!vars
    BY <2>9, <2>l, <2>3 DEF ReadEof, net
  <2>10. CASE UNCHANGED vars
    BY <2>10, <2>l, <2>3 DEF vars, net
  <2> QED
    BY <2>1, <2>2, <2>4, <2>5, <2>6, <2>7, <2>8, <2>9, <2>10
    DEF Next, Server, Batch, Write, Client
<1> QED BY <1>1, <1>2, Inductive, PTL DEF Spec, EchoSpec, Echo!Spec
=============================================================================

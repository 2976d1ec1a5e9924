------------------------- MODULE SelectServer_proofs -------------------------
(* Proofs about ch12/echo_selectserv.cpp, for any clients, descriptors and   *)
(* amounts of data.                                                          *)
EXTENDS SelectServer, TcpConn_proofs

(* A connection is held by at most one descriptor, and while it waits to be *)
(* accepted by none.                                                        *)
OneHolder ==
  /\ \A f, g \in Fds : file[f] = file[g] /\ file[f] # NoClient => f = g
  /\ \A f \in Fds : file[f] \notin backlog
  /\ \A c \in Clients : conn[c].peer = "none" =>
       c \notin backlog /\ \A f \in Fds : file[f] # c

(* While the loop is inside write, the descriptor it writes to is open.     *)
Writing == pc = "write" => i \in Fds /\ file[i] # NoClient

(* The snapshot stays below the bound of the loop, which only grows.        *)
Bounded == \A f \in copy : f <= fd_max

(* What a client that has not hung up sent is echoed, in buf, or not read   *)
(* yet, in this order and without a gap.                                    *)
Held(c) == IF pc = "write" /\ file[i] = c THEN buf ELSE <<>>
Streams == \A c \in Clients : ~Closed(conn[c]) => Stream(conn[c], Held(c))

IInv == TypeOK /\ WatchesAll /\ OneHolder /\ Writing /\ Bounded
        /\ SnapshotValid /\ Streams

-----------------------------------------------------------------------------
(* Types.                                                                   *)

LEMMA TypeInit == Init => TypeOK
<1>1. NoConn \in ConnType BY DEF NoConn, ConnType, PeerStates
<1> QED BY <1>1, SelectAssumption DEF Init, TypeOK

LEMMA TypeStep == TypeOK /\ Writing /\ [Next]_vars => TypeOK'
<1> SUFFICES ASSUME TypeOK, Writing, [Next]_vars PROVE TypeOK'
  OBVIOUS
<1> USE SelectAssumption DEF TypeOK, net, watch
<1>c. \A f \in Fds : IsOpen(f) => file[f] \in Clients /\ conn[file[f]] \in ConnType
  BY DEF IsOpen
<1>1. ASSUME NEW c \in Clients, Client(c) PROVE TypeOK'
  <2>1. conn[c] \in ConnType OBVIOUS
  <2>2. conn' \in [Clients -> ConnType]
    BY <1>1, <2>1, ConnClosure DEF Client, Connect, Type, Show, Quit
  <2> QED BY <1>1, <2>2 DEF Client, Connect, Type, Show, Quit
<1>2. CASE Select
  BY <1>2 DEF Select, Watched
<1>3. CASE EndOfScan
  BY <1>3 DEF EndOfScan
<1>4. CASE Accept
  BY <1>4 DEF Accept
<1>5. CASE AcceptError
  BY <1>5 DEF AcceptError
<1>6. ASSUME NEW f \in Fds, ReadData(f) PROVE TypeOK'
  <2>1. PICK n \in 1..Len(conn[file[f]].in) :
          /\ buf' = Taken(conn[file[f]], n)
          /\ conn' = [conn EXCEPT ![file[f]] = Left(@, n)]
    BY <1>6 DEF ReadData
  <2>2. file[f] \in Clients /\ conn[file[f]] \in ConnType
    BY <1>6, <1>c DEF ReadData
  <2>3. buf' \in Seq(Nat) /\ conn' \in [Clients -> ConnType]
    BY <2>1, <2>2, ReadClosure
  <2> QED BY <1>6, <2>3 DEF ReadData
<1>7. ASSUME NEW f \in Fds, ReadError(f) PROVE TypeOK'
  <2>1. conn' \in [Clients -> ConnType]
    BY <1>7, <1>c, ConnClosure DEF ReadError
  <2> QED BY <1>7, <2>1 DEF ReadError
<1>8. ASSUME NEW f \in Fds, ReadEof(f) PROVE TypeOK'
  BY <1>8 DEF ReadEof
<1>9. CASE WritePiece \/ WriteToGone
  <2> DEFINE c == file[i]
  <2>1. pc = "write" /\ buf # <<>>
    BY <1>9 DEF WritePiece, WriteToGone
  <2>2. c \in Clients /\ conn[c] \in ConnType
    BY <2>1, <1>c DEF Writing, IsOpen
  <2>3. Head(buf) \in Nat /\ Tail(buf) \in Seq(Nat)
    BY <2>1
  <2>4. Written(conn[c], Head(buf)) \subseteq ConnType
    BY <2>2, <2>3, ConnClosure
  <2>5. conn' \in [Clients -> ConnType]
    BY <1>9, <2>2, <2>4 DEF WritePiece, WriteToGone
  <2>6. buf' = <<>> \/ buf' = Tail(buf)
    BY <1>9 DEF WritePiece, WriteToGone
  <2>7. <<>> \in Seq(Nat)
    OBVIOUS
  <2> QED BY <1>9, <2>3, <2>5, <2>6, <2>7 DEF WritePiece, WriteToGone
<1>10. CASE WriteDone
  BY <1>10 DEF WriteDone
<1>11. CASE UNCHANGED vars
  BY <1>11 DEF vars
<1> QED
  BY <1>1, <1>2, <1>3, <1>4, <1>5, <1>6, <1>7, <1>8, <1>9, <1>10, <1>11
  DEF Next, Server, Scan, Write

-----------------------------------------------------------------------------
(* Descriptors: who holds what, and what select is given.                   *)

LEMMA HoldInit ==
  Init => WatchesAll /\ OneHolder /\ Writing /\ Bounded /\ SnapshotValid
<1> SUFFICES ASSUME Init
             PROVE  WatchesAll /\ OneHolder /\ Writing /\ Bounded /\ SnapshotValid
  OBVIOUS
<1>1. WatchesAll BY SelectAssumption DEF Init, WatchesAll
<1>2. OneHolder BY SelectAssumption DEF Init, OneHolder
<1>3. Writing /\ Bounded /\ SnapshotValid
  BY DEF Init, Writing, Bounded, SnapshotValid
<1> QED BY <1>1, <1>2, <1>3

LEMMA WatchStep == TypeOK /\ WatchesAll /\ [Next]_vars => WatchesAll'
<1> SUFFICES ASSUME TypeOK, WatchesAll, [Next]_vars PROVE WatchesAll'
  OBVIOUS
<1> USE SelectAssumption DEF WatchesAll, watch
<1>t. /\ file \in [Fds -> Clients \cup {NoClient}] /\ fd_max \in Nat
      /\ backlog \in SUBSET Clients
  BY DEF TypeOK
<1>1. ASSUME NEW c \in Clients, Client(c) PROVE WatchesAll'
  BY <1>1 DEF Client, Connect, Type, Show, Quit
<1>2. CASE Accept
  <2>1. PICK c \in backlog, f \in Fds :
       /\ file' = [file EXCEPT ![f] = c]
       /\ read_set' = read_set \cup {f}
       /\ fd_max' = IF fd_max < f THEN f ELSE fd_max
    BY <1>2 DEF Accept
  <2>2. read_set' = {server_socket} \cup {g \in Fds : file'[g] # NoClient}
    BY <2>1, <1>t
  <2>3. fd_max' \in Nat /\ fd_max <= fd_max' /\ f <= fd_max'
    BY <2>1, <1>t
  <2>4. \A g \in read_set' : g \in Nat /\ g <= fd_max'
    BY <2>1, <2>3, <1>t
  <2> QED BY <2>2, <2>4
<1>3. ASSUME NEW f \in Fds, ReadEof(f) PROVE WatchesAll'
  BY <1>3, <1>t DEF ReadEof
<1>4. ASSUME NEW f \in Fds, ReadData(f) \/ ReadError(f) PROVE WatchesAll'
  BY <1>4 DEF ReadData, ReadError
<1>5. CASE Select \/ EndOfScan \/ AcceptError \/ Write
  BY <1>5 DEF Select, EndOfScan, AcceptError, Write, WritePiece, WriteToGone, WriteDone
<1>6. CASE UNCHANGED vars
  BY <1>6 DEF vars
<1> QED BY <1>1, <1>2, <1>3, <1>4, <1>5, <1>6 DEF Next, Server, Scan

LEMMA WritingStep == Writing /\ [Next]_vars => Writing'
<1> SUFFICES ASSUME Writing, [Next]_vars PROVE Writing'
  OBVIOUS
<1> USE DEF Writing
<1>1. ASSUME NEW c \in Clients, Client(c) PROVE Writing'
  BY <1>1 DEF Client, Connect, Type, Show, Quit
<1>2. ASSUME NEW f \in Fds, ReadData(f) PROVE Writing'
  BY <1>2 DEF ReadData, IsOpen
<1>3. ASSUME NEW f \in Fds, ReadError(f) \/ ReadEof(f) PROVE Writing'
  BY <1>3 DEF ReadError, ReadEof
<1>4. CASE Select \/ EndOfScan \/ Accept \/ AcceptError \/ Write
  BY <1>4 DEF Select, EndOfScan, Accept, AcceptError, Write, WritePiece, WriteToGone,
     WriteDone
<1>5. CASE UNCHANGED vars
  BY <1>5 DEF vars
<1> QED BY <1>1, <1>2, <1>3, <1>4, <1>5 DEF Next, Server, Scan

LEMMA BoundedStep == TypeOK /\ Bounded /\ [Next]_vars => Bounded'
<1> SUFFICES ASSUME TypeOK, Bounded, [Next]_vars PROVE Bounded'
  OBVIOUS
<1> USE SelectAssumption DEF Bounded, watch
<1>1. ASSUME NEW c \in Clients, Client(c) PROVE Bounded'
  BY <1>1 DEF Client, Connect, Type, Show, Quit
<1>2. CASE Select
  BY <1>2 DEF Select, Watched
<1>3. CASE Accept
  <2>1. PICK h \in Fds : fd_max' = (IF fd_max < h THEN h ELSE fd_max) /\ copy' = copy
    BY <1>3 DEF Accept
  <2>2. /\ fd_max \in Nat /\ h \in Nat /\ \A f \in copy : f \in Nat
    BY DEF TypeOK
  <2>3. fd_max <= fd_max'
    BY <2>1, <2>2
  <2> QED BY <2>1, <2>2, <2>3
<1>4. ASSUME NEW f \in Fds, ReadData(f) \/ ReadError(f) \/ ReadEof(f) PROVE Bounded'
  BY <1>4 DEF ReadData, ReadError, ReadEof
<1>5. CASE EndOfScan \/ AcceptError \/ Write
  BY <1>5 DEF EndOfScan, AcceptError, Write, WritePiece, WriteToGone, WriteDone
<1>6. CASE UNCHANGED vars
  BY <1>6 DEF vars
<1> QED BY <1>1, <1>2, <1>3, <1>4, <1>5, <1>6 DEF Next, Server, Scan

LEMMA HolderStep == TypeOK /\ OneHolder /\ Writing /\ [Next]_vars => OneHolder'
<1> SUFFICES ASSUME TypeOK, OneHolder, Writing, [Next]_vars PROVE OneHolder'
  OBVIOUS
<1> USE SelectAssumption DEF OneHolder, net
<1>t. /\ file \in [Fds -> Clients \cup {NoClient}]
      /\ conn \in [Clients -> ConnType] /\ backlog \in SUBSET Clients
  BY DEF TypeOK
<1>1. ASSUME NEW c \in Clients, Connect(c) PROVE OneHolder'
  <2>1. conn'[c].peer = "open" /\ \A d \in Clients : d # c => conn'[d] = conn[d]
    BY <1>1, <1>t, PeerFrame DEF Connect
  <2> QED BY <1>1, <1>t, <2>1 DEF Connect
<1>2. ASSUME NEW c \in Clients, Type(c) \/ Show(c) \/ Quit(c) PROVE OneHolder'
  <2>1. \A d \in Clients : conn'[d].peer = "none" => conn[d].peer = "none"
    BY <1>2, <1>t, PeerFrame DEF Type, Show, Quit
  <2> QED BY <1>2, <2>1 DEF Type, Show, Quit
<1>3. CASE Accept
  <2>1. PICK c \in backlog, f \in Fds :
       /\ file' = [file EXCEPT ![f] = c]
       /\ backlog' = backlog \ {c}
       /\ conn' = conn
    BY <1>3 DEF Accept
  <2>2. \A g \in Fds : file'[g] = IF g = f THEN c ELSE file[g]
    BY <2>1, <1>t
  <2>3. \A g \in Fds : file[g] # c
    BY <2>1
  <2>4. \A d \in Clients : conn'[d].peer = "none" => d \notin backlog
    BY <2>1
  <2>5. \A g, h \in Fds : file'[g] = file'[h] /\ file'[g] # NoClient => g = h
    BY <2>2, <2>3
  <2>6. \A g \in Fds : file'[g] \notin backlog'
    BY <2>1, <2>2
  <2>7. \A d \in Clients : conn'[d].peer = "none" =>
          d \notin backlog' /\ \A g \in Fds : file'[g] # d
    BY <2>1, <2>2, <2>4
  <2> QED BY <2>5, <2>6, <2>7
<1>4. ASSUME NEW f \in Fds, ReadEof(f) PROVE OneHolder'
  <2>1. \A g \in Fds : file'[g] = IF g = f THEN NoClient ELSE file[g]
    BY <1>4, <1>t DEF ReadEof
  <2>2. NoClient \notin backlog
    BY <1>t
  <2>3. /\ UNCHANGED backlog
        /\ \A d \in Clients : conn'[d].peer = "none" => conn[d].peer = "none"
    BY <1>4, <1>t DEF ReadEof
  <2> QED BY <2>1, <2>2, <2>3
<1>5. ASSUME NEW f \in Fds, ReadData(f) \/ ReadError(f) PROVE OneHolder'
  <2>1. file[f] \in Clients /\ conn[file[f]] \in ConnType
    BY <1>5, <1>t DEF ReadData, ReadError, IsOpen
  <2>2. \A d \in Clients : conn'[d].peer = "none" => conn[d].peer = "none"
    BY SMTT(20), <1>5, <2>1, <1>t, PeerFrame DEF ReadData, ReadError
  <2> QED BY <1>5, <2>2 DEF ReadData, ReadError
<1>6. CASE WritePiece \/ WriteToGone
  <2>1. file[i] \in Clients /\ conn[file[i]] \in ConnType
    BY <1>6, <1>t DEF WritePiece, WriteToGone, Writing
  <2>2. PICK w \in Written(conn[file[i]], Head(buf)) \cup {conn[file[i]]} :
          conn' = [conn EXCEPT ![file[i]] = w]
    BY <1>6 DEF WritePiece, WriteToGone
  <2>3. w.peer = "none" => conn[file[i]].peer = "none"
    BY <2>1, <2>2, PeerFrame
  <2>4. \A d \in Clients : conn'[d].peer = "none" => conn[d].peer = "none"
    BY <2>1, <2>2, <2>3, <1>t
  <2> QED BY <1>6, <2>4 DEF WritePiece, WriteToGone
<1>7. CASE Select \/ EndOfScan \/ AcceptError \/ WriteDone
  BY <1>7 DEF Select, EndOfScan, AcceptError, WriteDone
<1>8. CASE UNCHANGED vars
  BY <1>8 DEF vars
<1> QED BY <1>1, <1>2, <1>3, <1>4, <1>5, <1>6, <1>7, <1>8
  DEF Next, Server, Scan, Write, Client

-----------------------------------------------------------------------------
(* The snapshot.                                                            *)

(* What made a connection readable stays until the server reads or writes.  *)
LEMMA ReadyFrame ==
  ASSUME NEW k \in ConnType, Readable(k), k.peer # "none"
  PROVE  /\ k.peer = "open" => Readable(Send(k)) /\ Readable(HangUp(k))
         /\ Readable(Receive(k))
<1>1. k.peer = "open" => k.in # <<>>
  BY DEF Readable, DataReady, ErrorReady, EofReady
<1>2. Receive(k).in = k.in /\ Receive(k).peer = k.peer
      /\ HangUp(k).in = k.in
  BY DEF Receive, HangUp, ConnType
<1>3. Send(k).in # <<>>
  <2>1. k.in \in Seq(Nat) /\ Send(k).in = Append(k.in, k.sent + 1)
    BY DEF Send, ConnType
  <2>2. Len(Send(k).in) = Len(k.in) + 1 /\ Len(k.in) \in Nat
    BY <2>1
  <2>3. Len(Send(k).in) # 0
    BY <2>2
  <2> QED BY <2>3
<1> QED BY <1>1, <1>2, <1>3 DEF Readable, DataReady, ErrorReady, EofReady

(* Every descriptor the walk has yet to visit is as it was, or still ready. *)
LEMMA SnapshotStep ==
  TypeOK /\ OneHolder /\ Writing /\ Bounded /\ SnapshotValid /\ [Next]_vars
    => SnapshotValid'
<1> SUFFICES ASSUME TypeOK, OneHolder, Writing, Bounded, SnapshotValid, [Next]_vars,
                    pc' \in {"scan", "write"},
                    NEW f \in ToVisit', pc' = "write" => f # i'
             PROVE  Ready(f)'
  BY DEF SnapshotValid
<1> USE SelectAssumption DEF ToVisit
<1>t. /\ file \in [Fds -> Clients \cup {NoClient}] /\ i \in Nat /\ fd_max \in Nat
      /\ conn \in [Clients -> ConnType] /\ backlog \in SUBSET Clients
      /\ copy \in SUBSET (Fds \cup {server_socket})
  BY DEF TypeOK
<1>0. /\ \A g \in ToVisit : pc \in {"scan", "write"} /\ (pc = "write" => g # i) => Ready(g)
  BY DEF SnapshotValid
<1>1. ASSUME NEW c \in Clients, Client(c) PROVE Ready(f)'
  <2>1. f \in ToVisit /\ Ready(f) /\ file' = file
    BY <1>1, <1>0 DEF Client, Connect, Type, Show, Quit, watch
  <2>2. CASE f = server_socket
    BY <1>1, <2>1, <2>2 DEF Ready, Client, Connect, Type, Show, Quit
  <2>3. CASE f # server_socket
    <3> DEFINE d == file[f]
    <3>1. /\ f \in Fds /\ d \in Clients /\ Readable(conn[d])
          /\ conn[d] \in ConnType /\ conn[d].peer # "none"
      BY <2>1, <2>3, <1>t DEF Ready, IsOpen, OneHolder
    <3>2. Readable(conn'[d])
      <4>1. CASE d # c
        BY <1>1, <1>t, <3>1, <4>1 DEF Client, Connect, Type, Show, Quit
      <4>2. CASE d = c
        BY <1>1, <1>t, <3>1, <4>2, ReadyFrame DEF Client, Connect, Type, Show, Quit
      <4> QED BY <4>1, <4>2
    <3> QED BY <2>1, <2>3, <3>1, <3>2 DEF Ready, IsOpen
  <2> QED BY <2>2, <2>3
<1>2. CASE Select
  BY <1>2 DEF Select, Ready, net, IsOpen
<1>3. CASE Accept
  <2>1. PICK c \in backlog, h \in Fds :
       /\ LowestFree(h)
       /\ file' = [file EXCEPT ![h] = c]
       /\ read_set' = read_set \cup {h}
       /\ fd_max' = IF fd_max < h THEN h ELSE fd_max
       /\ conn' = conn /\ copy' = copy /\ i' = server_socket + 1
       /\ pc = "scan" /\ IsNext(server_socket)
    BY <1>3 DEF Accept
  <2>2. f \in Fds /\ f \in copy /\ f # server_socket
    BY <2>1, <1>t
  <2>3. f <= fd_max
    BY <2>2 DEF Bounded
  <2>4. f \in ToVisit /\ Ready(f)
    BY <2>1, <2>2, <2>3, <1>t, <1>0 DEF IsNext
  <2>5. file[f] # NoClient /\ f # h /\ Readable(conn[file[f]])
    BY <2>1, <2>2, <2>4 DEF Ready, IsOpen, LowestFree
  <2> QED BY <2>1, <2>2, <2>5, <1>t DEF Ready, IsOpen
<1>4. ASSUME NEW g \in Fds, ReadData(g) \/ ReadError(g) \/ ReadEof(g) PROVE Ready(f)'
  <2>1. /\ f \in ToVisit /\ f # g
        /\ pc = "scan" /\ UNCHANGED backlog /\ IsOpen(g)
    <3>1. /\ g \in ToVisit /\ pc = "scan" /\ UNCHANGED <<backlog, copy, fd_max>>
          /\ IsOpen(g)
      BY <1>4 DEF ReadData, ReadError, ReadEof, IsNext, watch, net
    <3>2. (i' = g /\ pc' = "write") \/ i' = g + 1
      BY <1>4 DEF ReadData, ReadError, ReadEof
    <3>3. f \in Nat /\ g \in Nat /\ i' <= f /\ f \in copy /\ f <= fd_max
      BY <3>1, <1>t
    <3>4. g <= f /\ f # g
      BY <3>2, <3>3
    <3> QED BY <3>1, <3>3, <3>4, <1>t
  <2>2. Ready(f)
    BY <2>1, <1>0
  <2>3. CASE f = server_socket
    BY <2>1, <2>2, <2>3 DEF Ready
  <2>4. CASE f # server_socket
    <3> DEFINE d == file[f]
    <3>1. f \in Fds /\ IsOpen(f) /\ d \in Clients /\ Readable(conn[d])
      BY <2>2, <2>4, <1>t DEF Ready, IsOpen
    <3>2. file[g] \in Clients /\ d # file[g]
      BY <2>1, <3>1, <1>t DEF OneHolder, IsOpen
    <3>3. conn'[d] = conn[d] /\ file'[f] = d
      BY <1>4, <2>1, <3>1, <3>2, <1>t DEF ReadData, ReadError, ReadEof, net
    <3> QED BY <2>4, <3>1, <3>3 DEF Ready, IsOpen
  <2> QED BY <2>3, <2>4
<1>5. CASE WritePiece \/ WriteToGone
  <2>1. /\ f \in ToVisit /\ f # i /\ i' = i /\ i \in Fds /\ file[i] # NoClient
        /\ pc = "write" /\ UNCHANGED <<backlog, file>> /\ server_socket < i /\ i <= f
    BY <1>5, <1>t DEF WritePiece, WriteToGone, Writing, watch
  <2>2. Ready(f) /\ f # server_socket
    BY <2>1, <1>0, <1>t
  <2>3. f \in Fds /\ file[f] \in Clients /\ Readable(conn[file[f]])
    BY <2>2, <1>t DEF Ready, IsOpen
  <2>4. file[f] # file[i]
    BY <2>1, <2>3 DEF OneHolder
  <2>5. conn'[file[f]] = conn[file[f]]
    BY <1>5, <2>1, <2>3, <2>4, <1>t DEF WritePiece, WriteToGone
  <2> QED BY <2>1, <2>2, <2>3, <2>5 DEF Ready, IsOpen
<1>6. CASE WriteDone
  <2>1. f \in ToVisit /\ f # i
    BY <1>6, <1>t DEF WriteDone, watch
  <2> QED BY <1>6, <2>1, <1>0 DEF WriteDone, Ready, IsOpen, net
<1>7. CASE EndOfScan \/ AcceptError
  BY <1>7 DEF EndOfScan, AcceptError
<1>8. CASE UNCHANGED vars
  BY <1>8, <1>0 DEF vars, watch, net, Ready, IsOpen
<1> QED BY <1>1, <1>2, <1>3, <1>4, <1>5, <1>6, <1>7, <1>8
  DEF Next, Server, Scan, Write

-----------------------------------------------------------------------------
(* The echoed streams.                                                      *)

LEMMA StreamInit == Init => Streams
BY DEF Init, Streams, Stream, InTransit, Held, NoConn, Closed

(* A client nobody touches keeps its stream.                                *)
LEMMA StreamFrame ==
  ASSUME Streams, NEW c \in Clients, conn'[c] = conn[c], Held(c)' = Held(c)
  PROVE  ~Closed(conn'[c]) => Stream(conn'[c], Held(c)')
BY DEF Streams

LEMMA HeldType == TypeOK => \A c \in Clients : Held(c) \in Seq(Nat)
BY DEF TypeOK, Held

(* Connecting and reading leave the stream alone.                           *)
LEMMA StreamSame ==
  ASSUME NEW k \in ConnType, NEW h, Stream(k, h)
  PROVE  Stream(Dial(k), h) /\ Stream(Receive(k), h)
<1>1. /\ Dial(k).out = k.out /\ Dial(k).in = k.in /\ Dial(k).sent = k.sent
      /\ Receive(k).out = k.out /\ Receive(k).in = k.in /\ Receive(k).sent = k.sent
  BY DEF Dial, Receive, ConnType
<1> QED BY <1>1 DEF Stream, InTransit

LEMMA StreamClient ==
  ASSUME TypeOK, Streams, NEW d \in Clients, Client(d) PROVE Streams'
<1>t. conn \in [Clients -> ConnType] BY DEF TypeOK
<1> SUFFICES ASSUME NEW c \in Clients, ~Closed(conn'[c])
             PROVE  Stream(conn'[c], Held(c)')
  BY DEF Streams
<1>1. Held(c)' = Held(c)
  BY DEF Client, Connect, Type, Show, Quit, Held
<1>2. CASE c # d
  <2>1. conn'[c] = conn[c]
    BY <1>t, <1>2 DEF Client, Connect, Type, Show, Quit
  <2> QED BY <1>1, <2>1, StreamFrame
<1>3. CASE c = d
  <2>1. conn[c] \in ConnType /\ Held(c) \in Seq(Nat)
    BY <1>t, HeldType
  <2>2. ~Closed(conn[c]) /\ conn'[c] \in {Dial(conn[c]), Receive(conn[c]), Send(conn[c]),
                                          HangUp(conn[c])}
    BY <1>3, <1>t DEF Client, Connect, Type, Show, Quit, Closed
  <2>3. conn'[c] # HangUp(conn[c])
    BY <2>1 DEF HangUp, Closed, ConnType
  <2>4. Stream(conn[c], Held(c))
    BY <2>2 DEF Streams
  <2> QED BY <1>1, <2>1, <2>2, <2>3, <2>4, StreamSend, StreamSame
<1> QED BY <1>2, <1>3

LEMMA StreamReadData ==
  ASSUME TypeOK, Streams, NEW f \in Fds, ReadData(f) PROVE Streams'
<1>t. /\ conn \in [Clients -> ConnType]
      /\ file \in [Fds -> Clients \cup {NoClient}]
  BY DEF TypeOK
<1> SUFFICES ASSUME NEW c \in Clients, ~Closed(conn'[c])
             PROVE  Stream(conn'[c], Held(c)')
  BY DEF Streams
<1> DEFINE d == file[f]
<1>1. PICK n \in 1..Len(conn[d].in) :
        /\ buf' = Taken(conn[d], n)
        /\ conn' = [conn EXCEPT ![d] = Left(@, n)]
  BY DEF ReadData
<1>2. d \in Clients /\ pc = "scan" /\ pc' = "write" /\ i' = f /\ file' = file
  BY <1>t DEF ReadData, IsOpen
<1>3. Held(c) = <<>> BY <1>2 DEF Held
<1>4. CASE c # d
  <2>1. Held(c)' = <<>> BY <1>2, <1>4 DEF Held
  <2>2. conn'[c] = conn[c] BY <1>1, <1>2, <1>4, <1>t
  <2> QED BY <1>3, <2>1, <2>2, StreamFrame
<1>5. CASE c = d
  <2>1. conn[c] \in ConnType /\ conn'[c] = Left(conn[c], n)
    BY <1>1, <1>2, <1>5, <1>t
  <2>2. Held(c)' = Taken(conn[c], n)
    BY <1>1, <1>2, <1>5 DEF Held
  <2>3. Left(conn[c], n).peer = conn[c].peer
    BY <2>1, PeerFrame
  <2>4. Stream(conn[c], <<>>)
    BY <1>3, <2>1, <2>3 DEF Streams, Closed
  <2> QED BY <1>1, <1>5, <2>1, <2>2, <2>4, StreamRead
<1> QED BY <1>4, <1>5

LEMMA StreamWrite ==
  ASSUME TypeOK, Writing, Streams, WritePiece
  PROVE  /\ Streams'
         /\ \E d \in Clients :
              /\ Len(conn[d].out) < conn[d].sent
              /\ conn' = [conn EXCEPT ![d] = [conn[d] EXCEPT !.out =
                           Append(conn[d].out, Len(conn[d].out) + 1)]]
<1>t. conn \in [Clients -> ConnType] /\ buf \in Seq(Nat) /\ buf # <<>>
      /\ file \in [Fds -> Clients \cup {NoClient}]
  BY DEF TypeOK, WritePiece
<1> DEFINE d == file[i]
           l == [conn[d] EXCEPT !.out = Append(@, Head(buf))]
<1>1. /\ d \in Clients /\ conn[d].peer = "open" /\ buf' = Tail(buf)
      /\ UNCHANGED <<file, i, pc>> /\ pc = "write"
      /\ conn' = [conn EXCEPT ![d] = l]
  BY <1>t DEF WritePiece, Writing, Written
<1>2. Held(d) = buf /\ \A c \in Clients : c = d => Held(c)' = Tail(buf)
  BY <1>1 DEF Held
<1>3. Stream(conn[d], buf)
  BY <1>1, <1>2 DEF Streams, Closed
<1>4. Head(buf) = Len(conn[d].out) + 1 /\ Len(conn[d].out) < conn[d].sent
      /\ Stream(l, Tail(buf))
  BY <1>1, <1>3, <1>t, StreamEcho
<1>5. conn'[d] = l /\ \A c \in Clients : c # d => conn'[c] = conn[c]
  BY <1>1, <1>t
<1>6. \A c \in Clients : c # d => Held(c)' = Held(c)
  BY <1>1 DEF Held
<1>7. ASSUME NEW c \in Clients, ~Closed(conn'[c])
      PROVE  Stream(conn'[c], Held(c)')
  <2>1. CASE c = d
    <3>1. conn'[c] = l /\ Held(c)' = Tail(buf) BY <1>2, <1>5, <2>1
    <3> QED BY <3>1, <1>4
  <2>2. CASE c # d
    BY <1>5, <1>6, <1>7, <2>2, StreamFrame
  <2> QED BY <2>1, <2>2
<1>8. Streams'
  BY <1>7 DEF Streams
<1> QED BY <1>1, <1>4, <1>8

LEMMA StreamStep ==
  TypeOK /\ Writing /\ Streams /\ [Next]_vars => Streams'
<1> SUFFICES ASSUME TypeOK, Writing, Streams, [Next]_vars PROVE Streams'
  OBVIOUS
<1>t. /\ conn \in [Clients -> ConnType]
      /\ file \in [Fds -> Clients \cup {NoClient}]
  BY DEF TypeOK
<1>1. ASSUME NEW f \in Fds, ReadError(f) PROVE Streams'
  <2>1. file[f] \in Clients /\ conn' = [conn EXCEPT ![file[f]] = ErrorSeen(@)]
    BY <1>1, <1>t DEF ReadError, IsOpen
  <2>2. Closed(conn'[file[f]])
    BY <2>1, <1>t DEF ErrorSeen, Closed, ConnType
  <2>3. \A c \in Clients : c # file[f] => conn'[c] = conn[c]
    BY <2>1, <1>t
  <2>4. \A c \in Clients : Held(c)' = Held(c)
    BY <1>1 DEF ReadError, Held
  <2> QED BY <2>2, <2>3, <2>4, StreamFrame DEF Streams
<1>2. CASE WriteToGone
  <2> DEFINE d == file[i]
  <2>1. PICK k \in Written(conn[d], Head(buf)) \cup {conn[d]} :
          conn' = [conn EXCEPT ![d] = k]
    BY <1>2 DEF WriteToGone
  <2>2. d \in Clients /\ Closed(conn[d]) /\ conn[d] \in ConnType
    BY <1>2, <1>t DEF WriteToGone, Writing
  <2>3. Closed(k)
    BY <2>1, <2>2 DEF Written, Closed, ConnType
  <2>4. Closed(conn'[d]) /\ \A c \in Clients : c # d => conn'[c] = conn[c]
    BY <2>1, <2>2, <2>3, <1>t
  <2>5. \A c \in Clients : c # d => Held(c)' = Held(c)
    BY <1>2 DEF WriteToGone, Held
  <2> QED BY <2>4, <2>5, StreamFrame DEF Streams
<1>3. ASSUME UNCHANGED conn, \A c \in Clients : Held(c)' = Held(c) PROVE Streams'
  BY <1>3, StreamFrame DEF Streams
<1>4. CASE Select \/ EndOfScan \/ Accept \/ AcceptError \/ WriteDone
  <2>1. UNCHANGED conn /\ \A c \in Clients : Held(c)' = Held(c)
    BY <1>4 DEF Select, EndOfScan, Accept, AcceptError, WriteDone, net, Held
  <2> QED BY <2>1, <1>3
<1>5. ASSUME NEW f \in Fds, ReadEof(f) PROVE Streams'
  <2>1. UNCHANGED conn /\ \A c \in Clients : Held(c)' = Held(c)
    BY <1>5 DEF ReadEof, net, Held
  <2> QED BY <2>1, <1>3
<1>6. CASE UNCHANGED vars
  <2>1. UNCHANGED conn /\ \A c \in Clients : Held(c)' = Held(c)
    BY <1>6 DEF vars, net, Held
  <2> QED BY <2>1, <1>3
<1> QED
  BY <1>1, <1>2, <1>4, <1>5, <1>6, StreamClient, StreamReadData, StreamWrite
  DEF Next, Server, Scan, Write

-----------------------------------------------------------------------------
(* The theorems.                                                            *)

LEMMA Inductive == Spec => []IInv
<1>1. Init => IInv
  BY TypeInit, HoldInit, StreamInit DEF IInv
<1>2. IInv /\ [Next]_vars => IInv'
  BY TypeStep, WatchStep, HolderStep, WritingStep, BoundedStep, SnapshotStep,
     StreamStep DEF IInv
<1> QED BY <1>1, <1>2, PTL DEF Spec

(* Every variable keeps its type.                                           *)
THEOREM TypeCorrect == Spec => []TypeOK
BY Inductive, PTL DEF IInv

(* select is given every open descriptor, no closed one, and a bound that   *)
(* covers them all.                                                         *)
THEOREM NobodyForgotten == Spec => []WatchesAll
BY Inductive, PTL DEF IInv

(* No accept and no read of the walk blocks, although the walk opens and    *)
(* closes descriptors while it uses a snapshot.                             *)
THEOREM SnapshotStaysValid == Spec => []SnapshotValid
BY Inductive, PTL DEF IInv

(* The server is an echo server: every client gets back what it sent, once  *)
(* and in order, and nothing else.                                          *)
THEOREM SelectImplementsEcho == Spec => EchoSpec
<1>1. Init => Echo!Init
  BY DEF Init, Echo!Init, NoConn
<1>2. IInv /\ [Next]_vars => [Echo!Next]_(Echo!vars)
  <2> SUFFICES ASSUME IInv, [Next]_vars PROVE [Echo!Next]_(Echo!vars)
    OBVIOUS
  <2> USE DEF IInv
  <2> DEFINE Sent == [c \in Clients |-> conn[c].sent]
             Out  == [c \in Clients |-> conn[c].out]
  <2>t. /\ conn \in [Clients -> ConnType]
        /\ file \in [Fds -> Clients \cup {NoClient}]
    BY DEF TypeOK
  <2>1. ASSUME NEW c \in Clients, Type(c) PROVE Echo!Next
    <3>1. conn' = [conn EXCEPT ![c] = Send(@)] BY <2>1 DEF Type
    <3>2. Send(conn[c]).out = conn[c].out /\ Send(conn[c]).sent = conn[c].sent + 1
      BY <2>t DEF Send, ConnType
    <3>3. Sent' = [Sent EXCEPT ![c] = @ + 1] BY <3>1, <3>2, <2>t
    <3>4. Out' = Out BY <3>1, <3>2, <2>t
    <3> QED BY <3>3, <3>4 DEF Echo!Next, Echo!Send
  <2>2. CASE WritePiece
    <3>1. PICK d \in Clients :
            /\ Len(conn[d].out) < conn[d].sent
            /\ conn' = [conn EXCEPT ![d] = [conn[d] EXCEPT !.out =
                         Append(conn[d].out, Len(conn[d].out) + 1)]]
      BY <2>2, StreamWrite
    <3> DEFINE k == [conn[d] EXCEPT !.out = Append(conn[d].out, Len(conn[d].out) + 1)]
    <3>2. k.sent = conn[d].sent /\ k.out = Append(conn[d].out, Len(conn[d].out) + 1)
      BY <2>t DEF ConnType
    <3>3. Sent' = Sent BY <3>1, <3>2, <2>t
    <3>4. Out' = [Out EXCEPT ![d] = Append(@, Len(@) + 1)] BY <3>1, <3>2, <2>t
    <3> QED BY <3>1, <3>3, <3>4 DEF Echo!Next, Echo!Echo
  <2>3. ASSUME \A c \in Clients : conn'[c].sent = conn[c].sent /\ conn'[c].out = conn[c].out
        PROVE  UNCHANGED Echo!vars
    BY <2>3 DEF Echo!vars
  <2>4. ASSUME NEW c \in Clients, Connect(c) \/ Show(c) \/ Quit(c)
        PROVE  UNCHANGED Echo!vars
    BY <2>t, <2>4, <2>3, OutFrame, SentFrame DEF Connect, Show, Quit
  <2>5. ASSUME NEW f \in Fds, ReadData(f) \/ ReadError(f) PROVE UNCHANGED Echo!vars
    <3>1. file[f] \in Clients /\ conn[file[f]] \in ConnType
      BY <2>5, <2>t DEF ReadData, ReadError, IsOpen
    <3> QED BY <3>1, <2>t, <2>5, <2>3, OutFrame, SentFrame DEF ReadData, ReadError
  <2>6. CASE WriteToGone
    <3> DEFINE d == file[i]
    <3>1. d \in Clients /\ conn[d] \in ConnType /\ Closed(conn[d])
      BY <2>6, <2>t DEF WriteToGone, Writing
    <3>2. PICK k \in Written(conn[d], Head(buf)) \cup {conn[d]} :
            conn' = [conn EXCEPT ![d] = k]
      BY <2>6 DEF WriteToGone
    <3>3. k.sent = conn[d].sent /\ k.out = conn[d].out
      BY <3>1, <3>2 DEF Written, Closed, ConnType
    <3> QED BY <3>1, <3>2, <3>3, <2>t, <2>3
  <2>7. CASE Select \/ EndOfScan \/ Accept \/ AcceptError \/ WriteDone
    BY <2>7, <2>3 DEF Select, EndOfScan, Accept, AcceptError, WriteDone, net
  <2>8. ASSUME NEW f \in Fds, ReadEof(f) PROVE UNCHANGED Echo!vars
    BY <2>8, <2>3 DEF ReadEof, net
  <2>9. CASE UNCHANGED vars
    BY <2>9, <2>3 DEF vars, net
  <2> QED
    BY <2>1, <2>2, <2>4, <2>5, <2>6, <2>7, <2>8, <2>9
    DEF Next, Server, Scan, Write, Client
<1> QED BY <1>1, <1>2, Inductive, PTL DEF Spec, EchoSpec, Echo!Spec
==============================================================================

---------------------------- MODULE SelectServer ----------------------------
(***************************************************************************)
(* ch12/echo_selectserv.cpp: one process, one thread.  select() copies the *)
(* ready part of read_set; the loop then walks through the copy in         *)
(* descriptor order, while clients connect, type and leave, and while      *)
(* descriptors are opened and closed by the walk itself.                   *)
(***************************************************************************)
EXTENDS TcpConn, FiniteSets

CONSTANTS
  Clients,         \* each connects once
  server_socket,   \* the descriptor socket() returned
  Fds,             \* descriptors accept can return
  MaxPieces,       \* bound: pieces one client types
  NoClient

ASSUME SelectAssumption ==
  /\ NoClient \notin Clients
  /\ server_socket \in Nat
  /\ Fds \subseteq Nat /\ \A f \in Fds : server_socket < f
  /\ MaxPieces \in Nat

VARIABLES
  conn, backlog,      \* connections; those listen() holds for accept
  file,               \* descriptor table of the server process
  read_set, fd_max,   \* what select watches
  copy, i, buf,       \* the snapshot, the loop's position, the bytes read
  pc                  \* "select", "scan", "write", or "dead"

net   == <<conn, backlog>>
watch == <<read_set, fd_max>>
vars  == <<net, file, watch, copy, i, buf, pc>>

Init ==
  /\ conn = [c \in Clients |-> NoConn] /\ backlog = {}
  /\ file = [f \in Fds |-> NoClient]
  /\ read_set = {server_socket} /\ fd_max = server_socket
  /\ copy = {} /\ i = 0 /\ buf = <<>>
  /\ pc = "select"

-----------------------------------------------------------------------------
(* The clients: ch4/echo_client.cpp, or anybody else.                       *)

Connect(c) ==
  /\ conn[c].peer = "none"
  /\ conn' = [conn EXCEPT ![c] = Dial(@)]
  /\ backlog' = backlog \cup {c}
  /\ UNCHANGED <<file, watch, copy, i, buf, pc>>

Type(c) ==
  /\ conn[c].peer = "open" /\ conn[c].sent < MaxPieces
  /\ conn' = [conn EXCEPT ![c] = Send(@)]
  /\ UNCHANGED <<backlog, file, watch, copy, i, buf, pc>>

Show(c) ==
  /\ conn[c].peer = "open" /\ conn[c].seen < Len(conn[c].out)
  /\ conn' = [conn EXCEPT ![c] = Receive(@)]
  /\ UNCHANGED <<backlog, file, watch, copy, i, buf, pc>>

Quit(c) ==
  /\ conn[c].peer = "open"
  /\ conn' = [conn EXCEPT ![c] = HangUp(@)]
  /\ UNCHANGED <<backlog, file, watch, copy, i, buf, pc>>

(* What clients do once the server process is gone is left out.             *)
Client(c) == pc # "dead" /\ (Connect(c) \/ Type(c) \/ Show(c) \/ Quit(c))

-----------------------------------------------------------------------------
(* The server *)

IsOpen(f) == f \in Fds /\ file[f] # NoClient

Readable(k) == DataReady(k) \/ ErrorReady(k) \/ EofReady(k)

Ready(f) ==
  IF f = server_socket THEN backlog # {} ELSE IsOpen(f) /\ Readable(conn[file[f]])

WatchedBelow == {f \in read_set : f < fd_max}    \* select(fd_max, ..)

Watched == {f \in read_set : f <= fd_max}    \* select(fd_max + 1, ..)

(* A timeout (select gives 0) goes round the loop and changes nothing.      *)
Select ==
  /\ pc = "select"
  /\ \E f \in Watched : Ready(f)
  /\ copy' = {f \in Watched : Ready(f)}
  /\ i' = 0
  /\ pc' = "scan"
  /\ UNCHANGED <<net, file, watch, buf>>

ToVisit == {f \in copy : i <= f /\ f <= fd_max}

IsNext(f) == f \in ToVisit /\ \A g \in ToVisit : f <= g

EndOfScan ==
  /\ pc = "scan" /\ ToVisit = {}
  /\ pc' = "select"
  /\ UNCHANGED <<net, file, watch, copy, i, buf>>

LowestFree(f) == file[f] = NoClient /\ \A g \in Fds : file[g] = NoClient => f <= g

AcceptIntoCopy ==    \* the new descriptor joins the walk under way
  /\ pc = "scan" /\ IsNext(server_socket)
  /\ \E c \in backlog, f \in Fds :
       /\ LowestFree(f)
       /\ file' = [file EXCEPT ![f] = c]
       /\ backlog' = backlog \ {c}
       /\ read_set' = read_set \cup {f}
       /\ copy' = copy \cup {f}
       /\ fd_max' = IF fd_max < f THEN f ELSE fd_max
  /\ i' = server_socket + 1
  /\ UNCHANGED <<conn, buf, pc>>

AcceptKeepMax ==
  /\ pc = "scan" /\ IsNext(server_socket)
  /\ \E c \in backlog, f \in Fds :
       /\ LowestFree(f)
       /\ file' = [file EXCEPT ![f] = c]
       /\ backlog' = backlog \ {c}
       /\ read_set' = read_set \cup {f}
  /\ i' = server_socket + 1
  /\ UNCHANGED <<conn, fd_max, copy, buf, pc>>

Accept ==
  /\ pc = "scan" /\ IsNext(server_socket)
  /\ \E c \in backlog, f \in Fds :
       /\ LowestFree(f)
       /\ file' = [file EXCEPT ![f] = c]
       /\ backlog' = backlog \ {c}
       /\ read_set' = read_set \cup {f}
       /\ fd_max' = IF fd_max < f THEN f ELSE fd_max
  /\ i' = server_socket + 1
  /\ UNCHANGED <<conn, copy, buf, pc>>

AcceptError ==    \* for example no descriptor is left: error_handling exits
  /\ pc = "scan" /\ IsNext(server_socket)
  /\ pc' = "dead"
  /\ UNCHANGED <<net, file, watch, copy, i, buf>>

ReadLeavingOne(f) ==
  /\ pc = "scan" /\ IsNext(f) /\ IsOpen(f)
  /\ \E n \in 1..Len(conn[file[f]].in) :
       /\ buf' = Taken(conn[file[f]], n)
       /\ conn' = [conn EXCEPT ![file[f]] = Left(@, n - 1)]
  /\ i' = f
  /\ pc' = "write"
  /\ UNCHANGED <<backlog, file, watch, copy>>

ReadData(f) ==
  /\ pc = "scan" /\ IsNext(f) /\ IsOpen(f)
  /\ \E n \in 1..Len(conn[file[f]].in) :
       /\ buf' = Taken(conn[file[f]], n)
       /\ conn' = [conn EXCEPT ![file[f]] = Left(@, n)]
  /\ i' = f
  /\ pc' = "write"
  /\ UNCHANGED <<backlog, file, watch, copy>>

ReadError(f) ==    \* -1 is not 0: write(i, buf, -1), which fails too
  /\ pc = "scan" /\ IsNext(f) /\ IsOpen(f)
  /\ ErrorReady(conn[file[f]])
  /\ conn' = [conn EXCEPT ![file[f]] = ErrorSeen(@)]
  /\ i' = f + 1
  /\ UNCHANGED <<backlog, file, watch, copy, buf, pc>>

ReadEofNoClear(f) ==    \* no FD_CLR
  /\ pc = "scan" /\ IsNext(f) /\ IsOpen(f)
  /\ EofReady(conn[file[f]])
  /\ file' = [file EXCEPT ![f] = NoClient]
  /\ i' = f + 1
  /\ UNCHANGED <<net, watch, copy, buf, pc>>

ReadEof(f) ==
  /\ pc = "scan" /\ IsNext(f) /\ IsOpen(f)
  /\ EofReady(conn[file[f]])
  /\ read_set' = read_set \ {f}
  /\ file' = [file EXCEPT ![f] = NoClient]
  /\ i' = f + 1
  /\ UNCHANGED <<net, fd_max, copy, buf, pc>>

(* The echo goes out piece by piece, as the buffers of a client that still  *)
(* listens take it ...                                                      *)
WritePiece ==
  /\ pc = "write" /\ buf # <<>>
  /\ LET c == file[i] IN
       /\ conn[c].peer = "open" /\ Writable(conn[c])
       /\ \E k \in Written(conn[c], Head(buf)) : conn' = [conn EXCEPT ![c] = k]
  /\ buf' = Tail(buf)
  /\ UNCHANGED <<backlog, file, watch, copy, i, pc>>

(* ... and what is left of it is dropped when the client has gone.  SIGPIPE *)
(* kills the server only if nothing of this write had been taken.           *)
WriteToGone ==
  /\ pc = "write" /\ buf # <<>>
  /\ LET c == file[i] IN
       /\ Closed(conn[c])
       /\ \E k \in Written(conn[c], Head(buf)) \cup {conn[c]} :
            conn' = [conn EXCEPT ![c] = k]
       /\ pc' = IF Fatal(conn[c]) THEN "dead" ELSE "write"
  /\ buf' = <<>>
  /\ UNCHANGED <<backlog, file, watch, copy, i>>

WriteDone ==
  /\ pc = "write" /\ buf = <<>>
  /\ i' = i + 1
  /\ pc' = "scan"
  /\ UNCHANGED <<net, file, watch, copy, buf>>

Write == WritePiece \/ WriteToGone \/ WriteDone

Scan == EndOfScan \/ Accept \/ \E f \in Fds : ReadData(f) \/ ReadError(f) \/ ReadEof(f)

Server == Select \/ Scan \/ AcceptError \/ Write

Next == Server \/ \E c \in Clients : Client(c)

Spec == Init /\ [][Next]_vars

(* The process runs whenever it can, and a client that listens reads what   *)
(* comes back; nothing obliges anybody to connect, type or quit.            *)
Fairness ==
  /\ WF_vars(Server)
  /\ \A c \in Clients : WF_vars(Show(c))

FairSpec == Spec /\ Fairness

-----------------------------------------------------------------------------
(* Every variable keeps its type: only descriptors the server holds or may  *)
(* be given are ever put into read_set.                                     *)
TypeOK ==
  /\ conn \in [Clients -> ConnType] /\ backlog \in SUBSET Clients
  /\ file \in [Fds -> Clients \cup {NoClient}]
  /\ read_set \in SUBSET (Fds \cup {server_socket}) /\ fd_max \in Nat
  /\ copy \in SUBSET (Fds \cup {server_socket})
  /\ i \in Nat /\ buf \in Seq(Nat)
  /\ pc \in {"select", "scan", "write", "dead"}

(* select is given every open descriptor, no closed one, and a bound that   *)
(* covers them all: no client can be forgotten.                             *)
WatchesAll ==
  /\ read_set = {server_socket} \cup {f \in Fds : file[f] # NoClient}
  /\ \A f \in read_set : f <= fd_max

(* The walk closes and opens descriptors while it uses a snapshot taken     *)
(* before.  Still, whatever it has yet to visit is open and ready, so that  *)
(* no accept and no read blocks, and none meets a stranger's descriptor:    *)
(* server_socket is visited first, and a descriptor is closed only when it  *)
(* is visited.                                                              *)
SnapshotValid ==
  pc \in {"scan", "write"} =>
    \A f \in ToVisit : (pc = "write" => f # i) => Ready(f)

(* Every client gets back what it sent, once and in order, and never what   *)
(* another client sent.                                                     *)
Echo == INSTANCE EchoService WITH
  sent <- [c \in Clients |-> conn[c].sent], echoed <- [c \in Clients |-> conn[c].out]
EchoSpec == Echo!Spec

(* What a client has sent is echoed in the end, unless it hangs up or the   *)
(* server dies.                                                             *)
AllEchoed ==
  \A c \in Clients : conn[c].sent > Len(conn[c].out) ~>
    Len(conn[c].out) = conn[c].sent \/ Closed(conn[c]) \/ pc = "dead"

(* A client that has gone is noticed and its descriptor closed.             *)
LeaverClosed ==
  \A c \in Clients : Closed(conn[c]) ~>
    (c \notin backlog /\ \A f \in Fds : file[f] # c) \/ pc = "dead"
==============================================================================

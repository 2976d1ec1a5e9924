-------------------------- MODULE ForkServer_proofs --------------------------
(* Proofs about ch10/echo_mpserv.cpp and ch11/echo_storeserv.cpp, for any    *)
(* clients, buffer and pipe sizes, reads of the logger and amounts of data.  *)
EXTENDS ForkServer, TcpConn_proofs

(* The signal that is pending and the handler that runs each have a cause   *)
(* of their own: a child that ended, or was stopped or continued.           *)
SignalInv ==
  /\ pauses >= 0
  /\ sigchld \/ handling => pauses > 0 \/ Zombies # {}
  /\ sigchld /\ handling =>
       \/ pauses > 1
       \/ pauses > 0 /\ Zombies # {}
       \/ \E y, z \in Zombies : y # z

(* A client has a process only after it was accepted, and then one.         *)
ForkInv ==
  /\ \A c \in Clients : c \in backlog => proc[c] = "none" /\ conn[c].peer # "none"
  /\ \A c \in Clients : conn[c].peer = "none" => proc[c] = "none"
  /\ pc = "fork" =>
       /\ clnt_sock \in Clients \ backlog
       /\ proc[clnt_sock] = "none" /\ conn[clnt_sock].peer # "none"

(* Before it reads again a process has written its record to the pipe, if   *)
(* there is one, and a logger without a file has read nothing.              *)
IdleInv ==
  /\ \A c \in Clients : proc[c] \in {"none", "read"} \/ ~Storing => rec[c] = <<>>
  /\ proc[Logger] = "nofile" => reads = 0

(* A client's text is what s, the file and the pipe, has of it, then the    *)
(* record r in hand, then what was not read yet; what was echoed and the    *)
(* bytes u to echo are no more than its process has read.                   *)
Kept(k, s, c, b, r, u) ==
  /\ InTransit(k, b, r) /\ Records(s, c, b)
  /\ Len(k.out) + Len(u) <= b + Len(r)
KeptUpTo(k, s, c, r, u) == \E b \in 0..k.sent : Kept(k, s, c, b, r, u)

StoreInv ==
  Storing /\ ~Crashed =>
    \A c \in Clients : KeptUpTo(conn[c], log \o pipe, c, rec[c], buf[c])

IInv == TypeOK /\ SignalInv /\ ForkInv /\ IdleInv /\ StoreInv

-----------------------------------------------------------------------------
LEMMA InvInit == Init => IInv
<1> SUFFICES ASSUME Init PROVE IInv
  OBVIOUS
<1> USE ForkAssumption
<1>p. /\ \A c \in Clients : proc[c] = "none"
      /\ proc[Logger] \in {"log", "nofile", "none"}
      /\ proc \in [Procs -> {"none", "log", "nofile", "read", "write", "store",
                             "spin", "zombie", "reaped"}]
  BY DEF Init, Procs
<1>1. TypeOK
  <2>1. NoConn \in ConnType BY DEF NoConn, ConnType, PeerStates
  <2>2. Len(<<>>) = 0 /\ <<>> \in Seq(Clients \X Nat) /\ <<>> \in Seq(Nat)
    OBVIOUS
  <2>3. conn \in [Clients -> ConnType] /\ backlog \in SUBSET Clients
    BY <2>1 DEF Init
  <2>4. buf \in [Clients -> Seq(Nat)] /\ rec \in [Clients -> Seq(Nat)]
    BY <2>2 DEF Init
  <2>5. /\ pipe \in Seq(Clients \X Nat) /\ Len(pipe) <= PipeSize
        /\ log \in Seq(Clients \X Nat)
    <3>1. pipe = <<>> /\ log = <<>> BY DEF Init
    <3>2. 0 <= PipeSize OBVIOUS
    <3> QED BY <2>2, <3>1, <3>2
  <2>6. reads \in 0..LogReads /\ program \in Programs
    BY DEF Init
  <2>7. /\ pc \in {"accept", "fork", "close"} /\ clnt_sock \in Clients \cup {None}
        /\ sigchld \in BOOLEAN /\ handling \in BOOLEAN
    BY DEF Init
  <2>8. pauses \in Int
    <3>1. pauses = 0 BY DEF Init
    <3> QED BY <3>1
  <2> QED BY <1>p, <2>3, <2>4, <2>5, <2>6, <2>7, <2>8 DEF TypeOK
<1>2. SignalInv /\ ForkInv /\ IdleInv
  BY <1>p DEF Init, SignalInv, ForkInv, IdleInv
<1>3. \A c \in Clients : KeptUpTo(NoConn, <<>>, c, <<>>, <<>>)
  BY DEF KeptUpTo, Kept, InTransit, Records, NoConn
<1>4. StoreInv
  <2>1. log \o pipe = <<>>
    BY DEF Init
  <2> QED BY <1>3, <2>1 DEF Init, StoreInv
<1> QED BY <1>1, <1>2, <1>4 DEF IInv

-----------------------------------------------------------------------------
(* Types.                                                                   *)

(* What a process writes to the pipe, and what it finds there.              *)
LEMMA RecordType ==
  ASSUME NEW c \in Clients, rec[c] \in Seq(Nat)
  PROVE  /\ Record(c) \in Seq(Clients \X Nat) /\ Len(Record(c)) = Len(rec[c])
         /\ \A i \in 1..Len(rec[c]) : Record(c)[i] = <<c, rec[c][i]>>
<1>1. Len(rec[c]) \in Nat /\ DOMAIN rec[c] = 1..Len(rec[c])
  OBVIOUS
<1>2. \A i \in 1..Len(rec[c]) : <<c, rec[c][i]>> \in Clients \X Nat
  OBVIOUS
<1>3. Record(c) = [i \in 1..Len(rec[c]) |-> <<c, rec[c][i]>>]
  BY <1>1 DEF Record
<1>4. Record(c) \in [1..Len(rec[c]) -> Clients \X Nat]
  BY <1>2, <1>3
<1>5. Record(c) \in Seq(Clients \X Nat) /\ Len(Record(c)) = Len(rec[c])
  BY <1>1, <1>4
<1> QED BY <1>3, <1>5

LEMMA PipeSplits ==
  ASSUME NEW T, NEW s \in Seq(T), NEW n \in 1..Len(s)
  PROVE  /\ SubSeq(s, 1, n) \in Seq(T) /\ SubSeq(s, n + 1, Len(s)) \in Seq(T)
         /\ Len(SubSeq(s, 1, n)) = n /\ Len(SubSeq(s, n + 1, Len(s))) = Len(s) - n
         /\ \A i \in 1..n : SubSeq(s, 1, n)[i] = s[i]
         /\ \A i \in 1..Len(s) - n : SubSeq(s, n + 1, Len(s))[i] = s[i + n]
<1>1. \A j \in 1..n : s[j] \in T
  OBVIOUS
<1>2. \A j \in n+1..Len(s) : s[j] \in T
  OBVIOUS
<1>3. /\ SubSeq(s, 1, n) \in Seq(T) /\ Len(SubSeq(s, 1, n)) = n
      /\ \A j \in 1..n-1+1 : SubSeq(s, 1, n)[j] = s[1+j-1]
  BY <1>1, SubSeqProperties
<1>4. /\ SubSeq(s, n + 1, Len(s)) \in Seq(T)
      /\ Len(SubSeq(s, n + 1, Len(s))) = IF n + 1 <= Len(s) THEN Len(s) - (n + 1) + 1 ELSE 0
      /\ \A j \in 1..Len(s)-(n+1)+1 : SubSeq(s, n + 1, Len(s))[j] = s[(n+1)+j-1]
  BY <1>2, SubSeqProperties
<1> QED BY <1>3, <1>4

LEMMA PipeMoves ==
  ASSUME NEW s \in Seq(Clients \X Nat), NEW n \in 1..Len(s), Len(s) <= PipeSize
  PROVE  /\ SubSeq(s, n + 1, Len(s)) \in Seq(Clients \X Nat)
         /\ Len(SubSeq(s, n + 1, Len(s))) <= PipeSize
         /\ SubSeq(s, 1, n) \in Seq(Clients \X Nat)
<1>1. /\ SubSeq(s, 1, n) \in Seq(Clients \X Nat)
      /\ SubSeq(s, n + 1, Len(s)) \in Seq(Clients \X Nat)
      /\ Len(SubSeq(s, n + 1, Len(s))) = Len(s) - n
  BY PipeSplits
<1>2. Len(s) - n <= PipeSize
  BY ForkAssumption
<1> QED BY <1>1, <1>2

(* The logger takes from the pipe, at most LogReads times.                  *)
LEMMA LoggerTypes ==
  ASSUME TypeOK, LoggerProcess
  PROVE  /\ pipe' \in Seq(Clients \X Nat) /\ Len(pipe') <= PipeSize
         /\ log' \in Seq(Clients \X Nat) /\ reads' \in 0..LogReads
<1>t. /\ pipe \in Seq(Clients \X Nat) /\ Len(pipe) <= PipeSize
      /\ log \in Seq(Clients \X Nat) /\ reads \in 0..LogReads /\ LogReads \in Nat
  BY ForkAssumption DEF TypeOK
<1>1. CASE LogRead
  <2>1. PICK n \in 1..Len(pipe) :
          log' = log \o SubSeq(pipe, 1, n) /\ pipe' = SubSeq(pipe, n + 1, Len(pipe))
    BY <1>1 DEF LogRead
  <2>2. reads' = reads + 1 /\ reads < LogReads
    BY <1>1 DEF LogRead
  <2>3. SubSeq(pipe, 1, n) \in Seq(Clients \X Nat)
    BY <1>t, PipeMoves
  <2>4. log \o SubSeq(pipe, 1, n) \in Seq(Clients \X Nat)
    BY <1>t, <2>3, ConcatProperties
  <2>5. reads + 1 \in 0..LogReads
    BY <1>t, <2>2
  <2> QED BY <1>t, <2>1, <2>2, <2>4, <2>5, PipeMoves
<1>2. CASE LogCrash
  <2>1. PICK n \in 1..Len(pipe) : pipe' = SubSeq(pipe, n + 1, Len(pipe))
    BY <1>2 DEF LogCrash
  <2>2. log' = log /\ reads' = reads
    BY <1>2 DEF LogCrash
  <2> QED BY <1>t, <2>1, <2>2, PipeMoves
<1>3. CASE LogEnd
  BY <1>t, <1>3 DEF LogEnd, store
<1> QED BY <1>1, <1>2, <1>3 DEF LoggerProcess

(* Writing the record makes the pipe longer, but not longer than it is.     *)
LEMMA StoreTypes ==
  ASSUME TypeOK, NEW c \in Clients, Store(c)
  PROVE  pipe' \in Seq(Clients \X Nat) /\ Len(pipe') <= PipeSize
<1>t. pipe \in Seq(Clients \X Nat) /\ rec[c] \in Seq(Nat)
  BY DEF TypeOK
<1>1. Record(c) \in Seq(Clients \X Nat) /\ Len(Record(c)) = Len(rec[c])
  BY <1>t, RecordType
<1>2. pipe' = pipe \o Record(c) /\ Len(pipe) + Len(rec[c]) <= PipeSize
  BY DEF Store, Fits
<1>3. pipe \o Record(c) \in Seq(Clients \X Nat)
      /\ Len(pipe \o Record(c)) = Len(pipe) + Len(Record(c))
  BY <1>t, <1>1, ConcatProperties
<1> QED BY <1>1, <1>2, <1>3

LEMMA WriteTypes ==
  ASSUME TypeOK, NEW c \in Clients, WritePiece(c) \/ WriteToGone(c)
  PROVE  conn' \in [Clients -> ConnType] /\ buf' \in [Clients -> Seq(Nat)]
<1>t. conn \in [Clients -> ConnType] /\ buf \in [Clients -> Seq(Nat)]
  BY DEF TypeOK
<1>1. buf[c] # <<>> /\ buf[c] \in Seq(Nat) /\ conn[c] \in ConnType
  BY <1>t DEF WritePiece, WriteToGone
<1>2. Head(buf[c]) \in Nat /\ Tail(buf[c]) \in Seq(Nat) /\ <<>> \in Seq(Nat)
  <2> DEFINE h == buf[c]
  <2>1. h # <<>> /\ h \in Seq(Nat) BY <1>1
  <2> HIDE DEF h
  <2>2. Head(h) \in Nat /\ Tail(h) \in Seq(Nat) BY <2>1
  <2> QED BY <2>2 DEF h
<1>3. Written(conn[c], Head(buf[c])) \subseteq ConnType
  BY <1>1, <1>2, ConnClosure
<1>4. \E k \in ConnType : conn' = [conn EXCEPT ![c] = k]
  BY <1>1, <1>3 DEF WritePiece, WriteToGone
<1>5. \E s \in Seq(Nat) : buf' = [buf EXCEPT ![c] = s]
  BY <1>2 DEF WritePiece, WriteToGone
<1> QED BY <1>t, <1>4, <1>5

LEMMA TypeStep == TypeOK /\ ForkInv /\ [Next]_vars => TypeOK'
<1> SUFFICES ASSUME TypeOK, ForkInv, [Next]_vars PROVE TypeOK'
  OBVIOUS
<1> USE ForkAssumption DEF TypeOK, net, signal, child, store, Parentside, Goto, Procs
<1>p. program' = program
  BY DEF Next, vars
<1>1. ASSUME NEW c \in Clients, Client(c) PROVE TypeOK'
  <2>1. conn[c] \in ConnType OBVIOUS
  <2>2. conn' \in [Clients -> ConnType]
    BY <1>1, <2>1, ConnClosure DEF Client, Connect, Type, Show, Quit
  <2>3. backlog' \in SUBSET Clients
    BY <1>1 DEF Client, Connect, Type, Show, Quit
  <2> QED BY <1>1, <1>p, <2>2, <2>3 DEF Client
<1>2. CASE Accept
  BY <1>2, <1>p DEF Accept
<1>3. CASE Fork
  BY <1>3, <1>p DEF Fork
<1>4. CASE Close \/ Deliver
  BY <1>4, <1>p DEF Close, Deliver
<1>5. CASE Reap
  <2>1. pauses' \in Int
    <3>1. pauses \in Int OBVIOUS
    <3>2. pauses' = pauses - 1 \/ pauses' = pauses BY <1>5 DEF Reap
    <3> QED BY <3>1, <3>2
  <2> QED BY <1>5, <1>p, <2>1 DEF Reap
<1>6. ASSUME NEW c \in Clients, ReadData(c) PROVE TypeOK'
  <2>1. PICK n \in 1..Len(conn[c].in) :
          /\ buf' = [buf EXCEPT ![c] = Taken(conn[c], n)]
          /\ rec' = [rec EXCEPT ![c] = IF Storing THEN Taken(conn[c], n) ELSE <<>>]
          /\ conn' = [conn EXCEPT ![c] = Left(@, n)]
    BY <1>6 DEF ReadData
  <2>2. Taken(conn[c], n) \in Seq(Nat) /\ Left(conn[c], n) \in ConnType /\ <<>> \in Seq(Nat)
    BY ReadClosure
  <2>3. buf' \in [Clients -> Seq(Nat)] /\ rec' \in [Clients -> Seq(Nat)]
        /\ conn' \in [Clients -> ConnType]
    BY <2>1, <2>2
  <2> QED BY <1>6, <1>p, <2>3 DEF ReadData
<1>7. ASSUME NEW c \in Clients, ReadError(c) PROVE TypeOK'
  <2>1. conn' \in [Clients -> ConnType]
    BY <1>7, ConnClosure DEF ReadError
  <2> QED BY <1>7, <1>p, <2>1 DEF ReadError
<1>8. ASSUME NEW c \in Clients, ReadEof(c) \/ WriteDone(c) PROVE TypeOK'
  BY <1>8, <1>p DEF ReadEof, WriteDone, Exit
<1>9. ASSUME NEW c \in Clients, WritePiece(c) \/ WriteToGone(c) PROVE TypeOK'
  <2>1. conn' \in [Clients -> ConnType] /\ buf' \in [Clients -> Seq(Nat)]
    BY <1>9, WriteTypes
  <2>2. proc' \in [Procs -> {"none", "log", "nofile", "read", "write", "store",
                             "spin", "zombie", "reaped"}] /\ sigchld' \in BOOLEAN
    BY <1>9 DEF WritePiece, WriteToGone, Exit
  <2> QED BY <1>9, <1>p, <2>1, <2>2 DEF WritePiece, WriteToGone
<1>10. ASSUME NEW c \in Clients, Store(c) PROVE TypeOK'
  <2>1. pipe' \in Seq(Clients \X Nat) /\ Len(pipe') <= PipeSize
    BY <1>10, StoreTypes
  <2>2. <<>> \in Seq(Nat)
    OBVIOUS
  <2> QED BY <1>10, <1>p, <2>1, <2>2 DEF Store
<1>11. CASE LoggerProcess
  <2>1. /\ pipe' \in Seq(Clients \X Nat) /\ Len(pipe') <= PipeSize
        /\ log' \in Seq(Clients \X Nat) /\ reads' \in 0..LogReads
    BY <1>11, LoggerTypes
  <2>2. proc' \in [Procs -> {"none", "log", "nofile", "read", "write", "store",
                             "spin", "zombie", "reaped"}] /\ sigchld' \in BOOLEAN
    BY <1>11 DEF LoggerProcess, LogRead, LogCrash, LogEnd, Exit
  <2>3. UNCHANGED <<net, Parentside, buf, rec>>
    BY <1>11 DEF LoggerProcess, LogRead, LogCrash, LogEnd
  <2> QED BY <1>p, <2>1, <2>2, <2>3
<1>12. CASE Pause
  <2>1. pauses' \in Int
    <3>1. pauses \in Int OBVIOUS
    <3>2. pauses' = pauses + 1 BY <1>12 DEF Pause
    <3> QED BY <3>1, <3>2
  <2> QED BY <1>12, <1>p, <2>1 DEF Pause
<1>13. CASE UNCHANGED vars
  BY <1>13 DEF vars
<1> QED
  BY <1>1, <1>2, <1>3, <1>4, <1>5, <1>6, <1>7, <1>8, <1>9, <1>10, <1>11, <1>12, <1>13
  DEF Next, Parent, Child

-----------------------------------------------------------------------------
(* The handler.                                                             *)

(* A process that ends becomes one zombie more.                             *)
LEMMA ExitAdds ==
  ASSUME TypeOK, NEW p \in Procs, proc[p] # "zombie", Exit(p)
  PROVE  p \notin Zombies /\ Zombies' = Zombies \cup {p}
BY DEF TypeOK, Exit, Goto, Zombies

LEMMA SignalStep == TypeOK /\ ForkInv /\ SignalInv /\ [Next]_vars => SignalInv'
<1> SUFFICES ASSUME TypeOK, ForkInv, SignalInv, [Next]_vars PROVE SignalInv'
  OBVIOUS
<1> USE ForkAssumption DEF Procs
<1>1. CASE Zombies' = Zombies /\ UNCHANGED signal
  BY <1>1 DEF SignalInv, signal
<1>t. pauses \in Int
  BY DEF TypeOK
<1>2. ASSUME NEW p \in Procs, proc[p] # "zombie", Exit(p),
             handling' = handling, pauses' = pauses
      PROVE  SignalInv'
  <2>1. p \notin Zombies /\ Zombies' = Zombies \cup {p} /\ sigchld'
    BY <1>2, ExitAdds DEF Exit
  <2>2. handling => pauses > 0 \/ \E z \in Zombies : TRUE
    BY DEF SignalInv
  <2>3. pauses' >= 0
    BY <1>2 DEF SignalInv
  <2> QED BY <1>2, <2>1, <2>2, <2>3 DEF SignalInv
<1>3. ASSUME NEW p \in Procs, proc[p] # "zombie", NEW l, l # "zombie",
             Goto(p, l), UNCHANGED signal
      PROVE  SignalInv'
  <2>1. Zombies' = Zombies
    BY <1>3 DEF TypeOK, Goto, Zombies
  <2> QED BY <1>1, <1>3, <2>1
<1>4. ASSUME UNCHANGED <<proc, signal>> PROVE SignalInv'
  BY <1>4 DEF SignalInv, Zombies, signal
<1>5. ASSUME NEW c \in Clients, Client(c) PROVE SignalInv'
  BY <1>4, <1>5 DEF Client, child
<1>6. CASE Accept \/ Close
  BY <1>4, <1>6 DEF Accept, Close, child
<1>7. CASE Fork
  <2>1. clnt_sock \in Procs /\ proc[clnt_sock] # "zombie" /\ UNCHANGED signal
    BY <1>7 DEF Fork, ForkInv
  <2> QED BY <1>3, <1>4, <1>7, <2>1 DEF Fork
<1>8. CASE Deliver
  BY <1>8 DEF Deliver, SignalInv, Zombies, child
<1>9. CASE Reap
  <2>1. PICK z \in IF Zombies = {} THEN {None} ELSE Zombies :
          proc' = [p \in Procs |-> IF p = z THEN "reaped" ELSE proc[p]]
    BY <1>9 DEF Reap
  <2>2. /\ handling /\ ~handling' /\ sigchld' = sigchld
        /\ pauses' = IF Zombies = {} THEN pauses - 1 ELSE pauses
    BY <1>9 DEF Reap
  <2>3. Zombies' = Zombies \ {z}
    BY <2>1 DEF Zombies
  <2>4. CASE Zombies = {}
    <3>1. pauses > 0 /\ (sigchld => pauses > 1)
      BY <2>2, <2>4 DEF SignalInv
    <3> QED BY <1>t, <2>2, <2>4, <3>1 DEF SignalInv
  <2>5. CASE Zombies # {}
    <3>1. z \in Zombies /\ pauses' = pauses
      BY <2>1, <2>2, <2>5
    <3> QED BY <1>t, <2>2, <2>3, <3>1 DEF SignalInv
  <2> QED BY <2>4, <2>5
<1>10. ASSUME NEW c \in Clients, Child(c) PROVE SignalInv'
  <2>1. CASE ReadData(c) \/ WriteDone(c) \/ Store(c)
    BY <1>3, <2>1 DEF ReadData, WriteDone, Store, Parentside, signal
  <2>2. CASE ReadError(c) \/ WritePiece(c)
    BY <1>4, <2>2 DEF ReadError, WritePiece, Parentside, signal, child
  <2>3. CASE ReadEof(c)
    BY <1>2, <1>3, <2>3 DEF ReadEof, Parentside, signal
  <2>4. CASE WriteToGone(c)
    BY <1>2, <1>4, <2>4 DEF WriteToGone, Parentside, signal
  <2> QED BY <1>10, <2>1, <2>2, <2>3, <2>4 DEF Child
<1>11. CASE LoggerProcess
  BY <1>2, <1>4, <1>11
  DEF LoggerProcess, LogRead, LogCrash, LogEnd, Parentside, signal, child
<1>12. CASE UNCHANGED vars
  BY <1>4, <1>12 DEF vars, signal, child
<1>13. CASE Pause
  <2>1. Zombies' = Zombies
    BY <1>13 DEF Pause, child, Zombies
  <2>2. sigchld' /\ ~sigchld /\ handling' = handling /\ pauses' = pauses + 1
    BY <1>13 DEF Pause
  <2> QED BY <1>t, <2>1, <2>2 DEF SignalInv
<1> QED
  BY <1>5, <1>6, <1>7, <1>8, <1>9, <1>10, <1>11, <1>12, <1>13 DEF Next, Parent

-----------------------------------------------------------------------------
(* When a client has a process.                                             *)

(* After Dial the state of a connection is never "none" again.              *)
LEMMA PeerStays ==
  ASSUME TypeOK, [Next]_vars, NEW c \in Clients, conn[c].peer # "none"
  PROVE  conn'[c].peer # "none"
<1>t. conn \in [Clients -> ConnType] /\ \A d \in Clients : conn[d] \in ConnType
  BY DEF TypeOK
<1>1. ASSUME NEW d \in Clients, NEW k, k.peer # "none" \/ k.peer = conn[d].peer,
             conn' = [conn EXCEPT ![d] = k]
      PROVE  conn'[c].peer # "none"
  BY <1>t, <1>1
<1>2. CASE conn' = conn
  BY <1>2
<1>3. ASSUME NEW d \in Clients, Client(d) PROVE conn'[c].peer # "none"
  <2>1. PICK k \in {Dial(conn[d]), Send(conn[d]), Receive(conn[d]), HangUp(conn[d])} :
          conn' = [conn EXCEPT ![d] = k]
    BY <1>3 DEF Client, Connect, Type, Show, Quit
  <2>2. k.peer # "none" \/ k.peer = conn[d].peer
    BY <1>t, <2>1, PeerFrame
  <2> QED BY <1>1, <2>1, <2>2
<1>4. ASSUME NEW d \in Clients, ReadData(d) \/ ReadError(d) PROVE conn'[c].peer # "none"
  <2>1. PICK k \in {ErrorSeen(conn[d])} \cup {Left(conn[d], n) : n \in Nat} :
          conn' = [conn EXCEPT ![d] = k]
    BY <1>4, <1>t DEF ReadData, ReadError
  <2>2. k.peer # "none" \/ k.peer = conn[d].peer
    BY <1>t, <2>1, PeerFrame
  <2> QED BY <1>1, <2>1, <2>2
<1>5. ASSUME NEW d \in Clients, WritePiece(d) \/ WriteToGone(d) PROVE conn'[c].peer # "none"
  <2>1. PICK k \in Written(conn[d], Head(buf[d])) \cup {conn[d]} :
          conn' = [conn EXCEPT ![d] = k]
    BY <1>5 DEF WritePiece, WriteToGone
  <2>2. k.peer # "none" \/ k.peer = conn[d].peer
    BY <1>t, <2>1, PeerFrame
  <2> QED BY <1>1, <2>1, <2>2
<1>6. ASSUME NEW d \in Clients, ReadEof(d) \/ WriteDone(d) \/ Store(d)
      PROVE  conn' = conn
  BY <1>6 DEF ReadEof, WriteDone, Store, net
<1>7. ASSUME Parent \/ LoggerProcess \/ Pause \/ UNCHANGED vars PROVE conn' = conn
  BY <1>7 DEF Parent, Accept, Fork, Close, Deliver, Reap, Pause, LoggerProcess,
              LogRead, LogCrash, LogEnd, net, vars
<1> QED BY <1>2, <1>3, <1>4, <1>5, <1>6, <1>7 DEF Next, Child

LEMMA ForkStep == TypeOK /\ ForkInv /\ [Next]_vars => ForkInv'
<1> SUFFICES ASSUME TypeOK, ForkInv, [Next]_vars PROVE ForkInv'
  OBVIOUS
<1> USE ForkAssumption
<1>p. \A c \in Clients : conn[c].peer # "none" => conn'[c].peer # "none"
  BY PeerStays
<1>t. proc \in [Procs -> {"none", "log", "nofile", "read", "write", "store",
                          "spin", "zombie", "reaped"}]
      /\ Clients \subseteq Procs /\ backlog \subseteq Clients
  BY DEF TypeOK, Procs
<1>0. ASSUME UNCHANGED <<backlog, pc, clnt_sock>>,
             NEW p \in Procs, NEW l, proc[p] # "none", proc' = [proc EXCEPT ![p] = l]
      PROVE  ForkInv'
  BY <1>p, <1>t, <1>0 DEF ForkInv
<1>00. ASSUME UNCHANGED <<backlog, pc, clnt_sock, proc>> PROVE ForkInv'
  BY <1>p, <1>00 DEF ForkInv
<1>1. ASSUME NEW c \in Clients, Connect(c), UNCHANGED <<pc, clnt_sock, proc>>
      PROVE  ForkInv'
  <2>1. conn[c].peer = "none" /\ proc[c] = "none" /\ backlog' = backlog \cup {c}
        /\ (pc = "fork" => clnt_sock # c)
    BY <1>1 DEF Connect, ForkInv
  <2>2. conn'[c].peer # "none"
    <3>1. Dial(conn[c]).peer = "open"
      BY PeerFrame DEF TypeOK
    <3> QED BY <1>1, <3>1 DEF Connect, TypeOK
  <2> QED BY <1>p, <1>t, <1>1, <2>1, <2>2 DEF ForkInv
<1>2. ASSUME NEW c \in Clients, Client(c) PROVE ForkInv'
  BY <1>00, <1>1, <1>2 DEF Client, child, Type, Show, Quit
<1>3. CASE Accept
  BY <1>p, <1>t, <1>3 DEF Accept, ForkInv, child
<1>4. CASE Fork
  <2>1. clnt_sock \in Clients \ backlog /\ conn[clnt_sock].peer # "none"
    BY <1>4 DEF Fork, ForkInv
  <2>2. \A c \in Clients : c # clnt_sock => proc'[c] = proc[c]
    BY <1>t, <1>4 DEF Fork, Goto
  <2>3. UNCHANGED <<conn, backlog>> /\ pc' = "close"
    BY <1>4 DEF Fork, net
  <2> QED BY <2>1, <2>2, <2>3 DEF ForkInv
<1>5. CASE Close
  BY <1>p, <1>5 DEF Close, ForkInv, child, net
<1>6. CASE Deliver
  BY <1>00, <1>6 DEF Deliver, child, net
<1>7. CASE Reap
  <2>1. \A p \in Procs : proc'[p] = proc[p] \/ proc[p] = "zombie"
    BY <1>t, <1>7 DEF Reap, Zombies, Procs
  <2>2. \A p \in Procs : proc[p] = "none" => proc'[p] = "none"
    BY <2>1
  <2>3. UNCHANGED <<conn, backlog, pc, clnt_sock>>
    BY <1>7 DEF Reap, net
  <2> QED BY <1>t, <2>2, <2>3 DEF ForkInv
<1>8. ASSUME NEW c \in Clients, Child(c) PROVE ForkInv'
  BY <1>0, <1>00, <1>t, <1>8
  DEF Child, ReadData, ReadError, ReadEof, WritePiece, WriteToGone, WriteDone, Store,
      Exit, Goto, Parentside, net, child
<1>9. CASE LoggerProcess
  BY <1>0, <1>00, <1>t, <1>9
  DEF LoggerProcess, LogRead, LogCrash, LogEnd, Exit, Goto, Parentside, net, child, Procs
<1>10. CASE Pause \/ UNCHANGED vars
  BY <1>00, <1>10 DEF Pause, vars, net, child
<1> QED
  BY <1>2, <1>3, <1>4, <1>5, <1>6, <1>7, <1>8, <1>9, <1>10 DEF Next, Parent

LEMMA IdleStep == TypeOK /\ ForkInv /\ IdleInv /\ [Next]_vars => IdleInv'
<1> SUFFICES ASSUME TypeOK, ForkInv, IdleInv, [Next]_vars PROVE IdleInv'
  OBVIOUS
<1> USE ForkAssumption
<1>t. proc \in [Procs -> {"none", "log", "nofile", "read", "write", "store",
                          "spin", "zombie", "reaped"}]
      /\ Clients \subseteq Procs /\ Logger \in Procs /\ Logger \notin Clients
      /\ rec \in [Clients -> Seq(Nat)]
  BY DEF TypeOK, Procs
<1>p. Storing' = Storing
  BY DEF Next, vars, Storing
<1>0. ASSUME UNCHANGED <<rec, reads>>, NEW p \in Procs, NEW l, l # "nofile",
             p \in Clients /\ l \in {"none", "read"} => rec[p] = <<>>,
             proc' = [proc EXCEPT ![p] = l]
      PROVE  IdleInv'
  BY <1>t, <1>p, <1>0 DEF IdleInv
<1>00. ASSUME UNCHANGED <<rec, reads, proc>> PROVE IdleInv'
  BY <1>p, <1>00 DEF IdleInv
<1>1. ASSUME NEW c \in Clients, Client(c) PROVE IdleInv'
  BY <1>00, <1>1 DEF Client, child, store
<1>2. CASE Accept \/ Close \/ Deliver
  BY <1>00, <1>2 DEF Accept, Close, Deliver, child, store
<1>3. CASE Fork
  <2>1. clnt_sock \in Clients /\ rec[clnt_sock] = <<>> /\ UNCHANGED <<rec, reads>>
    BY <1>3 DEF Fork, ForkInv, IdleInv, store
  <2> QED BY <1>0, <1>00, <1>t, <1>3, <2>1 DEF Fork, Goto
<1>4. CASE Reap
  <2>1. /\ \A p \in Procs : proc'[p] = proc[p] \/ proc'[p] = "reaped"
        /\ UNCHANGED <<rec, reads>>
    BY <1>4 DEF Reap, store
  <2> QED BY <1>t, <1>p, <2>1 DEF IdleInv
<1>5. ASSUME NEW c \in Clients, ReadData(c) PROVE IdleInv'
  <2>1. proc' = [proc EXCEPT ![c] = "write"] /\ reads' = reads
        /\ \A d \in Clients \ {c} : rec'[d] = rec[d]
    BY <1>t, <1>5 DEF ReadData, Goto, store
  <2>2. ~Storing => rec'[c] = <<>>
    BY <1>t, <1>5 DEF ReadData
  <2> QED BY <1>t, <1>p, <2>1, <2>2 DEF IdleInv
<1>6. ASSUME NEW c \in Clients, Store(c) PROVE IdleInv'
  <2>1. proc' = [proc EXCEPT ![c] = "read"] /\ reads' = reads
        /\ rec' = [rec EXCEPT ![c] = <<>>]
    BY <1>6 DEF Store, Goto
  <2> QED BY <1>t, <1>p, <2>1 DEF IdleInv
<1>7. ASSUME NEW c \in Clients, ReadError(c) \/ WritePiece(c) PROVE IdleInv'
  BY <1>00, <1>7 DEF ReadError, WritePiece, child, store
<1>8. ASSUME NEW c \in Clients, ReadEof(c) \/ WriteToGone(c) PROVE IdleInv'
  BY <1>0, <1>00, <1>t, <1>8 DEF ReadEof, WriteToGone, Exit, Goto, store
<1>9. ASSUME NEW c \in Clients, WriteDone(c) PROVE IdleInv'
  <2>1. ~Storing => rec[c] = <<>>
    BY DEF IdleInv
  <2> QED BY <1>0, <1>t, <1>9, <2>1 DEF WriteDone, Goto, store
<1>10. CASE LogRead
  BY <1>t, <1>p, <1>10 DEF LogRead, IdleInv, child
<1>11. CASE LogCrash \/ LogEnd
  BY <1>0, <1>t, <1>11 DEF LogCrash, LogEnd, Exit, Goto, store
<1>12. CASE Pause \/ UNCHANGED vars
  BY <1>00, <1>12 DEF Pause, vars, child, store
<1> QED
  BY <1>1, <1>2, <1>3, <1>4, <1>5, <1>6, <1>7, <1>8, <1>9, <1>10, <1>11, <1>12
  DEF Next, Parent, Child, LoggerProcess

-----------------------------------------------------------------------------
(* What is kept of a client's text.                                         *)

(* A record in the pipe continues the entries of its own client, and leaves *)
(* those of the others as they were.                                        *)
LEMMA RecordsAppend ==
  ASSUME NEW s \in Seq(Clients \X Nat), NEW t \in Seq(Clients \X Nat),
         NEW c \in Clients, NEW b \in Nat,
         \A i \in 1..Len(t) : t[i] = <<c, b + i>>
  PROVE  /\ Records(s, c, b) => Records(s \o t, c, b + Len(t))
         /\ \A d \in Clients, k \in Nat : d # c /\ Records(s, d, k) => Records(s \o t, d, k)
<1> DEFINE w == s \o t
           m == Len(s)
           n == Len(t)
<1>1. /\ m \in Nat /\ n \in Nat /\ DOMAIN s = 1..m /\ DOMAIN w = 1..m + n
      /\ \A i \in 1..m : w[i] = s[i]
      /\ \A i \in 1..n : w[m + i] = t[i]
  <2>1. /\ w \in Seq(Clients \X Nat) /\ Len(w) = Len(s) + Len(t)
        /\ \A i \in 1..Len(s) + Len(t) : w[i] = IF i <= Len(s) THEN s[i] ELSE t[i - Len(s)]
    BY ConcatProperties
  <2>2. m \in Nat /\ n \in Nat /\ DOMAIN s = 1..m /\ DOMAIN w = 1..m + n
    BY <2>1
  <2>3. \A i \in 1..m : w[i] = s[i]
    BY <2>1, <2>2
  <2>4. \A i \in 1..n : m + i \in 1..m + n /\ ~(m + i <= m) /\ (m + i) - m = i
    BY <2>2
  <2> QED BY <2>1, <2>2, <2>3, <2>4
<1>2. \A i \in 1..n : t[i] = <<c, b + i>>
  OBVIOUS
<1> HIDE DEF w, m, n
<1>3. \A i \in 1..m + n : i \in 1..m \/ \E j \in 1..n : i = m + j
  <2> TAKE i \in 1..m + n
  <2>1. CASE i <= m BY <1>1, <2>1
  <2>2. CASE i > m
    <3>1. i - m \in 1..n /\ i = m + (i - m) BY <1>1, <2>2
    <3> QED BY <3>1
  <2> QED BY <1>1, <2>1, <2>2
<1>4. \A j \in 1..n : w[m + j][1] = c /\ w[m + j][2] = b + j
  <2> TAKE j \in 1..n
  <2>1. w[m + j] = <<c, b + j>> BY <1>1, <1>2
  <2> QED BY <2>1
<1>5. \A i \in 1..m, j \in 1..n : m + j > i /\ m + j \in 1..m + n
  BY <1>1
<1>6. ASSUME Records(s, c, b) PROVE Records(w, c, b + n)
  <2>0. /\ \A i \in 1..m : s[i][1] = c => s[i][2] \in 1..b
        /\ \A x \in 1..b : \E i \in 1..m : s[i] = <<c, x>>
        /\ \A i, j \in 1..m : i < j /\ s[i][1] = c /\ s[j][1] = c => s[i][2] < s[j][2]
    BY <1>1, <1>6 DEF Records
  <2>1. ASSUME NEW i \in 1..m + n, w[i][1] = c PROVE w[i][2] \in 1..b + n
    <3>1. CASE i \in 1..m
      <4>1. w[i][2] \in 1..b BY <1>1, <2>0, <2>1, <3>1
      <4> QED BY <1>1, <4>1
    <3>2. ASSUME NEW j \in 1..n, i = m + j PROVE w[i][2] \in 1..b + n
      <4>1. w[i][2] = b + j BY <1>4, <3>2
      <4> QED BY <1>1, <4>1
    <3> QED BY <1>3, <3>1, <3>2
  <2>2. ASSUME NEW x \in 1..b + n PROVE \E i \in 1..m + n : w[i] = <<c, x>>
    <3>1. CASE x <= b
      <4>1. x \in 1..b BY <1>1, <3>1
      <4>2. PICK i \in 1..m : s[i] = <<c, x>> BY <2>0, <4>1
      <4>3. i \in 1..m + n BY <1>1
      <4> QED BY <1>1, <4>2, <4>3
    <3>2. CASE x > b
      <4>1. x - b \in 1..n /\ b + (x - b) = x BY <1>1, <3>2
      <4>2. m + (x - b) \in 1..m + n BY <1>1, <4>1
      <4>3. w[m + (x - b)] = <<c, b + (x - b)>> BY <1>1, <1>2, <4>1
      <4> QED BY <4>1, <4>2, <4>3
    <3> QED BY <1>1, <3>1, <3>2
  <2>3. ASSUME NEW i \in 1..m + n, NEW j \in 1..m + n, i < j, w[i][1] = c, w[j][1] = c
        PROVE  w[i][2] < w[j][2]
    <3>1. CASE j \in 1..m
      <4>1. i \in 1..m BY <1>1, <2>3, <3>1
      <4> QED BY <1>1, <2>0, <2>3, <3>1, <4>1
    <3>2. ASSUME NEW y \in 1..n, j = m + y, i \in 1..m PROVE w[i][2] < w[j][2]
      <4>1. w[j][2] = b + y BY <1>4, <3>2
      <4>2. w[i][2] \in 1..b BY <1>1, <2>0, <2>3, <3>2
      <4> QED BY <1>1, <4>1, <4>2
    <3>3. ASSUME NEW y \in 1..n, j = m + y, NEW x \in 1..n, i = m + x PROVE w[i][2] < w[j][2]
      <4>1. w[j][2] = b + y /\ w[i][2] = b + x BY <1>4, <3>3
      <4>2. x < y BY <1>1, <2>3, <3>3
      <4> QED BY <1>1, <4>1, <4>2
    <3> QED BY <1>3, <3>1, <3>2, <3>3
  <2> QED BY <1>1, <2>1, <2>2, <2>3 DEF Records
<1>7. ASSUME NEW d \in Clients, NEW k \in Nat, d # c, Records(s, d, k)
      PROVE  Records(w, d, k)
  <2>0. /\ \A i \in 1..m : s[i][1] = d => s[i][2] \in 1..k
        /\ \A x \in 1..k : \E i \in 1..m : s[i] = <<d, x>>
        /\ \A i, j \in 1..m : i < j /\ s[i][1] = d /\ s[j][1] = d => s[i][2] < s[j][2]
    BY <1>1, <1>7 DEF Records
  <2>1. \A i \in 1..m + n : w[i][1] = d => i \in 1..m
    BY <1>3, <1>4, <1>7
  <2>2. \A i \in 1..m : i \in 1..m + n
    BY <1>1
  <2>3. \A i \in 1..m + n : w[i][1] = d => w[i][2] \in 1..k
    BY <1>1, <2>0, <2>1
  <2>4. \A x \in 1..k : \E i \in 1..m + n : w[i] = <<d, x>>
    BY <1>1, <2>0, <2>2
  <2>5. \A i, j \in 1..m + n : i < j /\ w[i][1] = d /\ w[j][1] = d => w[i][2] < w[j][2]
    BY <1>1, <2>0, <2>1
  <2> QED BY <1>1, <2>3, <2>4, <2>5 DEF Records
<1> QED BY <1>6, <1>7 DEF w, n

(* What was kept stays kept when the connection loses nothing the client    *)
(* sent, and no more is echoed than what was held for it.                   *)
LEMMA KeptFrame ==
  ASSUME NEW k \in ConnType, NEW l \in ConnType, NEW s, NEW c, NEW r \in Seq(Nat),
         NEW u \in Seq(Nat), NEW v \in Seq(Nat), KeptUpTo(k, s, c, r, u),
         l.in = k.in, l.sent = k.sent, Len(l.out) + Len(v) <= Len(k.out) + Len(u)
  PROVE  KeptUpTo(l, s, c, r, v)
<1>1. PICK b \in 0..k.sent : Kept(k, s, c, b, r, u)
  BY DEF KeptUpTo
<1>2. InTransit(l, b, r)
  BY <1>1, TransitFrame DEF Kept
<1>3. /\ Len(l.out) \in Nat /\ Len(k.out) \in Nat /\ k.sent \in Nat
      /\ Len(u) \in Nat /\ Len(v) \in Nat /\ Len(r) \in Nat
  BY DEF ConnType
<1>4. Len(k.out) + Len(u) <= b + Len(r) /\ Records(s, c, b)
  BY <1>1 DEF Kept
<1>5. Len(l.out) + Len(v) <= b + Len(r)
  BY <1>3, <1>4
<1> QED BY <1>2, <1>4, <1>5 DEF KeptUpTo, Kept

LEMMA KeptSend ==
  ASSUME NEW k \in ConnType, NEW s, NEW c, NEW r \in Seq(Nat), NEW u,
         KeptUpTo(k, s, c, r, u)
  PROVE  KeptUpTo(Send(k), s, c, r, u)
<1>1. PICK b \in 0..k.sent : Kept(k, s, c, b, r, u)
  BY DEF KeptUpTo
<1>2. k.sent \in Nat /\ Send(k).sent = k.sent + 1 /\ Send(k).out = k.out
  BY DEF ConnType, Send
<1>3. b \in Nat /\ b \in 0..Send(k).sent
  BY <1>2
<1>4. InTransit(Send(k), b, r)
  BY <1>1, <1>3, TransitSend DEF Kept
<1> QED BY <1>1, <1>2, <1>3, <1>4 DEF KeptUpTo, Kept

LEMMA KeptRead ==
  ASSUME NEW k \in ConnType, NEW s, NEW c, NEW u \in Seq(Nat),
         KeptUpTo(k, s, c, <<>>, u), NEW n \in 1..Len(k.in)
  PROVE  KeptUpTo(Left(k, n), s, c, Taken(k, n), Taken(k, n))
<1>1. PICK b \in 0..k.sent : Kept(k, s, c, b, <<>>, u)
  BY DEF KeptUpTo
<1>2. Left(k, n).sent = k.sent /\ Left(k, n).out = k.out /\ k.sent \in Nat
      /\ Len(k.out) \in Nat
  BY DEF ConnType, Left
<1>3. b \in Nat /\ InTransit(Left(k, n), b, Taken(k, n))
  BY <1>1, <1>2, TransitRead DEF Kept
<1>4. Len(Taken(k, n)) = n
  BY ReadSplits
<1>5. Len(k.out) + n <= b + n
  <2>1. Len(k.out) + Len(u) <= b + 0 /\ Len(u) \in Nat BY <1>1 DEF Kept
  <2>2. Len(k.in) \in Nat BY DEF ConnType
  <2> QED BY <1>2, <2>1, <2>2
<1> QED BY <1>1, <1>2, <1>3, <1>4, <1>5 DEF KeptUpTo, Kept

(* Writing the record to the pipe: the writer's, and the other clients'.    *)
LEMMA KeptStore ==
  ASSUME NEW s \in Seq(Clients \X Nat), NEW t \in Seq(Clients \X Nat), NEW c \in Clients,
         NEW k \in ConnType, NEW r \in Seq(Nat), NEW u, KeptUpTo(k, s, c, r, u),
         Len(t) = Len(r), \A i \in 1..Len(r) : t[i] = <<c, r[i]>>
  PROVE  /\ KeptUpTo(k, s \o t, c, <<>>, u)
         /\ \A d \in Clients : \A l \in ConnType : \A q, v :
              d # c /\ KeptUpTo(l, s, d, q, v) => KeptUpTo(l, s \o t, d, q, v)
<1>1. PICK b \in 0..k.sent : Kept(k, s, c, b, r, u)
  BY DEF KeptUpTo
<1>2. b \in Nat
  BY DEF ConnType
<1>3. InTransit(k, b, r) /\ Records(s, c, b) /\ Len(k.out) + Len(u) <= b + Len(r)
  BY <1>1 DEF Kept
<1>4. \A i \in 1..Len(t) : t[i] = <<c, b + i>>
  BY <1>3 DEF InTransit
<1>5. Records(s \o t, c, b + Len(r))
  BY <1>2, <1>3, <1>4, RecordsAppend
<1>6. b + Len(r) \in 0..k.sent /\ InTransit(k, b + Len(r), <<>>)
  BY <1>2, <1>3, TransitPass
<1>7. KeptUpTo(k, s \o t, c, <<>>, u)
  <2> DEFINE a == b + Len(r)
  <2>1. a \in 0..k.sent /\ InTransit(k, a, <<>>) /\ Records(s \o t, c, a)
        /\ Len(k.out) + Len(u) <= a
    BY <1>3, <1>5, <1>6
  <2>2. a + Len(<<>>) = a
    BY <1>2
  <2> HIDE DEF a
  <2>3. Kept(k, s \o t, c, a, <<>>, u)
    BY <2>1, <2>2 DEF Kept
  <2> QED BY <2>1, <2>3 DEF KeptUpTo
<1>8. ASSUME NEW d \in Clients, NEW l \in ConnType, NEW q, NEW v, d # c,
             KeptUpTo(l, s, d, q, v)
      PROVE  KeptUpTo(l, s \o t, d, q, v)
  <2>1. PICK a \in 0..l.sent : Kept(l, s, d, a, q, v)
    BY <1>8 DEF KeptUpTo
  <2>2. a \in Nat
    BY DEF ConnType
  <2>3. Records(s \o t, d, a)
    BY <1>2, <1>4, <1>8, <2>1, <2>2, RecordsAppend DEF Kept
  <2> QED BY <2>1, <2>3 DEF KeptUpTo, Kept
<1> QED BY <1>7, <1>8

(* Appending twice is appending the two at once.                            *)
LEMMA Associates ==
  ASSUME NEW T, NEW q \in Seq(T), NEW x \in Seq(T), NEW y \in Seq(T)
  PROVE  (q \o x) \o y = q \o (x \o y)
BY ConcatAssociative

(* A sequence cut in two is its first part and then its second.             *)
LEMMA CutJoins ==
  ASSUME NEW T, NEW s \in Seq(T), NEW n \in 1..Len(s)
  PROVE  /\ SubSeq(s, 1, n) \in Seq(T) /\ SubSeq(s, n + 1, Len(s)) \in Seq(T)
         /\ SubSeq(s, 1, n) \o SubSeq(s, n + 1, Len(s)) = s
<1> SUFFICES ASSUME NEW x, NEW y,
                    x = SubSeq(s, 1, n), y = SubSeq(s, n + 1, Len(s))
             PROVE  x \in Seq(T) /\ y \in Seq(T) /\ x \o y = s
  OBVIOUS
<1> DEFINE m == Len(s)
<1>1. /\ x \in Seq(T) /\ y \in Seq(T) /\ Len(x) = n /\ Len(y) = m - n
      /\ \A i \in 1..n : x[i] = s[i]
      /\ \A i \in 1..m - n : y[i] = s[i + n]
  BY PipeSplits
<1>2. m \in Nat /\ n \in 1..m
  OBVIOUS
<1>t. x \in Seq(T) /\ y \in Seq(T)
  BY <1>1
<1>3. /\ x \o y \in Seq(T) /\ Len(x \o y) = Len(x) + Len(y)
      /\ \A i \in 1..Len(x) + Len(y) :
           (x \o y)[i] = IF i <= Len(x) THEN x[i] ELSE y[i - Len(x)]
  BY <1>t, ConcatProperties
<1> HIDE DEF m
<1>4. n + (m - n) = m
  BY <1>2
<1>5. Len(x \o y) = m /\ \A i \in 1..m : (x \o y)[i] = IF i <= n THEN x[i] ELSE y[i - n]
  BY <1>1, <1>3, <1>4
<1>6. ASSUME NEW i \in 1..m PROVE (x \o y)[i] = s[i]
  <2>1. CASE i <= n
    <3>1. i \in 1..n BY <1>2, <2>1
    <3> QED BY <1>1, <1>5, <2>1, <3>1
  <2>2. CASE i > n
    <3>1. i - n \in 1..m - n /\ (i - n) + n = i /\ ~(i <= n) BY <1>2, <2>2
    <3>2. (x \o y)[i] = y[i - n] BY <1>5, <3>1
    <3> QED BY <1>1, <3>1, <3>2
  <2>3. i <= n \/ i > n BY <1>2
  <2> QED BY <2>1, <2>2, <2>3
<1>7. x \o y = s
  <2> DEFINE z == x \o y
  <2>1. z \in Seq(T) /\ Len(z) = Len(s) /\ \A i \in 1..Len(s) : z[i] = s[i]
    BY <1>3, <1>5, <1>6 DEF m
  <2> HIDE DEF z
  <2>2. z = s
    BY <2>1, SeqEqual
  <2> QED BY <2>2 DEF z
<1> QED BY <1>t, <1>7

(* It does not matter which part is appended when.                          *)
LEMMA SplitJoins ==
  ASSUME NEW T, NEW s \in Seq(T), NEW q \in Seq(T), NEW n \in 1..Len(s)
  PROVE  (q \o SubSeq(s, 1, n)) \o SubSeq(s, n + 1, Len(s)) = q \o s
<1>1. ASSUME NEW x \in Seq(T), NEW y \in Seq(T)
      PROVE  (q \o x) \o y = q \o (x \o y)
  BY Associates, SMTT(30)
<1>2. ASSUME NEW x \in Seq(T), NEW y \in Seq(T), x \o y = s
      PROVE  (q \o x) \o y = q \o s
  BY <1>1, <1>2, Zenon
<1> QED BY <1>2, CutJoins, Zenon

(* What the logger takes from the pipe it gives to the file.                *)
LEMMA LogReadMoves ==
  ASSUME TypeOK, LogRead
  PROVE  log' \o pipe' = log \o pipe
<1>1. pipe \in Seq(Clients \X Nat) /\ log \in Seq(Clients \X Nat)
  BY DEF TypeOK
<1>2. PICK n \in 1..Len(pipe) :
        log' = log \o SubSeq(pipe, 1, n) /\ pipe' = SubSeq(pipe, n + 1, Len(pipe))
  BY DEF LogRead
<1>3. (log \o SubSeq(pipe, 1, n)) \o SubSeq(pipe, n + 1, Len(pipe)) = log \o pipe
  BY <1>1, SplitJoins
<1> QED BY <1>2, <1>3

-----------------------------------------------------------------------------
(* A logger that is gone stays gone, and what it has read stays the same.   *)
LEMMA CrashedStays ==
  ASSUME TypeOK, ForkInv, [Next]_vars, Crashed
  PROVE  Crashed'
<1> USE ForkAssumption DEF Procs
<1>t. /\ proc \in [Procs -> {"none", "log", "nofile", "read", "write", "store",
                             "spin", "zombie", "reaped"}]
      /\ Logger \in Procs
  BY DEF TypeOK
<1>g. proc[Logger] \in {"zombie", "reaped"} /\ reads < LogReads
  BY DEF Crashed
<1>1. ASSUME NEW p \in Clients, NEW l, UNCHANGED reads,
             proc' = [proc EXCEPT ![p] = l] \/ UNCHANGED proc
      PROVE  Crashed'
  BY <1>t, <1>1, <1>g DEF Crashed
<1>2. ASSUME UNCHANGED <<proc, reads>> PROVE Crashed'
  BY <1>2, <1>g DEF Crashed
<1>3. ASSUME NEW c \in Clients, Client(c) PROVE Crashed'
  BY <1>2, <1>3 DEF Client, child, store
<1>4. ASSUME NEW c \in Clients, Child(c) PROVE Crashed'
  BY <1>1, <1>2, <1>4
  DEF Child, ReadData, ReadError, ReadEof, WritePiece, WriteToGone, WriteDone, Store,
      Exit, Goto, child, store
<1>5. CASE Accept \/ Close \/ Deliver
  BY <1>2, <1>5 DEF Accept, Close, Deliver, child, store
<1>6. CASE Fork
  <2>1. clnt_sock \in Clients BY <1>6 DEF Fork, ForkInv
  <2> QED BY <1>1, <1>6, <2>1 DEF Fork, Goto, store
<1>7. CASE Reap
  BY <1>g, <1>t, <1>7 DEF Reap, Crashed, store
<1>8. CASE LoggerProcess
  BY <1>g, <1>8 DEF LoggerProcess, LogRead, LogCrash, LogEnd
<1>9. CASE Pause \/ UNCHANGED vars
  BY <1>2, <1>9 DEF Pause, vars, child, store
<1> QED
  BY <1>3, <1>4, <1>5, <1>6, <1>7, <1>8, <1>9 DEF Next, Parent

(* Whatever a client does to its connection, what was kept of its text is   *)
(* still kept.                                                              *)
LEMMA KeptByClient ==
  ASSUME NEW k \in ConnType, NEW s, NEW c, NEW r \in Seq(Nat), NEW u \in Seq(Nat),
         KeptUpTo(k, s, c, r, u),
         NEW l \in {Dial(k), Send(k), Receive(k), HangUp(k), ErrorSeen(k)}
  PROVE  KeptUpTo(l, s, c, r, u)
<1>1. CASE l = Send(k)
  BY <1>1, KeptSend
<1>2. CASE l \in {Dial(k), Receive(k), HangUp(k), ErrorSeen(k)}
  <2>1. l \in ConnType
    BY <1>2, ConnClosure
  <2>2. l.in = k.in /\ l.sent = k.sent /\ l.out = k.out
    BY <1>2, InFrame, SentFrame, OutFrame
  <2>3. Len(l.out) + Len(u) <= Len(k.out) + Len(u)
    <3>1. Len(k.out) + Len(u) \in Int BY DEF ConnType
    <3> QED BY <2>2, <3>1
  <2> QED BY <2>1, <2>2, <2>3, KeptFrame
<1> QED BY <1>1, <1>2

(* A write echoes a byte that was held, or finds the peer gone.             *)
LEMMA KeptByWrite ==
  ASSUME NEW k \in ConnType, NEW s, NEW c, NEW r \in Seq(Nat), NEW u \in Seq(Nat),
         u # <<>>, KeptUpTo(k, s, c, r, u)
  PROVE  /\ k.peer = "open" =>
              \A l \in Written(k, Head(u)) : KeptUpTo(l, s, c, r, Tail(u))
         /\ Closed(k) =>
              \A l \in Written(k, Head(u)) \cup {k} : KeptUpTo(l, s, c, r, <<>>)
<1>1. Head(u) \in Nat /\ Tail(u) \in Seq(Nat) /\ Len(Tail(u)) = Len(u) - 1
      /\ Len(u) \in Nat /\ <<>> \in Seq(Nat) /\ Len(<<>>) = 0
  BY HeadTailProperties
<1>2. \A l \in Written(k, Head(u)) : l \in ConnType /\ l.in = k.in /\ l.sent = k.sent
  BY <1>1, ConnClosure, InFrame
<1>3. Len(k.out) \in Nat
  BY DEF ConnType
<1>4. ASSUME k.peer = "open", NEW l \in Written(k, Head(u))
      PROVE  KeptUpTo(l, s, c, r, Tail(u))
  <2>1. l.out = Append(k.out, Head(u)) /\ k.out \in Seq(Nat)
    BY <1>4 DEF Written, ConnType
  <2>2. Len(l.out) = Len(k.out) + 1
    BY <1>1, <2>1
  <2>3. Len(l.out) + Len(Tail(u)) <= Len(k.out) + Len(u)
    BY <1>1, <1>3, <2>2
  <2> QED BY <1>1, <1>2, <2>3, KeptFrame
<1>5. ASSUME Closed(k), NEW l \in Written(k, Head(u)) \cup {k}
      PROVE  KeptUpTo(l, s, c, r, <<>>)
  <2>1. l.out = k.out /\ l \in ConnType /\ l.in = k.in /\ l.sent = k.sent
    BY <1>2, <1>5 DEF Written, Closed, ConnType
  <2>2. Len(l.out) + Len(<<>>) <= Len(k.out) + Len(u)
    BY <1>1, <1>3, <2>1
  <2> QED BY <1>1, <2>1, <2>2, KeptFrame
<1> QED BY <1>4, <1>5

LEMMA StoreStep ==
  TypeOK /\ ForkInv /\ IdleInv /\ StoreInv /\ [Next]_vars => StoreInv'
<1> SUFFICES ASSUME TypeOK, ForkInv, IdleInv, StoreInv, [Next]_vars,
                    Storing', ~Crashed', NEW e \in Clients
             PROVE  KeptUpTo(conn'[e], log' \o pipe', e, rec'[e], buf'[e])
  BY DEF StoreInv
<1>s. Storing
  BY DEF Next, vars, Storing
<1>k. \A c \in Clients : KeptUpTo(conn[c], log \o pipe, c, rec[c], buf[c])
  <2>1. ~Crashed BY CrashedStays
  <2> QED BY <1>s, <2>1 DEF StoreInv
<1>t. /\ conn \in [Clients -> ConnType] /\ \A c \in Clients : conn[c] \in ConnType
      /\ buf \in [Clients -> Seq(Nat)] /\ \A c \in Clients : buf[c] \in Seq(Nat)
      /\ rec \in [Clients -> Seq(Nat)] /\ \A c \in Clients : rec[c] \in Seq(Nat)
      /\ log \o pipe \in Seq(Clients \X Nat)
  <2>1. log \in Seq(Clients \X Nat) /\ pipe \in Seq(Clients \X Nat)
    BY DEF TypeOK
  <2> QED BY <2>1, ConcatProperties DEF TypeOK
<1> DEFINE Goal == KeptUpTo(conn'[e], log' \o pipe', e, rec'[e], buf'[e])
<1>0. ASSUME log' \o pipe' = log \o pipe, UNCHANGED <<conn, buf, rec>> PROVE Goal
  BY <1>k, <1>0
<1>1. ASSUME UNCHANGED <<log, pipe>>, NEW c \in Clients, NEW l, NEW q, NEW v,
             KeptUpTo(l, log \o pipe, c, q, v),
             conn' = [conn EXCEPT ![c] = l], rec' = [rec EXCEPT ![c] = q],
             buf' = [buf EXCEPT ![c] = v]
      PROVE  Goal
  BY <1>k, <1>t, <1>1
<1> HIDE DEF Goal
<1>i. \A c \in Clients : conn = [conn EXCEPT ![c] = conn[c]]
        /\ rec = [rec EXCEPT ![c] = rec[c]] /\ buf = [buf EXCEPT ![c] = buf[c]]
  BY <1>t
<1>2. ASSUME NEW c \in Clients, Client(c) \/ ReadError(c) PROVE Goal
  <2>1. PICK l \in {Dial(conn[c]), Send(conn[c]), Receive(conn[c]), HangUp(conn[c]),
                    ErrorSeen(conn[c])} :
          conn' = [conn EXCEPT ![c] = l]
    BY <1>2 DEF Client, Connect, Type, Show, Quit, ReadError
  <2>2. KeptUpTo(l, log \o pipe, c, rec[c], buf[c])
    BY <1>k, <1>t, <2>1, KeptByClient
  <2>3. UNCHANGED <<log, pipe, rec, buf>>
    BY <1>2 DEF Client, ReadError, child, store
  <2>4. rec' = [rec EXCEPT ![c] = rec[c]] /\ buf' = [buf EXCEPT ![c] = buf[c]]
    BY <1>i, <2>3
  <2>5. UNCHANGED <<log, pipe>>
    BY <2>3
  <2> QED BY <1>1, <2>1, <2>2, <2>4, <2>5
<1>3. ASSUME NEW c \in Clients, ReadData(c) PROVE Goal
  <2>1. PICK n \in 1..Len(conn[c].in) :
          /\ buf' = [buf EXCEPT ![c] = Taken(conn[c], n)]
          /\ rec' = [rec EXCEPT ![c] = Taken(conn[c], n)]
          /\ conn' = [conn EXCEPT ![c] = Left(conn[c], n)]
    BY <1>s, <1>3 DEF ReadData
  <2>2. rec[c] = <<>>
    BY <1>3 DEF ReadData, IdleInv
  <2>3. KeptUpTo(conn[c], log \o pipe, c, <<>>, buf[c])
    BY <1>k, <2>2
  <2>4. KeptUpTo(Left(conn[c], n), log \o pipe, c, Taken(conn[c], n), Taken(conn[c], n))
    BY <1>t, <2>3, KeptRead
  <2>5. UNCHANGED <<log, pipe>>
    BY <1>3 DEF ReadData, store
  <2> QED BY <1>1, <2>1, <2>4, <2>5
<1>4. ASSUME NEW c \in Clients, WritePiece(c) PROVE Goal
  <2>1. conn[c].peer = "open" /\ buf[c] # <<>>
    BY <1>4 DEF WritePiece
  <2>2. PICK l \in Written(conn[c], Head(buf[c])) : conn' = [conn EXCEPT ![c] = l]
    BY <1>4 DEF WritePiece
  <2>3. KeptUpTo(l, log \o pipe, c, rec[c], Tail(buf[c]))
    BY <1>k, <1>t, <2>1, KeptByWrite
  <2>4. UNCHANGED <<log, pipe, rec>> /\ buf' = [buf EXCEPT ![c] = Tail(buf[c])]
    BY <1>4 DEF WritePiece, store
  <2> QED BY <1>1, <1>i, <2>2, <2>3, <2>4
<1>5. ASSUME NEW c \in Clients, WriteToGone(c) PROVE Goal
  <2>1. Closed(conn[c]) /\ buf[c] # <<>>
    BY <1>5 DEF WriteToGone
  <2>2. PICK l \in Written(conn[c], Head(buf[c])) \cup {conn[c]} :
          conn' = [conn EXCEPT ![c] = l]
    BY <1>5 DEF WriteToGone
  <2>3. KeptUpTo(l, log \o pipe, c, rec[c], <<>>)
    BY <1>k, <1>t, <2>1, KeptByWrite
  <2>4. UNCHANGED <<log, pipe, rec>> /\ buf' = [buf EXCEPT ![c] = <<>>]
    BY <1>5 DEF WriteToGone, store
  <2> QED BY <1>1, <1>i, <2>2, <2>3, <2>4
<1>6. ASSUME NEW c \in Clients, Store(c) PROVE Goal
  <2>1. /\ Record(c) \in Seq(Clients \X Nat) /\ Len(Record(c)) = Len(rec[c])
        /\ \A i \in 1..Len(rec[c]) : Record(c)[i] = <<c, rec[c][i]>>
    BY <1>t, RecordType
  <2>2. UNCHANGED <<conn, buf, log>> /\ pipe' = pipe \o Record(c)
        /\ rec' = [rec EXCEPT ![c] = <<>>]
    BY <1>6 DEF Store, net
  <2>3. log' \o pipe' = (log \o pipe) \o Record(c)
    <3> DEFINE Pieces == Clients \X Nat
    <3>1. log \in Seq(Pieces) /\ pipe \in Seq(Pieces)
      BY DEF TypeOK
    <3>a. Record(c) \in Seq(Pieces)
      BY <2>1
    <3> HIDE DEF Pieces
    <3>2. (log \o pipe) \o Record(c) = log \o (pipe \o Record(c))
      BY <3>1, <3>a, ConcatAssociative
    <3> QED BY <2>2, <3>2
  <2>4. KeptUpTo(conn[c], log \o pipe, c, rec[c], buf[c])
    BY <1>k
  <2>5. /\ KeptUpTo(conn[c], (log \o pipe) \o Record(c), c, <<>>, buf[c])
        /\ \A d \in Clients : \A l \in ConnType : \A q, v :
             d # c /\ KeptUpTo(l, log \o pipe, d, q, v) =>
               KeptUpTo(l, (log \o pipe) \o Record(c), d, q, v)
    BY <1>t, <2>1, <2>4, KeptStore
  <2>6. CASE e = c
    BY <1>t, <2>2, <2>3, <2>5, <2>6 DEF Goal
  <2>7. CASE e # c
    <3>1. rec'[e] = rec[e] BY <1>t, <2>2, <2>7
    <3> QED BY <1>k, <1>t, <2>2, <2>3, <2>5, <2>7, <3>1 DEF Goal
  <2> QED BY <2>6, <2>7
<1>7. ASSUME NEW c \in Clients, ReadEof(c) \/ WriteDone(c) PROVE Goal
  BY <1>0, <1>7 DEF ReadEof, WriteDone, net, store
<1>8. ASSUME Parent \/ Pause \/ UNCHANGED vars PROVE Goal
  <2>1. UNCHANGED <<conn, buf, rec, log, pipe>>
    BY <1>8 DEF Parent, Accept, Fork, Close, Deliver, Reap, Pause, net, child, store, vars
  <2> QED BY <1>0, <2>1
<1>9. ASSUME LogRead PROVE Goal
  <2>1. UNCHANGED <<conn, buf, rec>>
    BY <1>9 DEF LogRead, net, child
  <2>2. log' \o pipe' = log \o pipe
    BY <1>9, LogReadMoves
  <2> QED BY <1>0, <2>1, <2>2
<1>10. ~LogCrash
  <2> SUFFICES ASSUME LogCrash PROVE FALSE
    OBVIOUS
  <2>1. reads' = 0 /\ proc[Logger] = "nofile"
    BY DEF LogCrash, IdleInv
  <2>2. proc'[Logger] = "zombie"
    BY DEF LogCrash, Exit, Goto, TypeOK, Procs
  <2>3. 0 < LogReads
    BY ForkAssumption
  <2> QED BY <2>1, <2>2, <2>3 DEF Crashed
<1>11. ASSUME LogEnd PROVE Goal
  <2>1. UNCHANGED <<conn, buf, rec, log, pipe>>
    BY <1>11 DEF LogEnd, net, store
  <2> QED BY <1>0, <2>1
<1>12. Goal
  BY <1>2, <1>3, <1>4, <1>5, <1>6, <1>7, <1>8, <1>9, <1>10, <1>11
  DEF Next, Child, LoggerProcess
<1> QED BY <1>12 DEF Goal

-----------------------------------------------------------------------------
LEMMA Inductive == Spec => []IInv
<1>1. Init => IInv
  BY InvInit
<1>2. IInv /\ [Next]_vars => IInv'
  BY TypeStep, SignalStep, ForkStep, IdleStep, StoreStep DEF IInv
<1> QED BY <1>1, <1>2, PTL DEF Spec

(* Every variable keeps its type in both programs, and what the processes   *)
(* write never overfills the pipe.                                          *)
THEOREM TypeCorrect == Spec => []TypeOK
<1>1. IInv => TypeOK
  BY DEF IInv
<1> QED BY <1>1, Inductive, PTL

(* read_childproc of ch10/echo_mpserv.cpp and ch11/echo_storeserv.cpp looks *)
(* at a status that waitpid did not write no more often than children were  *)
(* stopped or continued: the signals of children that end, merged or not,   *)
(* never let it run in vain.                                                *)
THEOREM StatusIsSet == Spec => []StatusSet
<1>1. IInv => StatusSet
  BY DEF IInv, SignalInv, StatusSet
<1> QED BY <1>1, Inductive, PTL

(* While the logger of ch11/echo_storeserv.cpp did not crash, the file and  *)
(* the pipe hold the beginning of every client's text, each piece once and  *)
(* in order, and all that was echoed but the record in hand.                *)
THEOREM LogStaysWhole == Spec => []LogIntact
<1>1. IInv => LogIntact
  <2> SUFFICES ASSUME IInv, Storing, ~Crashed, NEW c \in Clients
               PROVE  \E k \in 0..conn[c].sent :
                        /\ Records(log \o pipe, c, k)
                        /\ Len(conn[c].out) <= k + Len(rec[c])
    BY DEF LogIntact
  <2>1. PICK b \in 0..conn[c].sent : Kept(conn[c], log \o pipe, c, b, rec[c], buf[c])
    BY DEF IInv, StoreInv, KeptUpTo
  <2>2. /\ Len(conn[c].out) \in Nat /\ Len(buf[c]) \in Nat /\ Len(rec[c]) \in Nat
        /\ conn[c].sent \in Nat
    <3>1. conn[c] \in ConnType /\ buf[c] \in Seq(Nat) /\ rec[c] \in Seq(Nat)
      BY DEF IInv, TypeOK
    <3> QED BY <3>1 DEF ConnType
  <2>3. Records(log \o pipe, c, b) /\ Len(conn[c].out) + Len(buf[c]) <= b + Len(rec[c])
    BY <2>1 DEF Kept
  <2>4. Len(conn[c].out) <= b + Len(rec[c])
    <3> DEFINE o == Len(conn[c].out)
               u == Len(buf[c])
               q == Len(rec[c])
    <3>1. b \in Int
      OBVIOUS
    <3>2. o \in Nat /\ u \in Nat /\ q \in Nat
      BY <2>2
    <3>3. o + u <= b + q
      BY <2>3
    <3> HIDE DEF o, u, q
    <3>4. o <= b + q
      BY <3>1, <3>2, <3>3
    <3> QED BY <3>4 DEF o, q
  <2> QED BY <2>3, <2>4
<1> QED BY <1>1, Inductive, PTL

-----------------------------------------------------------------------------
(* What never ends.                                                         *)

(* Without a logger the pipe only fills.                                    *)
LEMMA NobodyReads ==
  ASSUME TypeOK, ForkInv, [Next]_vars, proc[Logger] \in {"none", "zombie", "reaped"}
  PROVE  /\ proc'[Logger] \in {"none", "zombie", "reaped"}
         /\ Len(pipe') >= Len(pipe)
<1> USE ForkAssumption DEF Procs
<1>t. /\ proc \in [Procs -> {"none", "log", "nofile", "read", "write", "store",
                             "spin", "zombie", "reaped"}]
      /\ Logger \in Procs
  BY DEF TypeOK
<1>p. pipe \in Seq(Clients \X Nat) /\ Len(pipe) \in Nat
  BY DEF TypeOK
<1>1. ASSUME UNCHANGED pipe, NEW q \in Clients, NEW l,
             proc' = [proc EXCEPT ![q] = l] \/ UNCHANGED proc
      PROVE  /\ proc'[Logger] \in {"none", "zombie", "reaped"}
             /\ Len(pipe') >= Len(pipe)
  BY <1>t, <1>p, <1>1
<1>2. ASSUME UNCHANGED <<proc, pipe>>
      PROVE  /\ proc'[Logger] \in {"none", "zombie", "reaped"}
             /\ Len(pipe') >= Len(pipe)
  BY <1>p, <1>2
<1>3. ASSUME NEW c \in Clients, Client(c) PROVE UNCHANGED <<proc, pipe>>
  BY <1>3 DEF Client, child, store
<1>4. ASSUME NEW c \in Clients, ReadError(c) \/ WritePiece(c)
      PROVE  UNCHANGED <<proc, pipe>>
  BY <1>4 DEF ReadError, WritePiece, child, store
<1>5. ASSUME NEW c \in Clients, ReadData(c) \/ ReadEof(c) \/ WriteToGone(c) \/ WriteDone(c)
      PROVE  /\ UNCHANGED pipe
             /\ UNCHANGED proc \/ \E l : proc' = [proc EXCEPT ![c] = l]
  BY <1>5 DEF ReadData, ReadEof, WriteToGone, WriteDone, Exit, Goto, store
<1>6. ASSUME NEW c \in Clients, Store(c)
      PROVE  /\ proc'[Logger] \in {"none", "zombie", "reaped"}
             /\ Len(pipe') >= Len(pipe)
  <2>1. rec[c] \in Seq(Nat)
    BY DEF TypeOK
  <2>2. Record(c) \in Seq(Clients \X Nat) /\ Len(Record(c)) \in Nat
    BY <2>1, RecordType
  <2>3. Len(pipe \o Record(c)) = Len(pipe) + Len(Record(c))
    BY <1>p, <2>2, ConcatProperties
  <2>4. pipe' = pipe \o Record(c) /\ proc' = [proc EXCEPT ![c] = "read"]
    BY <1>6 DEF Store, Goto
  <2>5. proc'[Logger] = proc[Logger]
    BY <1>t, <2>4
  <2>6. Len(pipe') >= Len(pipe)
    BY <1>p, <2>2, <2>3, <2>4
  <2> QED BY <2>5, <2>6
<1>7. CASE Accept \/ Close \/ Deliver
  BY <1>2, <1>7 DEF Accept, Close, Deliver, child, store
<1>8. CASE Fork
  <2>1. clnt_sock \in Clients BY <1>8 DEF Fork, ForkInv
  <2> QED BY <1>1, <1>2, <1>8, <2>1 DEF Fork, Goto, store
<1>9. CASE Reap
  <2>1. UNCHANGED pipe /\ \A q \in Procs : proc'[q] = proc[q] \/ proc'[q] = "reaped"
    BY <1>9 DEF Reap, store
  <2> QED BY <1>t, <1>p, <2>1
<1>10. CASE LoggerProcess
  BY <1>10 DEF LoggerProcess, LogRead, LogCrash, LogEnd
<1>11. CASE Pause \/ UNCHANGED vars
  BY <1>2, <1>11 DEF Pause, vars, child, store
<1> QED
  BY <1>1, <1>2, <1>3, <1>4, <1>5, <1>6, <1>7, <1>8, <1>9, <1>10, <1>11
  DEF Next, Parent, Child

(* A process that waits for room, or spins, does nothing else.              *)
LEMMA NobodyMoves ==
  ASSUME TypeOK, ForkInv, [Next]_vars, NEW c \in Clients,
         proc[c] = "spin" \/ (proc[c] = "store" /\ ~Fits(c))
  PROVE  proc'[c] = proc[c] /\ rec'[c] = rec[c]
<1> USE ForkAssumption DEF Procs
<1>t. /\ proc \in [Procs -> {"none", "log", "nofile", "read", "write", "store",
                             "spin", "zombie", "reaped"}]
      /\ c \in Procs /\ Clients \subseteq Procs
      /\ rec \in [Clients -> Seq(Nat)]
  BY DEF TypeOK
<1>1. ASSUME NEW q \in Procs \ {c}, NEW l, UNCHANGED rec,
             proc' = [proc EXCEPT ![q] = l]
      PROVE  proc'[c] = proc[c] /\ rec'[c] = rec[c]
  BY <1>t, <1>1
<1>2. ASSUME NEW d \in Clients, Client(d) PROVE UNCHANGED <<proc, rec>>
  BY <1>2 DEF Client, child
<1>3. ASSUME NEW d \in Clients, Child(d) PROVE proc'[c] = proc[c] /\ rec'[c] = rec[c]
  <2>1. d # c
    BY <1>3 DEF Child, ReadData, ReadError, ReadEof, WritePiece, WriteToGone, WriteDone, Store
  <2>2. CASE ReadData(d)
    BY <1>t, <2>1, <2>2 DEF ReadData, Goto
  <2>3. CASE Store(d)
    BY <1>t, <2>1, <2>3 DEF Store, Goto
  <2>4. CASE ReadError(d) \/ WritePiece(d)
    BY <2>4 DEF ReadError, WritePiece, child
  <2>5. CASE ReadEof(d) \/ WriteToGone(d) \/ WriteDone(d)
    BY <1>t, <1>1, <2>1, <2>5 DEF ReadEof, WriteToGone, WriteDone, Exit, Goto
  <2> QED BY <1>3, <2>2, <2>3, <2>4, <2>5 DEF Child
<1>4. CASE Accept \/ Close \/ Deliver \/ Pause \/ UNCHANGED vars
  BY <1>4 DEF Accept, Close, Deliver, Pause, child, vars
<1>5. CASE Fork
  <2>1. clnt_sock \in Clients /\ proc[clnt_sock] = "none"
    BY <1>5 DEF Fork, ForkInv
  <2> QED BY <1>t, <1>1, <1>5, <2>1 DEF Fork, Goto
<1>6. CASE Reap
  <2>1. UNCHANGED rec /\ \A q \in Procs : proc'[q] = proc[q] \/ proc[q] = "zombie"
    BY <1>6 DEF Reap, Zombies
  <2> QED BY <1>t, <2>1
<1>7. CASE LoggerProcess
  BY <1>1, <1>t, <1>7 DEF LoggerProcess, LogRead, LogCrash, LogEnd, Exit, Goto, child
<1> QED
  BY <1>2, <1>3, <1>4, <1>5, <1>6, <1>7 DEF Next, Parent

(* Nobody is rescued: a process of ch11/echo_storeserv.cpp that waits for   *)
(* room in the pipe after the logger has gone waits for ever, whatever the  *)
(* others do, and a process of ch10/echo_mpserv.cpp that fell into the      *)
(* accept loop never leaves it.                                             *)
THEOREM StuckStays ==
  Spec => [][\A c \in Clients : /\ Stuck(c) => Stuck(c)'
                                /\ proc[c] = "spin" => proc'[c] = "spin"]_vars
<1>1. ASSUME IInv, [Next]_vars
      PROVE  \A c \in Clients : /\ Stuck(c) => Stuck(c)'
                                /\ proc[c] = "spin" => proc'[c] = "spin"
  <2>t. TypeOK /\ ForkInv
    BY <1>1 DEF IInv
  <2>1. ASSUME NEW c \in Clients, Stuck(c) PROVE Stuck(c)'
    <3>1. /\ proc[c] = "store" /\ ~Fits(c)
          /\ proc[Logger] \in {"none", "zombie", "reaped"}
      BY <2>1 DEF Stuck
    <3>2. proc'[c] = "store" /\ rec'[c] = rec[c]
      BY <1>1, <2>t, <3>1, NobodyMoves
    <3>3. proc'[Logger] \in {"none", "zombie", "reaped"} /\ Len(pipe') >= Len(pipe)
      BY <1>1, <2>t, <3>1, NobodyReads
    <3>4. Len(pipe) \in Nat /\ Len(pipe') \in Nat /\ Len(rec[c]) \in Nat
      <4>1. TypeOK' BY <1>1, <2>t, TypeStep
      <4>2. pipe' \in Seq(Clients \X Nat) BY <4>1 DEF TypeOK
      <4>3. pipe \in Seq(Clients \X Nat) /\ rec[c] \in Seq(Nat) BY <2>t DEF TypeOK
      <4>4. Len(pipe') \in Nat BY <4>2
      <4> QED BY <4>3, <4>4
    <3>5. ~(Len(pipe') + Len(rec'[c]) <= PipeSize)
      <4> DEFINE m == Len(pipe')
                 n == Len(pipe)
                 k == Len(rec[c])
      <4>1. m \in Nat /\ n \in Nat /\ k \in Nat /\ m >= n /\ PipeSize \in Nat
        BY <3>3, <3>4, ForkAssumption
      <4>2. ~(n + k <= PipeSize)
        BY <3>1 DEF Fits
      <4> HIDE DEF m, n, k
      <4>3. ~(m + k <= PipeSize)
        BY <4>1, <4>2
      <4> QED BY <3>2, <4>3 DEF m, k
    <3> QED BY <3>2, <3>3, <3>5 DEF Stuck, Fits
  <2>2. ASSUME NEW c \in Clients, proc[c] = "spin" PROVE proc'[c] = "spin"
    BY <1>1, <2>t, <2>2, NobodyMoves
  <2> QED BY <2>1, <2>2
<1> QED BY <1>1, Inductive, PTL DEF Spec
===============================================================================

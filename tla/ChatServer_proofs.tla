-------------------------- MODULE ChatServer_proofs --------------------------
(* Proofs about ch18/chat_server.cpp, for any number of clients, threads,    *)
(* descriptors and pieces, with the race on clnt_sock and with accepts and   *)
(* pthread_creates that fail.                                                *)
EXTENDS ChatServer, TcpConn_proofs, FiniteSetTheorems

(* The message a handler is sending is the newest one published, and the    *)
(* decrement in handle_clnt never finds a count of 0: the strengthening that *)
(* makes the invariants of the runs inductive.                              *)
TurnInv ==
  \A t \in Threads : pc[t] = "send" =>
    /\ turn[t] = Len(log)
    /\ msg[t] # BadRead => log # <<>>

(* From accept until pthread_create returns there is a thread to create.    *)
RoomInv == mpc # "accept" => \E t \in Threads : pc[t] = "none"

IInv == TypeOK /\ MutexInv /\ CountMatchesHandlers /\ TurnInv /\ RoomInv

-----------------------------------------------------------------------------
(* The mutex is held by exactly the thread that is in its critical section. *)

LEMMA MutexInit == Init => MutexInv
BY ChatAssumption DEF Init, MutexInv, InCritical

LEMMA MutexStep == TypeOK /\ MutexInv /\ [Next]_vars => MutexInv'
<1> SUFFICES ASSUME TypeOK, MutexInv, [Next]_vars PROVE MutexInv'
  OBVIOUS
<1> USE ChatAssumption DEF MutexInv, InCritical
<1>t. pc \in [Threads -> HandlerStates] BY DEF TypeOK
<1>1. ASSUME NEW c \in Clients, Client(c) PROVE MutexInv'
  BY <1>1 DEF Client, Connect, Type, Show, Quit, locals, mainv
<1>2. ASSUME NEW c \in Clients, Accept(c) PROVE MutexInv'
  BY <1>2 DEF Accept, MayAccept, locals
<1>3. CASE AcceptError
  BY <1>3 DEF AcceptError, MayAccept, locals
<1>4. CASE MainLock
  BY <1>4 DEF MainLock, Acquire, locals
<1>5. CASE Register
  BY <1>5 DEF Register, Release, locals
<1>6. ASSUME NEW t \in Threads, Create(t) PROVE MutexInv'
  BY <1>t, <1>6 DEF Create
<1>7. ASSUME NEW t \in Threads, Start(t) PROVE MutexInv'
  BY <1>t, <1>7 DEF Start, Goto, mainv
<1>8. ASSUME NEW t \in Threads, Receiving(t) PROVE MutexInv'
  BY <1>t, <1>8 DEF Receiving, ReadData, ReadError, ReadEof, Goto, mainv
<1>9. ASSUME NEW t \in Threads, SendLock(t) PROVE MutexInv'
  BY <1>t, <1>9 DEF SendLock, Acquire, Goto, mainv
<1>10. ASSUME NEW t \in Threads, SendOne(t) PROVE MutexInv'
  BY <1>t, <1>10 DEF SendOne, Goto, mainv
<1>11. ASSUME NEW t \in Threads, SendUnlock(t) PROVE MutexInv'
  BY <1>t, <1>11 DEF SendUnlock, Release, Goto, mainv
<1>12. ASSUME NEW t \in Threads, LeaveLock(t) PROVE MutexInv'
  BY <1>t, <1>12 DEF LeaveLock, Acquire, Goto, mainv
<1>13. ASSUME NEW t \in Threads, RemoveSelf(t) PROVE MutexInv'
  BY <1>t, <1>13 DEF RemoveSelf, Release, Goto, mainv
<1>14. ASSUME NEW t \in Threads, Close(t) PROVE MutexInv'
  BY <1>t, <1>14 DEF Close, Goto, mainv
<1>15. CASE UNCHANGED vars
  BY <1>15 DEF vars, locals, mainv
<1> QED
  BY <1>1, <1>2, <1>3, <1>4, <1>5, <1>6, <1>7, <1>8, <1>9, <1>10, <1>11,
     <1>12, <1>13, <1>14, <1>15
     DEF Next, MainThread, Handler, Sending, Leaving

-----------------------------------------------------------------------------
(* clnt_cnt counts the handlers that have not left.                         *)

LEMMA CountedFinite == IsFiniteSet(Counted) /\ Cardinality(Counted) \in Nat
                       /\ Cardinality(Counted) <= Cardinality(Threads)
                       /\ Cardinality(Threads) \in Nat
BY ChatAssumption, FS_Subset, FS_CardinalityType DEF Counted

LEMMA CountInit == Init => CountMatchesHandlers
<1> SUFFICES ASSUME Init PROVE CountMatchesHandlers
  OBVIOUS
<1>1. Counted = {} BY DEF Init, Counted
<1> QED BY <1>1, FS_EmptySet DEF CountMatchesHandlers, Init

(* A step that moves no handler into or out of its working states, and main *)
(* neither to nor from pthread_create, leaves both sides of the equation.   *)
LEMMA CountFrame ==
  ASSUME CountMatchesHandlers, clnt_cnt' = clnt_cnt, Counted' = Counted,
         mpc' = "create" <=> mpc = "create"
  PROVE  CountMatchesHandlers'
BY DEF CountMatchesHandlers

LEMMA CountStep == TypeOK /\ CountMatchesHandlers /\ [Next]_vars => CountMatchesHandlers'
<1> SUFFICES ASSUME TypeOK, CountMatchesHandlers, [Next]_vars
             PROVE  CountMatchesHandlers'
  OBVIOUS
<1>t. pc \in [Threads -> HandlerStates] BY DEF TypeOK
<1>1. ASSUME NEW c \in Clients, Client(c) PROVE CountMatchesHandlers'
  BY <1>1, CountFrame
  DEF Client, Connect, Type, Show, Quit, locals, mainv, list, Counted
<1>2. ASSUME NEW c \in Clients, Accept(c) PROVE CountMatchesHandlers'
  BY <1>2, CountFrame DEF Accept, MayAccept, locals, list, Counted
<1>3. CASE AcceptError
  BY <1>3, CountFrame DEF AcceptError, MayAccept, locals, list, Counted
<1>4. CASE MainLock
  BY <1>4, CountFrame DEF MainLock, Acquire, locals, list, Counted
<1>5. CASE Register
  <2>1. Counted' = Counted BY <1>5 DEF Register, locals, Counted
  <2>2. clnt_cnt' = clnt_cnt + 1 /\ mpc = "register" /\ mpc' = "create"
    BY <1>5 DEF Register
  <2> QED BY <2>1, <2>2, CountedFinite DEF CountMatchesHandlers
<1>6. ASSUME NEW t \in Threads, Create(t) PROVE CountMatchesHandlers'
  <2>1. Counted' = Counted \cup {t} /\ t \notin Counted
    BY <1>6, <1>t DEF Create, Counted
  <2>2. Cardinality(Counted') = Cardinality(Counted) + 1
    BY <2>1, CountedFinite, FS_AddElement
  <2>3. clnt_cnt' = clnt_cnt /\ mpc = "create" /\ mpc' = "accept"
    BY <1>6 DEF Create, list
  <2> QED BY <2>2, <2>3, CountedFinite DEF CountMatchesHandlers
<1>7. ASSUME NEW t \in Threads, Start(t) PROVE CountMatchesHandlers'
  BY <1>t, <1>7, CountFrame DEF Start, Goto, mainv, list, Counted
<1>8. ASSUME NEW t \in Threads, Receiving(t) PROVE CountMatchesHandlers'
  BY <1>t, <1>8, CountFrame
  DEF Receiving, ReadData, ReadError, ReadEof, Goto, mainv, list, Counted
<1>9. ASSUME NEW t \in Threads, Sending(t) PROVE CountMatchesHandlers'
  BY <1>t, <1>9, CountFrame
  DEF Sending, SendLock, SendOne, SendUnlock, Goto, mainv, list, Counted
<1>10. ASSUME NEW t \in Threads, LeaveLock(t) PROVE CountMatchesHandlers'
  BY <1>t, <1>10, CountFrame DEF LeaveLock, Goto, mainv, list, Counted
<1>11. ASSUME NEW t \in Threads, RemoveSelf(t) PROVE CountMatchesHandlers'
  <2>1. Counted' = Counted \ {t} /\ t \in Counted
    BY <1>11, <1>t DEF RemoveSelf, Goto, Counted
  <2>2. Cardinality(Counted') = Cardinality(Counted) - 1
    BY <2>1, CountedFinite, FS_RemoveElement
  <2>3. clnt_cnt' = clnt_cnt - 1 /\ mpc' = mpc
    BY <1>11 DEF RemoveSelf, mainv
  <2> QED BY <2>2, <2>3, CountedFinite DEF CountMatchesHandlers
<1>12. ASSUME NEW t \in Threads, Close(t) PROVE CountMatchesHandlers'
  BY <1>t, <1>12, CountFrame DEF Close, Goto, mainv, list, Counted
<1>13. CASE UNCHANGED vars
  BY <1>13, CountFrame DEF vars, locals, mainv, list, Counted
<1> QED
  BY <1>1, <1>2, <1>3, <1>4, <1>5, <1>6, <1>7, <1>8, <1>9, <1>10, <1>11,
     <1>12, <1>13
     DEF Next, MainThread, Handler, Leaving

LEMMA RoomStep == TypeOK /\ RoomInv /\ [Next]_vars => RoomInv'
<1> SUFFICES ASSUME TypeOK, RoomInv, [Next]_vars, mpc' # "accept"
             PROVE  \E t \in Threads : pc'[t] = "none"
  BY DEF RoomInv
<1>t. pc \in [Threads -> HandlerStates] BY DEF TypeOK
<1>1. PICK n \in Threads : pc[n] = "none"
  <2>1. CASE mpc = "accept"
    BY <2>1 DEF Next, MainThread, Accept, AcceptError, MayAccept, MainLock, Register,
       Create, Client, Connect, Type, Show, Quit, Handler, Start, Receiving, ReadData,
       ReadError, ReadEof, Sending, SendLock, SendOne, SendUnlock, Leaving, LeaveLock,
       RemoveSelf, Close, vars, mainv
  <2>2. CASE mpc # "accept"
    BY <2>2 DEF RoomInv
  <2> QED BY <2>1, <2>2
<1>2. pc'[n] = "none"
  <2>1. ASSUME NEW t \in Threads, Handler(t) PROVE pc'[n] = "none"
    BY <2>1, <1>1, <1>t DEF Handler, Start, Receiving, ReadData, ReadError, ReadEof,
       Sending, SendLock, SendOne, SendUnlock, Leaving, LeaveLock, RemoveSelf, Close,
       Goto
  <2>2. CASE MainThread
    BY <2>2, <1>1 DEF MainThread, Accept, AcceptError, MainLock, Register, Create, locals
  <2>3. ASSUME NEW c \in Clients, Client(c) PROVE pc'[n] = "none"
    BY <2>3, <1>1 DEF Client, Connect, Type, Show, Quit, locals
  <2>4. CASE UNCHANGED vars
    BY <2>4, <1>1 DEF vars, locals
  <2> QED BY <2>1, <2>2, <2>3, <2>4 DEF Next
<1> QED BY <1>2

(* The equation keeps clnt_cnt an index of clnt_socks, so that the slot     *)
(* after the last one, which handle_clnt reads, is inside the array.        *)
LEMMA CountBounds ==
  CountMatchesHandlers /\ RoomInv => clnt_cnt \in 0..MAX_CLNT-1
<1> SUFFICES ASSUME CountMatchesHandlers, RoomInv PROVE clnt_cnt \in 0..MAX_CLNT-1
  OBVIOUS
<1>1. CASE mpc = "create"
  <2>1. PICK n \in Threads : pc[n] = "none" BY <1>1 DEF RoomInv
  <2>2. Counted \subseteq Threads \ {n} BY <2>1 DEF Counted
  <2>3. /\ IsFiniteSet(Threads \ {n})
        /\ Cardinality(Threads \ {n}) = Cardinality(Threads) - 1
    BY ChatAssumption, FS_RemoveElement
  <2>4. Cardinality(Counted) <= Cardinality(Threads) - 1
    BY <2>2, <2>3, FS_Subset
  <2> QED BY <1>1, <2>4, ChatAssumption, CountedFinite DEF CountMatchesHandlers
<1>2. CASE mpc # "create"
  BY <1>2, ChatAssumption, CountedFinite DEF CountMatchesHandlers
<1> QED BY <1>1, <1>2

LEMMA CountBoundsNext ==
  CountMatchesHandlers' /\ RoomInv' => clnt_cnt' \in 0..MAX_CLNT-1
<1>1. (CountMatchesHandlers /\ RoomInv => clnt_cnt \in 0..MAX_CLNT-1)'
  BY CountBounds, PTL
<1> QED BY <1>1

-----------------------------------------------------------------------------
(* The message being sent is the newest one.                                *)

LEMMA SignedType ==
  ASSUME TypeOK, NEW t \in Threads PROVE Signed(t) \in Entry
BY DEF TypeOK, Message, Entry, Signed

LEMMA TurnInit == Init => TurnInv
BY DEF Init, TurnInv

LEMMA TurnStep == TypeOK /\ MutexInv /\ TurnInv /\ [Next]_vars => TurnInv'
<1> SUFFICES ASSUME TypeOK, MutexInv, TurnInv, [Next]_vars,
                    NEW u \in Threads, pc'[u] = "send"
             PROVE  /\ turn'[u] = Len(log')
                    /\ msg'[u] # BadRead => log' # <<>>
  BY DEF TurnInv
<1> USE DEF TurnInv
<1>t. /\ pc \in [Threads -> HandlerStates] /\ turn \in [Threads -> Nat]
      /\ msg \in [Threads -> Message] /\ log \in Seq(Entry)
  BY DEF TypeOK
<1> DEFINE Goal == /\ turn'[u] = Len(log')
                   /\ msg'[u] # BadRead => log' # <<>>
<1>1. ASSUME NEW c \in Clients, Client(c) PROVE Goal
  BY <1>1 DEF Client, Connect, Type, Show, Quit, locals, history
<1>2. CASE MainThread
  BY <1>2, <1>t DEF MainThread, Accept, AcceptError, MainLock, Register, Create,
     locals, history
<1>3. ASSUME NEW t \in Threads, Start(t) \/ Receiving(t) PROVE Goal
  BY <1>3, <1>t DEF Start, Receiving, ReadData, ReadError, ReadEof, Goto, history
<1>4. ASSUME NEW t \in Threads, SendLock(t) PROVE Goal
  <2>1. u = t
    BY <1>4, <1>t, ChatAssumption DEF SendLock, Acquire, Goto, MutexInv, InCritical
  <2>2. turn'[t] = Len(log') /\ msg' = msg
    BY <1>4, <1>t DEF SendLock
  <2>3. msg[t] # BadRead => log' # <<>>
    BY <1>4, <1>t, SignedType DEF SendLock
  <2> QED BY <2>1, <2>2, <2>3
<1>5. ASSUME NEW t \in Threads, SendOne(t) \/ SendUnlock(t) PROVE Goal
  BY <1>5, <1>t DEF SendOne, SendUnlock, Goto, history
<1>6. ASSUME NEW t \in Threads, Leaving(t) PROVE Goal
  BY <1>6, <1>t DEF Leaving, LeaveLock, RemoveSelf, Close, Goto, history
<1>7. CASE UNCHANGED vars
  BY <1>7 DEF vars, locals, history
<1> QED
  BY <1>1, <1>2, <1>3, <1>4, <1>5, <1>6, <1>7 DEF Next, Handler, Sending

-----------------------------------------------------------------------------
(* Types.                                                                   *)

LEMMA TypeInit == Init => TypeOK
<1> SUFFICES ASSUME Init PROVE TypeOK
  OBVIOUS
<1>1. NoConn \in ConnType /\ BadRead \in Message
  BY DEF NoConn, ConnType, PeerStates, BadRead, Message
<1>2. 0 \in FdValues /\ -1 \in FdValues BY DEF FdValues
<1>3. /\ conn \in [Clients -> ConnType] /\ msg \in [Threads -> Message]
      /\ log \in Seq(Entry)
  BY <1>1 DEF Init
<1>4. clnt_cnt \in 0..MAX_CLNT /\ clnt_socks \in [0..MAX_CLNT-1 -> FdValues]
  BY <1>2, ChatAssumption DEF Init
<1>5. /\ sock \in [Threads -> FdValues] /\ clnt_sock \in FdValues
      /\ i \in [Threads -> Nat] /\ turn \in [Threads -> Nat]
  BY <1>2 DEF Init
<1> QED
  BY <1>3, <1>4, <1>5 DEF Init, TypeOK, HandlerStates, MainStates

LEMMA TypeClient ==
  ASSUME TypeOK, NEW c \in Clients, Client(c) PROVE TypeOK'
<1> USE DEF TypeOK
<1>1. conn[c] \in ConnType
  OBVIOUS
<1>2. conn' \in [Clients -> ConnType]
  BY <1>1, ConnClosure DEF Client, Connect, Type, Show, Quit
<1>3. backlog' \in SUBSET Clients
  BY DEF Client, Connect, Type, Show, Quit
<1>4. UNCHANGED <<file, alive, mutex, list, mainv, locals, history>>
  BY DEF Client, Connect, Type, Show, Quit
<1> QED BY <1>2, <1>3, <1>4 DEF list, mainv, locals, history

LEMMA TypeMain ==
  ASSUME TypeOK, CountMatchesHandlers', RoomInv', MainThread PROVE TypeOK'
<1> USE DEF TypeOK, net, list, mainv, locals, history
<1>1. clnt_cnt' \in 0..MAX_CLNT
  <2>1. clnt_cnt' \in 0..MAX_CLNT-1 BY CountBoundsNext
  <2> QED BY <2>1, ChatAssumption
<1>2. ASSUME NEW c \in Clients, Accept(c) PROVE TypeOK'
  BY <1>2 DEF Accept, FdValues, MainStates
<1>3. CASE AcceptError
  BY <1>3 DEF AcceptError, FdValues, MainStates
<1>4. CASE MainLock
  BY <1>4 DEF MainLock, Acquire, MainStates
<1>5. CASE Register
  BY <1>1, <1>5 DEF Register, Release, MainStates
<1>6. ASSUME NEW t \in Threads, Create(t) PROVE TypeOK'
  <2> DEFINE m == [fd |-> clnt_sock,
                   client |-> IF IsOpen(clnt_sock) THEN file[clnt_sock] ELSE NoClient]
  <2>1. m \in [fd : FdValues, client : Clients \cup {NoClient}]
    BY DEF IsOpen
  <2>2. meant' = [meant EXCEPT ![t] = m]
    BY <1>6 DEF Create
  <2> HIDE DEF m
  <2>3. meant' \in [Threads -> [fd : FdValues, client : Clients \cup {NoClient}]]
    BY <2>1, <2>2
  <2>4. pc' \in [Threads -> HandlerStates] /\ mpc' \in MainStates
    BY <1>6 DEF Create, MainStates, HandlerStates
  <2> QED BY <1>6, <2>3, <2>4 DEF Create
<1> QED BY <1>2, <1>3, <1>4, <1>5, <1>6 DEF MainThread

LEMMA TypeReceiving ==
  ASSUME TypeOK, NEW t \in Threads, Receiving(t) PROVE TypeOK'
<1> USE DEF TypeOK, net, list, mainv, locals, history
<1>1. CASE ReadData(t)
  <2> DEFINE c == file[sock[t]]
  <2>1. PICK n \in 1..Len(conn[c].in) :
          /\ msg' = [msg EXCEPT ![t] = [from |-> c, data |-> Taken(conn[c], n)]]
          /\ conn' = [conn EXCEPT ![c] = Left(@, n)]
    BY <1>1 DEF ReadData
  <2>2. c \in Clients
    BY <1>1 DEF ReadData, IsOpen
  <2>3. conn[c] \in ConnType
    BY <2>2
  <2>4. Taken(conn[c], n) \in Seq(Nat) /\ Left(conn[c], n) \in ConnType
    BY <2>3, ReadClosure
  <2>5. msg' \in [Threads -> Message]
    BY <2>1, <2>2, <2>4 DEF Message
  <2>6. conn' \in [Clients -> ConnType]
    BY <2>1, <2>2, <2>4
  <2>7. pc' \in [Threads -> HandlerStates]
    BY <1>1 DEF ReadData, Goto, HandlerStates
  <2>8. UNCHANGED <<backlog, file, alive, mutex, list, mainv, sock, i, history>>
    BY <1>1 DEF ReadData
  <2> QED BY <2>5, <2>6, <2>7, <2>8
<1>2. CASE ReadError(t)
  <2>1. BadRead \in Message BY DEF BadRead, Message
  <2>2. conn' \in [Clients -> ConnType]
    <3>1. CASE IsOpen(sock[t])
      <4>1. file[sock[t]] \in Clients BY <3>1 DEF IsOpen
      <4>2. conn[file[sock[t]]] \in ConnType BY <4>1
      <4> QED BY <1>2, <3>1, <4>1, <4>2, ConnClosure DEF ReadError
    <3>2. CASE ~IsOpen(sock[t])
      BY <1>2, <3>2 DEF ReadError
    <3> QED BY <3>1, <3>2
  <2>3. msg' \in [Threads -> Message] /\ pc' \in [Threads -> HandlerStates]
    BY <1>2, <2>1 DEF ReadError, Goto, HandlerStates
  <2>4. UNCHANGED <<backlog, file, alive, mutex, list, mainv, sock, i, history>>
    BY <1>2 DEF ReadError
  <2> QED BY <2>2, <2>3, <2>4
<1>3. CASE ReadEof(t)
  BY <1>3 DEF ReadEof, Goto, HandlerStates
<1> QED BY <1>1, <1>2, <1>3 DEF Receiving

LEMMA TypeSending ==
  ASSUME TypeOK, NEW t \in Threads, Sending(t) PROVE TypeOK'
<1> USE DEF TypeOK, net, list, mainv, locals, history
<1>1. CASE SendLock(t)
  <2>1. log' \in Seq(Entry)
    BY <1>1, SignedType DEF SendLock
  <2>2. Len(log') \in Nat
    BY <2>1
  <2>3. turn' \in [Threads -> Nat] /\ i' \in [Threads -> Nat]
    BY <1>1, <2>2 DEF SendLock
  <2>4. mutex' \in Threads \cup {Main, Free} /\ pc' \in [Threads -> HandlerStates]
    BY <1>1 DEF SendLock, Acquire, Goto, HandlerStates
  <2>5. UNCHANGED <<net, file, alive, list, mainv, sock, msg, meant>>
    BY <1>1 DEF SendLock
  <2> QED BY <2>1, <2>3, <2>4, <2>5
<1>2. CASE SendOne(t)
  <2> DEFINE f == clnt_socks[i[t]]
  <2>1. conn' \in [Clients -> ConnType] /\ alive' \in BOOLEAN
    <3>1. CASE msg[t] = BadRead \/ ~IsOpen(f)
      BY <1>2, <3>1 DEF SendOne
    <3>2. CASE ~(msg[t] = BadRead \/ ~IsOpen(f))
      <4>1. file[f] \in Clients BY <3>2 DEF IsOpen
      <4>2. conn[file[f]] \in ConnType /\ turn[t] \in Nat BY <4>1
      <4>3. Written(conn[file[f]], turn[t]) \subseteq ConnType
        BY <4>2, ConnClosure
      <4>4. /\ \E k \in Written(conn[file[f]], turn[t]) :
                 conn' = [conn EXCEPT ![file[f]] = k]
            /\ alive' = ~Fatal(conn[file[f]])
        BY <1>2, <3>2 DEF SendOne
      <4> QED BY <4>1, <4>3, <4>4 DEF Fatal
    <3> QED BY <3>1, <3>2
  <2>2. i' \in [Threads -> Nat] /\ pc' \in [Threads -> HandlerStates]
    BY <1>2 DEF SendOne, Goto, HandlerStates
  <2>3. UNCHANGED <<backlog, file, mutex, list, mainv, sock, msg, history>>
    BY <1>2 DEF SendOne
  <2> QED BY <2>1, <2>2, <2>3
<1>3. CASE SendUnlock(t)
  BY <1>3 DEF SendUnlock, Release, Goto, HandlerStates
<1> QED BY <1>1, <1>2, <1>3 DEF Sending

LEMMA TypeLeaving ==
  ASSUME TypeOK, CountMatchesHandlers, RoomInv, CountMatchesHandlers', RoomInv',
         NEW t \in Threads, Leaving(t)
  PROVE  TypeOK'
<1> USE DEF TypeOK, net, list, mainv, locals, history
<1>1. CASE LeaveLock(t)
  BY <1>1 DEF LeaveLock, Acquire, Goto, HandlerStates
<1>2. CASE RemoveSelf(t)
  <2>1. clnt_cnt' \in 0..MAX_CLNT
    <3>1. clnt_cnt' \in 0..MAX_CLNT-1 BY CountBoundsNext
    <3> QED BY <3>1, ChatAssumption
  <2>2. clnt_socks' \in [0..MAX_CLNT-1 -> FdValues]
    <3>1. clnt_cnt \in 0..MAX_CLNT-1
      BY CountBounds
    <3>2. clnt_socks' = Without(clnt_socks, clnt_cnt, sock[t])
      BY <1>2 DEF RemoveSelf
    <3>3. Without(clnt_socks, clnt_cnt, sock[t]) \in [0..MAX_CLNT-1 -> FdValues]
      BY SMTT(20), <3>1, ChatAssumption DEF Without
    <3> QED BY <3>2, <3>3
  <2>3. pc' \in [Threads -> HandlerStates] /\ mutex' \in Threads \cup {Main, Free}
    BY <1>2 DEF RemoveSelf, Goto, HandlerStates, Release
  <2> QED BY <1>2, <2>1, <2>2, <2>3 DEF RemoveSelf
<1>3. CASE Close(t)
  BY <1>3 DEF Close, Goto, HandlerStates
<1> QED BY <1>1, <1>2, <1>3 DEF Leaving

LEMMA TypeStart ==
  ASSUME TypeOK, NEW t \in Threads, Start(t) PROVE TypeOK'
BY DEF TypeOK, Start, Goto, HandlerStates, net, list, mainv, history

-----------------------------------------------------------------------------
(* Which steps write to clients, and which publish.                         *)

LEMMA OutChange ==
  ASSUME TypeOK, [Next]_vars, ~\E t \in Threads : SendOne(t)
  PROVE  \A c \in Clients : conn'[c].out = conn[c].out
<1>t. conn \in [Clients -> ConnType] /\ file \in [Fds -> Clients \cup {NoClient}]
  BY DEF TypeOK
<1>1. ASSUME NEW d \in Clients, Client(d)
      PROVE  \A c \in Clients : conn'[c].out = conn[c].out
  <2>1. conn[d] \in ConnType BY <1>t
  <2>2. PICK k \in {Dial(conn[d]), Send(conn[d]), Receive(conn[d]), HangUp(conn[d])} :
          conn' = [conn EXCEPT ![d] = k]
    BY <1>1 DEF Client, Connect, Type, Show, Quit
  <2>3. k.out = conn[d].out BY <2>1, <2>2, OutFrame
  <2> QED BY <1>t, <2>2, <2>3
<1>2. ASSUME NEW t \in Threads, ReadData(t)
      PROVE  \A c \in Clients : conn'[c].out = conn[c].out
  BY <1>2, <1>t, OutFrame DEF ReadData, IsOpen
<1>3. ASSUME NEW t \in Threads, ReadError(t)
      PROVE  \A c \in Clients : conn'[c].out = conn[c].out
  BY <1>3, <1>t, OutFrame DEF ReadError, IsOpen
<1>4. ASSUME NEW t \in Threads,
             Start(t) \/ ReadEof(t) \/ SendLock(t) \/ SendUnlock(t) \/ Leaving(t)
      PROVE  conn' = conn
  BY <1>4 DEF Start, ReadEof, SendLock, SendUnlock, Leaving, LeaveLock, RemoveSelf,
     Close, net
<1>5. CASE MainThread
  BY <1>5 DEF MainThread, Accept, AcceptError, MainLock, Register, Create, net
<1>6. CASE UNCHANGED vars
  BY <1>6 DEF vars, net
<1> QED
  BY <1>1, <1>2, <1>3, <1>4, <1>5, <1>6 DEF Next, Handler, Receiving, Sending

LEMMA LogChange ==
  ASSUME [Next]_vars, ~\E t \in Threads : SendLock(t)
  PROVE  log' = log
BY DEF Next, MainThread, Accept, AcceptError, MainLock, Register, Create, Client,
   Connect, Type, Show, Quit, Handler, Start, Receiving, ReadData, ReadError,
   ReadEof, Sending, SendOne, SendUnlock, Leaving, LeaveLock, RemoveSelf, Close,
   vars, history

-----------------------------------------------------------------------------
(* The theorems.                                                            *)

LEMMA Inductive == Spec => []IInv
<1>1. Init => IInv
  BY TypeInit, MutexInit, CountInit, TurnInit DEF IInv, RoomInv, Init
<1>2. IInv /\ [Next]_vars => IInv'
  <2> SUFFICES ASSUME IInv, [Next]_vars PROVE IInv'
    OBVIOUS
  <2>1. MutexInv' /\ CountMatchesHandlers' /\ TurnInv' /\ RoomInv'
    BY MutexStep, CountStep, TurnStep, RoomStep DEF IInv
  <2>2. TypeOK'
    <3>1. CASE UNCHANGED vars
      BY <3>1 DEF IInv, TypeOK, vars, net, list, mainv, locals, history
    <3>2. CASE Next
      BY <2>1, <3>2, TypeClient, TypeMain, TypeReceiving, TypeSending, TypeLeaving,
         TypeStart
      DEF IInv, Next, Handler
    <3> QED BY <3>1, <3>2
  <2> QED BY <2>1, <2>2 DEF IInv
<1> QED BY <1>1, <1>2, PTL DEF Spec

(* Every variable keeps its type; clnt_cnt never leaves the array.          *)
THEOREM TypeCorrect == Spec => []TypeOK
BY Inductive, PTL DEF IInv

(* The mutex is held by exactly the thread between its lock and its unlock. *)
THEOREM MutualExclusion == Spec => []MutexInv
BY Inductive, PTL DEF IInv

(* clnt_cnt counts the handlers that have not left, whatever the race on    *)
(* clnt_sock, failing accepts and failing pthread_creates do to the array.  *)
THEOREM CountIsExact == Spec => []CountMatchesHandlers
BY Inductive, PTL DEF IInv

(* Between a handler's lock and its unlock nobody joins, leaves or sends.   *)
THEOREM BroadcastIsAtomic == Spec => AtomicBroadcast
<1>1. IInv /\ [Next]_vars => [BroadcastStep]_vars
  <2> SUFFICES ASSUME IInv, Next, NEW t \in Threads, pc[t] = "send"
               PROVE  /\ UNCHANGED list
                      /\ \A c \in Clients :
                           conn'[c].out # conn[c].out => i'[t] = i[t] + 1
    BY DEF BroadcastStep
  <2> USE DEF IInv
  <2>t. conn \in [Clients -> ConnType] /\ i \in [Threads -> Nat]
    BY DEF TypeOK
  <2>m. mutex = t /\ mpc # "register" /\ (\A u \in Threads : InCritical(u) => u = t)
    BY ChatAssumption DEF MutexInv, InCritical
  <2>1. UNCHANGED list
    <3>1. ASSUME NEW u \in Threads, Handler(u) PROVE UNCHANGED list
      BY <3>1, <2>m DEF Handler, Start, Receiving, ReadData, ReadError, ReadEof,
         Sending, SendLock, SendOne, SendUnlock, Leaving, LeaveLock, RemoveSelf,
         Close, Goto, InCritical
    <3>2. CASE MainThread
      BY <3>2, <2>m DEF MainThread, Accept, AcceptError, MainLock, Register, Create
    <3>3. ASSUME NEW c \in Clients, Client(c) PROVE UNCHANGED list
      BY <3>3 DEF Client, Connect, Type, Show, Quit
    <3> QED BY <3>1, <3>2, <3>3 DEF Next
  <2>2. ASSUME NEW c \in Clients, conn'[c].out # conn[c].out
        PROVE  i'[t] = i[t] + 1
    <3>1. PICK u \in Threads : SendOne(u)
      BY <2>2, OutChange
    <3>2. u = t
      BY <3>1, <2>m DEF SendOne, Goto, InCritical
    <3> QED BY <3>1, <3>2, <2>t DEF SendOne
  <2> QED BY <2>1, <2>2
<1> QED BY <1>1, Inductive, PTL DEF Spec, AtomicBroadcast

(* Any two clients see the messages they both get in the same order.        *)
THEOREM ChatImplementsBroadcast == Spec => BroadcastSpec
<1>1. Init => Order!Init
  BY DEF Init, Order!Init, NoConn
<1>2. IInv /\ [Next]_vars => [Order!Next]_(Order!vars)
  <2> SUFFICES ASSUME IInv, [Next]_vars PROVE [Order!Next]_(Order!vars)
    OBVIOUS
  <2> USE DEF IInv
  <2> DEFINE Got == [c \in Clients |-> conn[c].out]
  <2>t. /\ conn \in [Clients -> ConnType] /\ log \in Seq(Entry)
        /\ turn \in [Threads -> Nat]
    BY DEF TypeOK
  <2>1. CASE \E t \in Threads : SendLock(t)
    <3>1. PICK t \in Threads : SendLock(t) BY <2>1
    <3>2. Len(log') = Len(log) \/ Len(log') = Len(log) + 1
      BY <3>1, <2>t DEF SendLock
    <3>3. UNCHANGED Got BY <3>1 DEF SendLock, net
    <3> QED BY <3>2, <3>3 DEF Order!Next, Order!Publish, Order!vars
  <2>2. CASE \E t \in Threads : SendOne(t)
    <3>1. PICK t \in Threads : SendOne(t) BY <2>2
    <3> DEFINE f == clnt_socks[i[t]]
    <3>2. log' = log BY <3>1 DEF SendOne, history
    <3>3. CASE msg[t] = BadRead \/ ~IsOpen(f)
      <4>1. conn' = conn BY <3>1, <3>3 DEF SendOne
      <4> QED BY <4>1, <3>2 DEF Order!vars
    <3>4. CASE ~(msg[t] = BadRead \/ ~IsOpen(f))
      <4> DEFINE c == file[f]
      <4>1. c \in Clients /\ turn[t] = Len(log) /\ Len(log) > 0
        BY <3>1, <3>4, <2>t DEF IsOpen, TypeOK, TurnInv, SendOne, Goto
      <4>2. PICK k \in Written(conn[c], turn[t]) : conn' = [conn EXCEPT ![c] = k]
        BY <3>1, <3>4 DEF SendOne
      <4>3. k.out = conn[c].out \/ k.out = Append(conn[c].out, Len(log))
        BY SMTT(20), <4>1, <4>2, <2>t, OutFrame
      <4>4. CASE k.out = conn[c].out
        <5>1. Got' = Got BY <4>1, <4>2, <4>4, <2>t
        <5> QED BY <5>1, <3>2 DEF Order!vars
      <4>5. CASE k.out = Append(conn[c].out, Len(log))
        <5>1. Got' = [Got EXCEPT ![c] = Append(@, Len(log))]
          BY <4>1, <4>2, <4>5, <2>t
        <5> QED BY <5>1, <3>2, <4>1 DEF Order!Next, Order!Deliver
      <4> QED BY <4>3, <4>4, <4>5
    <3> QED BY <3>3, <3>4
  <2>3. CASE ~(\E t \in Threads : SendLock(t) \/ SendOne(t))
    <3>1. log' = log BY <2>3, LogChange
    <3>2. \A c \in Clients : conn'[c].out = conn[c].out
      BY <2>3, OutChange
    <3>3. UNCHANGED Got BY <3>2
    <3> QED BY <3>1, <3>3 DEF Order!vars
  <2> QED BY <2>1, <2>2, <2>3
<1> QED BY <1>1, <1>2, Inductive, PTL DEF Spec, BroadcastSpec, Order!Spec

-----------------------------------------------------------------------------
(* The abstract broadcast keeps the order it is about: published messages p *)
(* and what the receivers got, g, before a step, and q and h after it.      *)
Ordered(p, g) ==
  /\ p \in Nat /\ g \in [Clients -> Seq(Nat)]
  /\ \A r \in Clients : Order!InOrder(g[r]) /\ \A a \in 1..Len(g[r]) : g[r][a] <= p

LEMMA OrderPublish ==
  ASSUME NEW p, NEW g, Ordered(p, g) PROVE Ordered(p + 1, g)
<1>1. ASSUME NEW r \in Clients, NEW a \in 1..Len(g[r]) PROVE g[r][a] <= p + 1
  <2>1. g[r][a] \in Nat /\ g[r][a] <= p /\ p \in Nat BY DEF Ordered
  <2> QED BY <2>1
<1> QED BY <1>1 DEF Ordered

LEMMA OrderDeliver ==
  ASSUME NEW p, NEW g, Ordered(p, g), NEW r \in Clients
  PROVE  Ordered(p, [g EXCEPT ![r] = Append(@, p)])
<1> DEFINE s == g[r]
           n == Append(s, p)
<1>1. /\ s \in Seq(Nat) /\ p \in Nat
      /\ \A a, b \in 1..Len(s) : a < b => s[a] <= s[b]
      /\ \A a \in 1..Len(s) : s[a] <= p
  BY DEF Ordered, Order!InOrder
<1>2. n \in Seq(Nat) /\ Len(n) = Len(s) + 1 /\ n[Len(s) + 1] = p
      /\ \A a \in 1..Len(s) : n[a] = s[a]
  BY <1>1
<1> HIDE DEF n, s
<1>3. \A a \in 1..Len(n) : a \in 1..Len(s) \/ a = Len(s) + 1
  BY <1>1, <1>2
<1>4. \A a \in 1..Len(n) : n[a] <= p
  BY <1>1, <1>2, <1>3
<1>5. ASSUME NEW a \in 1..Len(n), NEW b \in 1..Len(n), a < b PROVE n[a] <= n[b]
  <2>1. CASE b \in 1..Len(s)
    <3>1. a \in 1..Len(s) BY <1>1, <1>2, <1>5, <2>1
    <3> QED BY <3>1, <2>1, <1>1, <1>2, <1>5
  <2>2. CASE b = Len(s) + 1 BY <1>2, <1>4, <2>2
  <2> QED BY <1>3, <2>1, <2>2
<1>6. Order!InOrder(n)
  BY <1>5 DEF Order!InOrder
<1> QED BY <1>2, <1>4, <1>6 DEF Ordered, n, s

(* Whoever implements the broadcast delivers no two messages in the         *)
(* opposite of publication order.                                           *)
THEOREM BroadcastOrder == Order!Spec => []Order!TotalOrder
<1> DEFINE p == Len(log)
           g == [c \in Clients |-> conn[c].out]
           Inv == Ordered(p, g)
<1>1. Order!Init => Inv
  <2> SUFFICES ASSUME Order!Init PROVE Ordered(p, g)
    OBVIOUS
  <2>1. p = 0 /\ g = [r \in Clients |-> <<>>] BY DEF Order!Init
  <2> HIDE DEF p, g
  <2>2. \A r \in Clients : g[r] = <<>> /\ Len(g[r]) = 0 BY <2>1
  <2>3. g \in [Clients -> Seq(Nat)] BY <2>1
  <2>4. \A r \in Clients : Order!InOrder(g[r]) BY <2>2 DEF Order!InOrder
  <2> QED BY <2>1, <2>2, <2>3, <2>4 DEF Ordered
<1>2. Inv /\ [Order!Next]_(Order!vars) => Inv'
  <2> SUFFICES ASSUME Ordered(p, g), [Order!Next]_(Order!vars) PROVE Ordered(p, g)'
    OBVIOUS
  <2>1. CASE Order!Publish
    <3>1. p' = p + 1 /\ g' = g BY <2>1 DEF Order!Publish
    <3> HIDE DEF p, g
    <3> QED BY <3>1, OrderPublish
  <2>2. ASSUME NEW r \in Clients, Order!Deliver(r) PROVE Ordered(p, g)'
    <3>1. p' = p /\ g' = [g EXCEPT ![r] = Append(@, p)] BY <2>2 DEF Order!Deliver
    <3> HIDE DEF p, g
    <3> QED BY <3>1, OrderDeliver
  <2>3. CASE UNCHANGED Order!vars
    <3>1. p' = p /\ g' = g BY <2>3 DEF Order!vars
    <3> HIDE DEF p, g
    <3> QED BY <3>1
  <2> QED BY <2>1, <2>2, <2>3 DEF Order!Next
<1>3. Inv => Order!TotalOrder
  BY DEF Ordered, Order!TotalOrder
<1> QED BY <1>1, <1>2, <1>3, PTL DEF Order!Spec

(* So no two clients of the chat server ever see two messages in opposite   *)
(* orders, with the race on clnt_sock and all failures.                     *)
THEOREM MessagesInOrder == Spec => []Order!TotalOrder
BY ChatImplementsBroadcast, BroadcastOrder, PTL DEF BroadcastSpec

-----------------------------------------------------------------------------
(* One handler per socket.                                                  *)

(* How the thread that main started for the descriptor f may stand to it.   *)
Attached(t, f) ==
  /\ t \in MeantFor(f)
  /\ pc[t] \in {"start", "failed"} \/ t \in Late \/ (Handling(t) /\ sock[t] = f)

OwnInv ==
  \A f \in Fds : IsOpen(f) =>
    (mpc # "accept" /\ clnt_sock = f) \/ \E t \in Threads : Attached(t, f)

(* While no thread was late, the descriptors of the threads that have not   *)
(* closed theirs, and main's, are open and all different.                   *)
Serves(t) == (pc[t] = "start" \/ Handling(t)) /\ meant[t].fd \in Fds

SocketInv ==
  /\ \A t \in Threads : Serves(t) => IsOpen(meant[t].fd)
  /\ \A t, u \in Threads : Serves(t) /\ Serves(u) /\ meant[t].fd = meant[u].fd => t = u
  /\ mpc # "accept" /\ clnt_sock \in Fds =>
       IsOpen(clnt_sock) /\ \A t \in Threads : Serves(t) => meant[t].fd # clnt_sock

HandlerInv == OwnInv /\ (Late = {} => SocketInv)

(* What a thread was started for does not change, nor what it has read.     *)
LEMMA ThreadStep ==
  ASSUME TypeOK, [Next]_vars, NEW t \in Threads, pc[t] # "none"
  PROVE  /\ meant'[t] = meant[t] /\ pc'[t] # "none"
         /\ pc[t] \in {"failed", "done"} => pc'[t] = pc[t]
         /\ Handling(t) => (Handling(t)' \/ pc'[t] = "done")
         /\ pc[t] # "start" => sock'[t] = sock[t]
         /\ pc[t] = "start" => (pc'[t] = "start" \/ pc'[t] = "read")
<1> USE DEF Handling
<1>t. /\ pc \in [Threads -> HandlerStates] /\ sock \in [Threads -> FdValues]
      /\ meant \in [Threads -> [fd : FdValues, client : Clients \cup {NoClient}]]
  BY DEF TypeOK
<1>1. ASSUME UNCHANGED <<pc, sock, meant>>
      PROVE  /\ meant'[t] = meant[t] /\ pc'[t] # "none"
             /\ pc[t] \in {"failed", "done"} => pc'[t] = pc[t]
             /\ Handling(t) => (Handling(t)' \/ pc'[t] = "done")
             /\ pc[t] # "start" => sock'[t] = sock[t]
             /\ pc[t] = "start" => (pc'[t] = "start" \/ pc'[t] = "read")
  BY <1>1
<1>2. ASSUME NEW c \in Clients, Client(c) \/ Accept(c) PROVE UNCHANGED <<pc, sock, meant>>
  BY <1>2 DEF Client, Connect, Type, Show, Quit, Accept, locals, history
<1>3. CASE AcceptError \/ MainLock \/ Register \/ UNCHANGED vars
  BY <1>1, <1>3 DEF AcceptError, MainLock, Register, vars, locals, history
<1>4. ASSUME NEW u \in Threads, Create(u) PROVE UNCHANGED sock /\ meant'[t] = meant[t] /\ pc'[t] = pc[t]
  BY <1>4, <1>t DEF Create
<1>5. ASSUME NEW u \in Threads, Start(u)
      PROVE  /\ meant' = meant
             /\ u = t => pc[t] = "start" /\ pc'[t] = "read"
             /\ u # t => pc'[t] = pc[t] /\ sock'[t] = sock[t]
  BY <1>5, <1>t DEF Start, Goto, history
<1>6. ASSUME NEW u \in Threads, Receiving(u) \/ Sending(u)
      PROVE  /\ meant' = meant /\ sock' = sock
             /\ u # t => pc'[t] = pc[t]
             /\ u = t => pc[t] \in {"read", "lock", "send"}
                         /\ pc'[t] \in {"read", "lock", "send", "leave"}
  BY <1>6, <1>t DEF Receiving, ReadData, ReadError, ReadEof, Sending, SendLock, SendOne,
     SendUnlock, Goto, history
<1>7. ASSUME NEW u \in Threads, Leaving(u)
      PROVE  /\ meant' = meant /\ sock' = sock
             /\ u # t => pc'[t] = pc[t]
             /\ u = t => pc[t] \in {"leave", "remove", "close"}
                         /\ pc'[t] \in {"remove", "close", "done"}
  BY <1>7, <1>t DEF Leaving, LeaveLock, RemoveSelf, Close, Goto, history
<1> QED
  BY <1>1, <1>2, <1>3, <1>4, <1>5, <1>6, <1>7 DEF Next, MainThread, Handler

(* A thread that was late stays in the set.                                 *)
LEMMA LateStays ==
  ASSUME TypeOK, [Next]_vars, NEW t \in Late PROVE t \in Late'
<1>1. t \in Threads /\ pc[t] \notin {"none", "start"} /\ sock[t] # meant[t].fd
      /\ (Handling(t) \/ pc[t] = "done")
  BY DEF Late, Handling
<1>2. /\ meant'[t] = meant[t] /\ sock'[t] = sock[t]
      /\ Handling(t)' \/ pc'[t] = "done"
  BY <1>1, ThreadStep
<1> QED BY <1>1, <1>2 DEF Late

(* Only accept and close change the descriptor table.                       *)
LEMMA FileChange ==
  ASSUME TypeOK, [Next]_vars
  PROVE  \/ file' = file
         \/ /\ mpc = "accept" /\ mpc' = "lock" /\ UNCHANGED <<pc, sock, meant>>
            /\ \E c \in Clients, f \in Fds :
                 /\ file[f] = NoClient /\ clnt_sock' = f
                 /\ file' = [file EXCEPT ![f] = c]
         \/ \E t \in Threads :
              /\ pc[t] = "close" /\ pc' = [pc EXCEPT ![t] = "done"]
              /\ IsOpen(sock[t]) /\ file' = [file EXCEPT ![sock[t]] = NoClient]
              /\ UNCHANGED <<mpc, clnt_sock, sock, meant>>
<1>1. ASSUME NEW c \in Clients, Accept(c)
      PROVE  /\ mpc = "accept" /\ mpc' = "lock" /\ UNCHANGED <<pc, sock, meant>>
             /\ \E f \in Fds :
                  /\ file[f] = NoClient /\ clnt_sock' = f
                  /\ file' = [file EXCEPT ![f] = c]
  BY <1>1 DEF Accept, MayAccept, LowestFree, locals, history
<1>2. ASSUME NEW t \in Threads, Close(t)
      PROVE  \/ file' = file
             \/ /\ pc[t] = "close" /\ pc' = [pc EXCEPT ![t] = "done"]
                /\ IsOpen(sock[t]) /\ file' = [file EXCEPT ![sock[t]] = NoClient]
                /\ UNCHANGED <<mpc, clnt_sock, sock, meant>>
  BY <1>2 DEF Close, Goto, mainv, history
<1>3. CASE ~(\E c \in Clients : Accept(c)) /\ ~(\E t \in Threads : Close(t))
  BY <1>3 DEF Next, MainThread, AcceptError, MainLock, Register, Create, Client,
     Connect, Type, Show, Quit, Handler, Start, Receiving, ReadData, ReadError, ReadEof,
     Sending, SendLock, SendOne, SendUnlock, Leaving, LeaveLock, RemoveSelf, vars
<1> QED BY <1>1, <1>2, <1>3

LEMMA AttachedStays ==
  ASSUME TypeOK, [Next]_vars, NEW t \in Threads, NEW f \in Fds, Attached(t, f),
         IsOpen(f), IsOpen(f)', file'[f] = file[f]
  PROVE  Attached(t, f)'
<1>1. /\ pc[t] # "none" /\ meant[t].fd = f
      /\ meant[t] = [fd |-> f, client |-> file[f]]
  BY DEF Attached, MeantFor
<1>2. t \in MeantFor(f)'
  BY <1>1, ThreadStep DEF MeantFor
<1>3. CASE pc[t] = "start"
  <2>1. pc'[t] = "start" \/ (pc'[t] = "read" /\ meant'[t].fd = f)
    BY <1>1, <1>3, ThreadStep
  <2> QED BY <1>2, <2>1 DEF Attached, Late, Handling
<1>4. CASE pc[t] = "failed"
  BY <1>2, <1>4, ThreadStep DEF Attached
<1>5. CASE t \in Late
  BY <1>2, <1>5, LateStays DEF Attached
<1>6. CASE Handling(t) /\ sock[t] = f
  <2>1. Handling(t)' \/ pc'[t] = "done"
    BY <1>1, <1>6, ThreadStep
  <2>2. sock'[t] = f
    BY <1>1, <1>6, ThreadStep DEF Handling
  <2>3. CASE pc'[t] = "done"
    <3>1. pc[t] # "done" /\ pc \in [Threads -> HandlerStates]
      BY <1>6 DEF Handling, TypeOK
    <3>2. Close(t)
      <4>1. ASSUME NEW u \in Threads, Receiving(u) \/ Sending(u) \/ LeaveLock(u)
                   \/ RemoveSelf(u) \/ Start(u) \/ Create(u)
            PROVE  pc'[t] # "done"
        BY <4>1, <3>1 DEF Receiving, ReadData, ReadError, ReadEof, Sending, SendLock,
           SendOne, SendUnlock, LeaveLock, RemoveSelf, Start, Create, Goto
      <4>2. ASSUME NEW c \in Clients, Client(c) \/ Accept(c) PROVE pc' = pc
        BY <4>2 DEF Client, Connect, Type, Show, Quit, Accept, locals
      <4>3. CASE AcceptError \/ MainLock \/ Register \/ UNCHANGED vars
        BY <4>3, <2>3, <3>1 DEF AcceptError, MainLock, Register, vars, locals
      <4>4. ASSUME NEW u \in Threads, Close(u) PROVE u = t
        BY <4>4, <2>3, <3>1 DEF Close, Goto
      <4> QED BY <2>3, <3>1, <4>1, <4>2, <4>3, <4>4 DEF Next, MainThread, Handler, Leaving
    <3>3. file' = [file EXCEPT ![f] = NoClient]
      BY <1>6, <3>2 DEF Close
    <3>4. ~IsOpen(f)'
      BY <3>3 DEF IsOpen, TypeOK
    <3> QED BY <3>4
  <2> QED BY <1>2, <2>1, <2>2, <2>3 DEF Attached
<1> QED BY <1>3, <1>4, <1>5, <1>6 DEF Attached

LEMMA OwnStep == TypeOK /\ OwnInv /\ [Next]_vars => OwnInv'
<1> SUFFICES ASSUME TypeOK, OwnInv, [Next]_vars, NEW f \in Fds, IsOpen(f)'
             PROVE  \/ mpc' # "accept" /\ clnt_sock' = f
                    \/ \E t \in Threads : Attached(t, f)'
  BY DEF OwnInv
<1>t. /\ file \in [Fds -> Clients \cup {NoClient}] /\ NoClient \notin Clients
      /\ pc \in [Threads -> HandlerStates]
      /\ meant \in [Threads -> [fd : FdValues, client : Clients \cup {NoClient}]]
  BY ChatAssumption DEF TypeOK
<1>1. CASE ~IsOpen(f)
  <2>1. file[f] = NoClient /\ file'[f] # NoClient
    BY <1>1 DEF IsOpen
  <2>2. mpc' = "lock" /\ clnt_sock' = f
    BY <2>1, <1>t, FileChange
  <2> QED BY <2>2
<1>2. CASE IsOpen(f)
  <2>1. file'[f] = file[f]
    BY <1>2, <1>t, FileChange DEF IsOpen
  <2>2. ASSUME NEW t \in Threads, Attached(t, f) PROVE Attached(t, f)'
    BY <1>2, <2>1, <2>2, AttachedStays
  <2>3. CASE mpc # "accept" /\ clnt_sock = f
    <3>1. ASSUME NEW t \in Threads, Create(t) PROVE Attached(t, f)'
      <4>1. pc'[t] \in {"start", "failed"} /\ meant'[t] = [fd |-> f, client |-> file[f]]
        BY <1>2, <1>t, <2>3, <3>1 DEF Create
      <4> QED BY <2>1, <4>1 DEF Attached, MeantFor
    <3>2. CASE ~\E t \in Threads : Create(t)
      BY <2>3, <3>2 DEF Next, MainThread, Accept, AcceptError, MayAccept, MainLock,
         Register, Client, Connect, Type, Show, Quit, Handler, Start, Receiving,
         ReadData, ReadError, ReadEof, Sending, SendLock, SendOne, SendUnlock, Leaving,
         LeaveLock, RemoveSelf, Close, vars, mainv
    <3> QED BY <3>1, <3>2
  <2> QED BY <1>2, <2>2, <2>3 DEF OwnInv
<1> QED BY <1>1, <1>2

LEMMA SocketStep ==
  ASSUME TypeOK, SocketInv, [Next]_vars, Late = {}, Late' = {} PROVE SocketInv'
<1> USE DEF SocketInv
<1>t. /\ file \in [Fds -> Clients \cup {NoClient}] /\ NoClient \notin Clients
      /\ pc \in [Threads -> HandlerStates] /\ sock \in [Threads -> FdValues]
      /\ meant \in [Threads -> [fd : FdValues, client : Clients \cup {NoClient}]]
  BY ChatAssumption DEF TypeOK
<1>1. ASSUME UNCHANGED <<file, clnt_sock>>, mpc' # "accept" => mpc # "accept",
             \A t \in Threads : Serves(t)' => Serves(t) /\ meant'[t] = meant[t]
      PROVE  SocketInv'
  BY <1>1 DEF IsOpen
<1>2. ASSUME NEW c \in Clients, Client(c) PROVE SocketInv'
  <2>1. UNCHANGED <<file, clnt_sock, mpc, pc, sock, meant>>
    BY <1>2 DEF Client, Connect, Type, Show, Quit, mainv, locals, history
  <2> QED BY <2>1, <1>1 DEF Serves, Handling
<1>3. ASSUME NEW c \in Clients, Accept(c) PROVE SocketInv'
  <2>1. PICK f \in Fds :
          file[f] = NoClient /\ clnt_sock' = f /\ file' = [file EXCEPT ![f] = c]
    BY <1>3 DEF Accept, LowestFree
  <2>2. UNCHANGED <<pc, sock, meant>>
    BY <1>3 DEF Accept, locals, history
  <2>3. \A g : IsOpen(g) => IsOpen(g)' /\ g # f
    BY <1>t, <2>1 DEF IsOpen
  <2>4. IsOpen(f)'
    BY <1>t, <2>1 DEF IsOpen
  <2>5. \A t \in Threads : Serves(t)' <=> Serves(t)
    BY <2>2 DEF Serves, Handling
  <2>6. \A t \in Threads : Serves(t) => meant[t].fd # f
    BY <2>3
  <2> QED BY <2>1, <2>2, <2>3, <2>4, <2>5, <2>6
<1>4. CASE AcceptError
  <2>1. UNCHANGED <<file, pc, sock, meant>> /\ clnt_sock' \notin Fds
    BY <1>4, ChatAssumption DEF AcceptError, locals, history
  <2>2. \A t \in Threads : Serves(t)' <=> Serves(t)
    BY <2>1 DEF Serves, Handling
  <2> QED BY <2>1, <2>2 DEF IsOpen
<1>5. CASE MainLock \/ Register \/ UNCHANGED vars
  <2>1. UNCHANGED <<file, clnt_sock, pc, sock, meant>> /\ (mpc' # "accept" => mpc # "accept")
    BY <1>5 DEF MainLock, Register, vars, mainv, locals, history
  <2> QED BY <2>1, <1>1 DEF Serves, Handling
<1>6. ASSUME NEW t \in Threads, Create(t) PROVE SocketInv'
  <2>1. /\ mpc = "create" /\ mpc' = "accept" /\ pc[t] = "none"
        /\ UNCHANGED <<file, clnt_sock>> /\ meant'[t].fd = clnt_sock
        /\ \A u \in Threads : u # t => pc'[u] = pc[u] /\ meant'[u] = meant[u]
    BY <1>6, <1>t DEF Create
  <2>2. \A u \in Threads : u # t /\ Serves(u)' => Serves(u)
    BY <2>1 DEF Serves, Handling
  <2>3. Serves(t)' => clnt_sock \in Fds
    BY <2>1 DEF Serves
  <2>4. \A g : IsOpen(g)' <=> IsOpen(g)
    BY <2>1 DEF IsOpen
  <2>5. clnt_sock \in Fds => IsOpen(clnt_sock)
          /\ \A u \in Threads : Serves(u) => meant[u].fd # clnt_sock
    BY <2>1
  <2>6. \A u \in Threads : Serves(u)' => IsOpen(meant[u].fd)'
    <3> SUFFICES ASSUME NEW u \in Threads, Serves(u)' PROVE IsOpen(meant[u].fd)'
      OBVIOUS
    <3>1. CASE u = t BY <2>1, <2>3, <2>5, <3>1 DEF IsOpen
    <3>2. CASE u # t
      <4>1. Serves(u) /\ IsOpen(meant[u].fd) /\ meant'[u] = meant[u]
        BY <2>1, <2>2, <3>2
      <4> QED BY <2>1, <4>1 DEF IsOpen
    <3> QED BY <3>1, <3>2
  <2>7. ASSUME NEW u \in Threads, NEW v \in Threads, Serves(u)', Serves(v)',
               meant'[u].fd = meant'[v].fd
        PROVE  u = v
    <3>1. CASE u # t /\ v # t BY <2>1, <2>2, <2>7, <3>1
    <3>2. CASE u = t /\ v # t BY <2>1, <2>2, <2>3, <2>5, <2>7, <3>2
    <3>3. CASE u # t /\ v = t BY <2>1, <2>2, <2>3, <2>5, <2>7, <3>3
    <3> QED BY <3>1, <3>2, <3>3
  <2> QED BY <2>1, <2>6, <2>7
<1>7. ASSUME NEW t \in Threads, Start(t) \/ Receiving(t) \/ Sending(t) \/ LeaveLock(t)
             \/ RemoveSelf(t)
      PROVE  SocketInv'
  <2>1. UNCHANGED <<file, clnt_sock, mpc, meant>>
        /\ \A u \in Threads : (pc'[u] = "start" \/ Handling(u)') => (pc[u] = "start" \/ Handling(u))
    BY <1>7, <1>t DEF Start, Receiving, ReadData, ReadError, ReadEof, Sending, SendLock,
       SendOne, SendUnlock, LeaveLock, RemoveSelf, Goto, mainv, history, Handling
  <2> QED BY <2>1, <1>1 DEF Serves
<1>8. ASSUME NEW t \in Threads, Close(t) PROVE SocketInv'
  <2>1. /\ pc[t] = "close" /\ pc' = [pc EXCEPT ![t] = "done"]
        /\ UNCHANGED <<mpc, clnt_sock, sock, meant>>
        /\ file' = IF IsOpen(sock[t]) THEN [file EXCEPT ![sock[t]] = NoClient] ELSE file
    BY <1>8 DEF Close, Goto, mainv, history
  <2>2. \A u \in Threads : Serves(u)' => Serves(u) /\ u # t
    BY <1>t, <2>1 DEF Serves, Handling
  <2>3. sock[t] = meant[t].fd
    BY <2>1 DEF Late, Handling
  <2>4. \A g : IsOpen(g) /\ g # sock[t] => IsOpen(g)'
    BY <1>t, <2>1 DEF IsOpen
  <2>5. IsOpen(sock[t]) => Serves(t)
    BY <2>1, <2>3 DEF Serves, Handling, IsOpen
  <2>6. \A u \in Threads : Serves(u)' => IsOpen(meant[u].fd)'
    <3> SUFFICES ASSUME NEW u \in Threads, Serves(u)' PROVE IsOpen(meant[u].fd)'
      OBVIOUS
    <3>1. Serves(u) /\ u # t /\ IsOpen(meant[u].fd) /\ meant'[u] = meant[u]
      BY <2>1, <2>2
    <3>2. meant[u].fd # sock[t]
      BY <2>3, <2>5, <3>1
    <3> QED BY <1>t, <2>1, <3>1, <3>2 DEF IsOpen
  <2>7. mpc' # "accept" /\ clnt_sock' \in Fds => IsOpen(clnt_sock)'
    <3> SUFFICES ASSUME mpc # "accept", clnt_sock \in Fds PROVE IsOpen(clnt_sock)'
      BY <2>1
    <3>1. IsOpen(clnt_sock) /\ clnt_sock # sock[t]
      BY <2>3, <2>5
    <3>2. PICK g : g = clnt_sock
      OBVIOUS
    <3> QED BY <2>1, <2>4, <3>1, <3>2
  <2> QED BY <2>1, <2>2, <2>6, <2>7
<1> QED
  BY <1>2, <1>3, <1>4, <1>5, <1>6, <1>7, <1>8 DEF Next, MainThread, Handler, Leaving

(* An open descriptor that main has passed on is served by its own thread,  *)
(* unless that thread was late or could not be created; two threads serve   *)
(* one descriptor only when some thread was late.                           *)
THEOREM OneHandler == Spec => []OneHandlerPerSocket
<1>1. Init => HandlerInv
  <2> SUFFICES ASSUME Init PROVE OwnInv /\ SocketInv
    BY DEF HandlerInv
  <2>1. OwnInv
    BY ChatAssumption DEF Init, OwnInv, IsOpen
  <2>2. SocketInv
    BY DEF Init, SocketInv, Serves, Handling
  <2> QED BY <2>1, <2>2
<1>2. TypeOK /\ HandlerInv /\ [Next]_vars => HandlerInv'
  <2> SUFFICES ASSUME TypeOK, HandlerInv, [Next]_vars PROVE OwnInv' /\ (Late' = {} => SocketInv')
    BY DEF HandlerInv
  <2>1. OwnInv'
    BY OwnStep DEF HandlerInv
  <2>2. ASSUME Late' = {} PROVE SocketInv'
    <3>1. Late = {}
      BY <2>2, LateStays
    <3> QED BY <2>2, <3>1, SocketStep DEF HandlerInv
  <2> QED BY <2>1, <2>2
<1>3. HandlerInv => OneHandlerPerSocket
  <2> SUFFICES ASSUME HandlerInv, NEW f \in Fds, IsOpen(f)
               PROVE  /\ \/ mpc # "accept" /\ clnt_sock = f
                         \/ \E t \in MeantFor(f) :
                              \/ pc[t] \in {"start", "failed"}
                              \/ t \in Late
                              \/ Handling(t) /\ sock[t] = f
                      /\ \A t, u \in Threads :
                           Handling(t) /\ Handling(u) /\ sock[t] = f /\ sock[u] = f
                             /\ t # u => Late # {}
    BY DEF OneHandlerPerSocket
  <2>1. \/ mpc # "accept" /\ clnt_sock = f
        \/ \E t \in MeantFor(f) :
             pc[t] \in {"start", "failed"} \/ t \in Late \/ (Handling(t) /\ sock[t] = f)
    BY DEF HandlerInv, OwnInv, Attached
  <2>2. ASSUME NEW t \in Threads, NEW u \in Threads, Handling(t), Handling(u),
               sock[t] = f, sock[u] = f, Late = {}
        PROVE  t = u
    <3>1. meant[t].fd = f /\ meant[u].fd = f
      BY <2>2 DEF Late
    <3> QED BY <2>2, <3>1 DEF HandlerInv, SocketInv, Serves
  <2> QED BY <2>1, <2>2
<1> QED BY <1>1, <1>2, <1>3, TypeCorrect, PTL DEF Spec

-----------------------------------------------------------------------------
(* Every client's text.  To StreamIntact comes that what was broadcast and  *)
(* what is in a thread's hand had been read.                                *)

AllRead(m) ==
  m.from \in Clients => \A j \in DOMAIN m.data : m.data[j] \in 1..WasRead(m.from)

UnreadInv ==
  \A c \in Clients : WasRead(c) \in Nat /\ InTransit(conn[c], WasRead(c), <<>>)
OnceInv == \A c \in Clients : \A x \in 1..WasRead(c) : Once(c, x)
ReadInv ==
  /\ \A n \in DOMAIN log : AllRead(log[n])
  /\ \A t \in Threads : pc[t] = "lock" => AllRead(msg[t])
LogInv ==
  \A n \in DOMAIN log :
    /\ Sorted(log[n])
    /\ \A m \in DOMAIN log : log[m].by = log[n].by /\ m < n => Precedes(log[m], log[n])
HandInv ==
  \A t \in Threads : pc[t] = "lock" =>
    /\ Sorted(msg[t])
    /\ \A n \in DOMAIN log : log[n].by = t => Precedes(log[n], msg[t])
StreamInv == UnreadInv /\ OnceInv /\ ReadInv /\ LogInv /\ HandInv

(* Unread text stays where it is while more is typed.                       *)
LEMMA UnreadFrame ==
  ASSUME TypeOK, UnreadInv, NEW c \in Clients,
         \/ conn'[c].in = conn[c].in /\ conn'[c].sent = conn[c].sent
         \/ conn'[c] = Send(conn[c])
  PROVE  WasRead(c)' = WasRead(c) /\ InTransit(conn'[c], WasRead(c), <<>>)
<1>t. conn[c] \in ConnType
  BY DEF TypeOK
<1>1. WasRead(c) \in Nat /\ InTransit(conn[c], WasRead(c), <<>>)
  BY DEF UnreadInv
<1>2. CASE conn'[c].in = conn[c].in /\ conn'[c].sent = conn[c].sent
  BY <1>1, <1>2, TransitFrame DEF WasRead
<1>3. CASE conn'[c] = Send(conn[c])
  <2>0. PICK k \in ConnType, b \in Nat : k = conn[c] /\ b = WasRead(c)
    BY <1>1, <1>t
  <2>1. InTransit(conn'[c], b, <<>>)
    <3>1. <<>> \in Seq(Nat) /\ InTransit(k, b, <<>>)
      BY <1>1, <2>0
    <3>2. InTransit(Send(k), b, <<>>)
      BY <3>1, TransitSend
    <3> QED BY <1>3, <2>0, <3>2
  <2>2. /\ k.in \in Seq(Nat) /\ k.sent \in Nat
        /\ Send(k).sent = k.sent + 1 /\ Send(k).in = Append(k.in, k.sent + 1)
    BY DEF Send, ConnType
  <2>3. Len(Send(k).in) = Len(k.in) + 1 /\ Len(k.in) \in Nat
    BY <2>2
  <2>4. Send(k).sent - Len(Send(k).in) = k.sent - Len(k.in)
    BY <2>2, <2>3
  <2>5. WasRead(c)' = WasRead(c)
    BY <1>3, <2>0, <2>4 DEF WasRead
  <2> QED BY <2>0, <2>1, <2>5
<1> QED BY <1>2, <1>3

LEMMA UnreadStays ==
  ASSUME TypeOK, UnreadInv,
         \A c \in Clients : \/ conn'[c].in = conn[c].in /\ conn'[c].sent = conn[c].sent
                            \/ conn'[c] = Send(conn[c])
  PROVE  UnreadInv' /\ \A c \in Clients : WasRead(c)' = WasRead(c)
<1>1. ASSUME NEW c \in Clients
      PROVE  WasRead(c)' = WasRead(c) /\ InTransit(conn'[c], WasRead(c), <<>>)
             /\ WasRead(c) \in Nat
  BY UnreadFrame DEF UnreadInv
<1> QED BY <1>1 DEF UnreadInv

(* A step that neither reads text nor broadcasts.                           *)
LEMMA StreamFrame ==
  ASSUME TypeOK, StreamInv, log' = log,
         \A c \in Clients : \/ conn'[c].in = conn[c].in /\ conn'[c].sent = conn[c].sent
                            \/ conn'[c] = Send(conn[c]),
         \A t \in Threads : pc[t] = "lock" => pc'[t] = "lock" /\ msg'[t] = msg[t],
         \A t \in Threads : pc'[t] = "lock" =>
           (pc[t] = "lock" /\ msg'[t] = msg[t]) \/ msg'[t] = BadRead
  PROVE  StreamInv'
<1>1. UnreadInv' /\ \A c \in Clients : WasRead(c)' = WasRead(c)
  BY UnreadStays DEF StreamInv
<1>b. BadRead.from \notin Clients /\ BadRead.data = <<>> /\ DOMAIN BadRead.data = {}
  BY ChatAssumption DEF BadRead
<1>2. ASSUME NEW m, AllRead(m) PROVE AllRead(m)'
  BY <1>1, <1>2 DEF AllRead
<1>3. AllRead(BadRead)' /\ Sorted(BadRead) /\ \A m : Precedes(m, BadRead)
  BY <1>b DEF AllRead, Sorted, Precedes
<1>4. ReadInv'
  BY <1>2, <1>3 DEF ReadInv, StreamInv
<1>5. LogInv'
  BY DEF LogInv, StreamInv
<1>6. HandInv'
  BY <1>3 DEF HandInv, StreamInv
<1>7. ASSUME NEW c \in Clients, NEW x, Once(c, x) PROVE Once(c, x)'
  <2>1. InLog(c, x)' = InLog(c, x)
    BY DEF InLog
  <2>2. ~Carries(BadRead, c, x)
    BY <1>b DEF Carries
  <2>3. InHand(c, x)' = InHand(c, x)
    BY <2>2 DEF InHand
  <2> QED BY <1>7, <2>1, <2>3 DEF Once
<1>8. OnceInv'
  BY <1>1, <1>7 DEF OnceInv, StreamInv
<1> QED BY <1>1, <1>4, <1>5, <1>6, <1>8 DEF StreamInv

(* A read moves the next pieces of one client into the hand of one thread.  *)
LEMMA StreamReadData ==
  ASSUME TypeOK, StreamInv, NEW t \in Threads, ReadData(t) PROVE StreamInv'
<1>t. /\ conn \in [Clients -> ConnType] /\ pc \in [Threads -> HandlerStates]
      /\ msg \in [Threads -> Message] /\ log \in Seq(Entry)
  BY DEF TypeOK
<1>d. PICK d \in Clients : d = file[sock[t]]
  BY DEF ReadData, IsOpen, TypeOK
<1>1. pc[t] = "read" /\ pc' = [pc EXCEPT ![t] = "lock"] /\ log' = log
  BY DEF ReadData, Goto, history
<1>2. PICK n \in 1..Len(conn[d].in) :
        /\ msg' = [msg EXCEPT ![t] = [from |-> d, data |-> Taken(conn[d], n)]]
        /\ conn' = [conn EXCEPT ![d] = Left(@, n)]
  BY <1>d DEF ReadData
<1>a. PICK k \in ConnType, b \in Nat : k = conn[d] /\ b = WasRead(d) /\ InTransit(k, b, <<>>)
  BY <1>t DEF StreamInv, UnreadInv
<1>3. PICK h \in Seq(Nat) : h = Taken(k, n)
  BY <1>2, <1>a, ReadClosure
<1>4. n \in Nat /\ n \in 1..Len(k.in) /\ k.in \in Seq(Nat) /\ k.sent \in Nat
  BY <1>2, <1>a DEF ConnType
<1>5. /\ Len(h) = n /\ DOMAIN h = 1..n
      /\ Left(k, n) \in ConnType /\ Left(k, n).sent = k.sent
      /\ Len(Left(k, n).in) = Len(k.in) - n /\ Len(k.in) \in Nat
  <2>1. Len(h) = n /\ Len(Left(k, n).in) = Len(k.in) - n
    BY <1>3, <1>4, ReadSplits
  <2>2. Left(k, n) \in ConnType /\ Left(k, n).sent = k.sent
    BY <1>4, ReadClosure, SentFrame
  <2> QED BY <1>3, <1>4, <2>1, <2>2
<1>6. InTransit(Left(k, n), b, h)
  BY <1>a, <1>3, <1>4, TransitRead
<1>7. InTransit(Left(k, n), b + n, <<>>)
  BY <1>5, <1>6, TransitPass
<1>8. \A j \in 1..n : h[j] = b + j
  BY <1>5, <1>6 DEF InTransit
<1>9. conn'[d] = Left(k, n) /\ \A c \in Clients : c # d => conn'[c] = conn[c]
  BY <1>2, <1>a, <1>t
<1>10. WasRead(d) = b /\ WasRead(d)' = b + n /\ b = k.sent - Len(k.in)
  <2>1. b = k.sent - Len(k.in)
    BY <1>a DEF WasRead
  <2>2. WasRead(d)' = k.sent - (Len(k.in) - n)
    BY <1>5, <1>9 DEF WasRead
  <2> QED BY SMTT(20), <1>a, <1>4, <1>5, <2>1, <2>2
<1>11. \A c \in Clients : c # d => WasRead(c)' = WasRead(c)
  BY <1>9 DEF WasRead
<1>12. UnreadInv'
  <2> SUFFICES ASSUME NEW c \in Clients
               PROVE  WasRead(c)' \in Nat /\ InTransit(conn'[c], WasRead(c)', <<>>)
    BY DEF UnreadInv
  <2>1. CASE c = d
    BY <1>4, <1>7, <1>9, <1>10, <2>1
  <2>2. CASE c # d
    BY <1>9, <1>11, <2>2 DEF StreamInv, UnreadInv
  <2> QED BY <2>1, <2>2
<1> DEFINE m == [from |-> d, data |-> h]
<1>13. /\ m.from = d /\ m.data = h /\ msg'[t] = m /\ pc'[t] = "lock"
       /\ \A u \in Threads : u # t => pc'[u] = pc[u] /\ msg'[u] = msg[u]
  BY <1>1, <1>2, <1>a, <1>3, <1>t
<1> HIDE DEF m
<1>14. ASSUME NEW q, AllRead(q) PROVE AllRead(q)'
  <2> SUFFICES ASSUME q.from \in Clients, NEW j \in DOMAIN q.data
               PROVE  q.data[j] \in 1..WasRead(q.from)'
    BY DEF AllRead
  <2>1. q.data[j] \in 1..WasRead(q.from)
    BY <1>14 DEF AllRead
  <2>2. CASE q.from = d
    <3>1. q.data[j] \in 1..b /\ \A x \in 1..b : x \in 1..b + n
      BY <1>4, <1>10, <2>1, <2>2
    <3> QED BY <1>10, <2>2, <3>1
  <2>3. CASE q.from # d
    BY <1>11, <2>1, <2>3
  <2> QED BY <2>2, <2>3
<1>15. AllRead(m)'
  <2>1. \A j \in 1..n : h[j] \in 1..b + n
    BY <1>4, <1>8
  <2> QED BY <1>5, <1>10, <1>13, <2>1 DEF AllRead
<1>16. ReadInv'
  BY <1>1, <1>13, <1>14, <1>15 DEF ReadInv, StreamInv
<1>17. LogInv'
  BY <1>1 DEF LogInv, StreamInv
<1>18. Sorted(m)
  <2>1. \A j, l \in 1..n : j < l => h[j] < h[l]
    BY <1>4, <1>8
  <2> QED BY <1>5, <1>13, <2>1 DEF Sorted
<1>19. ASSUME NEW q, AllRead(q) PROVE Precedes(q, m)
  <2> SUFFICES ASSUME q.from = d, NEW j \in DOMAIN q.data, NEW l \in 1..n
               PROVE  q.data[j] < h[l]
    BY <1>5, <1>13 DEF Precedes
  <2>1. q.data[j] \in 1..b
    BY <1>10, <1>19 DEF AllRead
  <2>2. h[l] = b + l
    BY <1>8
  <2> QED BY <1>4, <2>1, <2>2
<1>20. HandInv'
  BY <1>1, <1>13, <1>18, <1>19 DEF HandInv, ReadInv, StreamInv
<1>21. ASSUME NEW c \in Clients, NEW x, Once(c, x), c # d \/ x \in 1..b PROVE Once(c, x)'
  <2>1. InLog(c, x)' = InLog(c, x)
    BY <1>1 DEF InLog
  <2>2. ~Carries(m, c, x)
    BY <1>4, <1>5, <1>8, <1>13, <1>21 DEF Carries
  <2>3. InHand(c, x)' = InHand(c, x)
    BY <1>1, <1>13, <2>2 DEF InHand
  <2> QED BY <1>1, <1>21, <2>1, <2>3 DEF Once
<1>22. ASSUME NEW x \in 1..b + n, x \notin 1..b PROVE Once(d, x)'
  <2>1. x - b \in 1..n /\ b + (x - b) = x
    BY <1>4, <1>22
  <2>2. Carries(m, d, x)
    BY <1>5, <1>8, <1>13, <2>1 DEF Carries
  <2>3. ASSUME NEW q, AllRead(q) PROVE ~Carries(q, d, x)
    BY <1>10, <1>22, <2>3 DEF AllRead, Carries
  <2>4. InLog(d, x)' = {}
    BY <1>1, <2>3 DEF InLog, ReadInv, StreamInv
  <2>5. InHand(d, x)' = {t}
    BY <1>1, <1>13, <2>2, <2>3 DEF InHand, ReadInv, StreamInv
  <2> QED BY <2>4, <2>5 DEF Once
<1>23. OnceInv'
  <2> SUFFICES ASSUME NEW c \in Clients, NEW x \in 1..WasRead(c)' PROVE Once(c, x)'
    BY DEF OnceInv
  <2>1. CASE c # d
    <3>1. Once(c, x)
      BY <1>11, <2>1 DEF OnceInv, StreamInv
    <3> QED BY <1>21, <2>1, <3>1
  <2>2. CASE c = d /\ x \in 1..b
    <3>1. Once(c, x)
      BY <1>10, <2>2 DEF OnceInv, StreamInv
    <3> QED BY <1>21, <2>2, <3>1
  <2>3. CASE c = d /\ x \notin 1..b
    BY <1>10, <1>22, <2>3
  <2> QED BY <2>1, <2>2, <2>3
<1> QED BY <1>12, <1>16, <1>17, <1>20, <1>23 DEF StreamInv

(* A broadcast moves what is in one thread's hand to the end of the log.    *)
LEMMA StreamPublish ==
  ASSUME TypeOK, StreamInv, NEW t \in Threads, SendLock(t) PROVE StreamInv'
<1>t. /\ pc \in [Threads -> HandlerStates] /\ msg \in [Threads -> Message]
      /\ log \in Seq(Entry)
  BY DEF TypeOK
<1>1. /\ pc[t] = "lock" /\ pc' = [pc EXCEPT ![t] = "send"]
      /\ UNCHANGED <<msg, conn>>
      /\ log' = IF msg[t] = BadRead THEN log ELSE Append(log, Signed(t))
  BY DEF SendLock, Goto, net
<1>2. \A c \in Clients : WasRead(c)' = WasRead(c)
  BY <1>1 DEF WasRead
<1>3. UnreadInv'
  BY <1>1, <1>2 DEF UnreadInv, StreamInv
<1>4. \A u \in Threads : pc'[u] = "lock" => u # t /\ pc[u] = "lock"
  BY <1>1, <1>t
<1>5. ASSUME NEW q, AllRead(q) PROVE AllRead(q)'
  BY <1>2, <1>5 DEF AllRead
<1>6. CASE msg[t] = BadRead
  <2>1. \A c \in Clients : \A x : ~Carries(msg[t], c, x)
    BY <1>6, ChatAssumption DEF Carries, BadRead
  <2>2. ASSUME NEW c \in Clients, NEW x, Once(c, x) PROVE Once(c, x)'
    <3>1. InLog(c, x)' = InLog(c, x)
      BY <1>1, <1>6 DEF InLog
    <3>2. InHand(c, x)' = InHand(c, x)
      BY <1>1, <1>t, <2>1 DEF InHand
    <3> QED BY <1>1, <1>6, <2>2, <3>1, <3>2 DEF Once
  <2>3. OnceInv'
    BY <1>2, <2>2 DEF OnceInv, StreamInv
  <2>4. ReadInv' /\ LogInv' /\ HandInv'
    BY <1>1, <1>4, <1>5, <1>6 DEF ReadInv, LogInv, HandInv, StreamInv
  <2> QED BY <1>3, <2>3, <2>4 DEF StreamInv
<1>7. CASE msg[t] # BadRead
  <2>1. PICK e \in Entry : e = Signed(t)
    BY SignedType
  <2>2. e.by = t /\ e.from = msg[t].from /\ e.data = msg[t].data
    BY <2>1 DEF Signed
  <2>3. PICK l \in Nat : l = Len(log)
    BY <1>t
  <2>4. /\ log' = Append(log, e) /\ DOMAIN log = 1..l /\ DOMAIN log' = 1..l + 1
        /\ log'[l + 1] = e /\ \A n \in 1..l : log'[n] = log[n]
    BY <1>1, <1>7, <1>t, <2>1, <2>3
  <2>5. \A n \in 1..l + 1 : n \in 1..l \/ n = l + 1
    BY <2>3
  <2>6. AllRead(e) /\ Sorted(e) /\ \A c, x : Carries(e, c, x) <=> Carries(msg[t], c, x)
    <3>1. AllRead(msg[t]) /\ Sorted(msg[t])
      BY <1>1 DEF StreamInv, ReadInv, HandInv
    <3> QED BY <2>2, <3>1 DEF AllRead, Sorted, Carries
  <2>7. \A n \in 1..l : log[n].by = t => Precedes(log[n], e)
    <3>1. \A n \in 1..l : log[n].by = t => Precedes(log[n], msg[t])
      BY <1>1, <2>4 DEF StreamInv, HandInv
    <3> QED BY <2>2, <3>1 DEF Precedes
  <2>8. ReadInv'
    BY <1>1, <1>4, <1>5, <2>4, <2>5, <2>6 DEF ReadInv, StreamInv
  <2>9. LogInv'
    <3> SUFFICES ASSUME NEW n \in 1..l + 1
                 PROVE  /\ Sorted(log'[n])
                        /\ \A q \in 1..l + 1 : log'[q].by = log'[n].by /\ q < n
                              => Precedes(log'[q], log'[n])
      BY <2>4 DEF LogInv
    <3>1. CASE n \in 1..l
      <4>1. \A q \in 1..l + 1 : q < n => q \in 1..l
        BY <2>3, <3>1
      <4> QED BY <2>4, <3>1, <4>1 DEF LogInv, StreamInv
    <3>2. CASE n = l + 1
      <4>1. \A q \in 1..l + 1 : q < n => q \in 1..l
        BY <2>3, <3>2
      <4> QED BY <2>2, <2>4, <2>6, <2>7, <3>2, <4>1
    <3> QED BY <2>5, <3>1, <3>2
  <2>10. HandInv'
    <3> SUFFICES ASSUME NEW u \in Threads, pc'[u] = "lock"
                 PROVE  /\ Sorted(msg'[u])
                        /\ \A n \in 1..l + 1 : log'[n].by = u => Precedes(log'[n], msg'[u])
      BY <2>4 DEF HandInv
    <3>1. u # t /\ pc[u] = "lock" /\ msg'[u] = msg[u]
      BY <1>1, <1>4
    <3>2. \A n \in 1..l + 1 : log'[n].by = u => n \in 1..l
      BY <2>2, <2>4, <2>5, <3>1
    <3> QED BY <2>4, <3>1, <3>2 DEF HandInv, StreamInv
  <2>11. ASSUME NEW c \in Clients, NEW x, Once(c, x) PROVE Once(c, x)'
    <3>1. CASE Carries(msg[t], c, x)
      <4>1. t \in InHand(c, x)
        BY <1>1, <3>1 DEF InHand
      <4>2. InLog(c, x) = {} /\ InHand(c, x) = {t}
        BY <2>11, <4>1 DEF Once
      <4>3. InLog(c, x)' = {l + 1}
        <5>1. \A n \in 1..l : ~Carries(log[n], c, x)
          BY <2>4, <4>2 DEF InLog
        <5>2. l + 1 \in 1..l + 1
          BY <2>3
        <5> QED BY <2>4, <2>5, <2>6, <3>1, <5>1, <5>2 DEF InLog
      <4>4. InHand(c, x)' = {}
        BY <1>1, <1>4, <4>2 DEF InHand
      <4>5. l + 1 \in DOMAIN log'
        BY <2>3, <2>4
      <4> QED BY <4>3, <4>4, <4>5 DEF Once
    <3>2. CASE ~Carries(msg[t], c, x)
      <4>1. InLog(c, x)' = InLog(c, x)
        <5>1. \A n \in 1..l : n \in 1..l + 1
          BY <2>3
        <5> QED BY <2>4, <2>5, <2>6, <3>2, <5>1 DEF InLog
      <4>2. InHand(c, x)' = InHand(c, x)
        BY <1>1, <1>t, <3>2 DEF InHand
      <4>3. DOMAIN log \subseteq DOMAIN log'
        BY <2>3, <2>4
      <4> QED BY <2>11, <4>1, <4>2, <4>3 DEF Once
    <3> QED BY <3>1, <3>2
  <2>12. OnceInv'
    BY <1>2, <2>11 DEF OnceInv, StreamInv
  <2> QED BY <1>3, <2>8, <2>9, <2>10, <2>12 DEF StreamInv
<1> QED BY <1>6, <1>7

LEMMA StreamStep == TypeOK /\ StreamInv /\ [Next]_vars => StreamInv'
<1> SUFFICES ASSUME TypeOK, StreamInv, [Next]_vars PROVE StreamInv'
  OBVIOUS
<1>t. /\ conn \in [Clients -> ConnType] /\ pc \in [Threads -> HandlerStates]
      /\ file \in [Fds -> Clients \cup {NoClient}] /\ msg \in [Threads -> Message]
  BY DEF TypeOK
<1>f. \A f : IsOpen(f) => file[f] \in Clients /\ conn[file[f]] \in ConnType
  BY <1>t DEF IsOpen
<1>1. ASSUME NEW d \in Clients, Client(d) PROVE StreamInv'
  <2>1. UNCHANGED <<pc, msg, log>>
    BY <1>1 DEF Client, Connect, Type, Show, Quit, locals, history
  <2>2. PICK k \in {Dial(conn[d]), Send(conn[d]), Receive(conn[d]), HangUp(conn[d])} :
          conn' = [conn EXCEPT ![d] = k]
    BY <1>1 DEF Client, Connect, Type, Show, Quit
  <2>3. k = Send(conn[d]) \/ (k.in = conn[d].in /\ k.sent = conn[d].sent)
    BY <2>2, <1>t, InFrame, SentFrame
  <2>4. \A c \in Clients :
          \/ conn'[c].in = conn[c].in /\ conn'[c].sent = conn[c].sent
          \/ conn'[c] = Send(conn[c])
    BY <2>2, <2>3, <1>t
  <2> QED BY <2>1, <2>4, StreamFrame
<1>2. CASE MainThread \/ UNCHANGED vars
  <2>1. UNCHANGED <<conn, msg, log>>
    BY <1>2 DEF MainThread, Accept, AcceptError, MainLock, Register, Create, net, locals,
       history, vars
  <2>2. \A t \in Threads : pc'[t] = "lock" <=> pc[t] = "lock"
    BY <1>2, <1>t DEF MainThread, Accept, AcceptError, MainLock, Register, Create, locals,
       vars
  <2> QED BY <2>1, <2>2, StreamFrame
<1>3. ASSUME NEW t \in Threads,
             Start(t) \/ ReadEof(t) \/ SendUnlock(t) \/ Leaving(t)
      PROVE  StreamInv'
  <2>1. UNCHANGED <<conn, msg, log>>
        /\ \A u \in Threads : pc'[u] = "lock" <=> pc[u] = "lock"
    BY <1>3, <1>t DEF Start, ReadEof, SendUnlock, Leaving, LeaveLock, RemoveSelf, Close,
       Goto, net, history
  <2> QED BY <2>1, StreamFrame
<1>4. ASSUME NEW t \in Threads, ReadError(t) PROVE StreamInv'
  <2>1. log' = log /\ pc[t] = "read" /\ msg'[t] = BadRead
        /\ \A u \in Threads : u # t => pc'[u] = pc[u] /\ msg'[u] = msg[u]
    BY <1>4, <1>t DEF ReadError, Goto, history
  <2>2. \A c \in Clients : conn'[c].in = conn[c].in /\ conn'[c].sent = conn[c].sent
    BY <1>4, <1>t, <1>f, InFrame, SentFrame DEF ReadError
  <2>3. \A u \in Threads : pc[u] = "lock" => u # t
    BY <2>1
  <2>4. \A u \in Threads : pc[u] = "lock" => pc'[u] = "lock" /\ msg'[u] = msg[u]
    BY <2>1, <2>3
  <2>5. \A u \in Threads : pc'[u] = "lock" =>
          (pc[u] = "lock" /\ msg'[u] = msg[u]) \/ msg'[u] = BadRead
    BY <2>1
  <2> QED BY <2>1, <2>2, <2>4, <2>5, StreamFrame
<1>5. ASSUME NEW t \in Threads, SendOne(t) PROVE StreamInv'
  <2>1. UNCHANGED <<msg, log>> /\ \A u \in Threads : pc'[u] = pc[u]
    BY <1>5, <1>t DEF SendOne, Goto, history
  <2>2. \A c \in Clients : conn'[c].in = conn[c].in /\ conn'[c].sent = conn[c].sent
    BY <1>5, <1>t, <1>f, InFrame DEF SendOne
  <2> QED BY <2>1, <2>2, StreamFrame
<1> QED
  BY <1>1, <1>2, <1>3, <1>4, <1>5, StreamReadData, StreamPublish
  DEF Next, Handler, Receiving, Sending

(* Nothing a client types is lost, doubled or reordered on its way to the   *)
(* broadcast, however read cuts the stream and however many threads read it.*)
THEOREM StreamsStayWhole == Spec => []StreamIntact
<1>1. Init => StreamInv
  <2> SUFFICES ASSUME Init PROVE StreamInv
    OBVIOUS
  <2>1. /\ \A c \in Clients : conn[c] = NoConn
        /\ log = <<>> /\ DOMAIN log = {} /\ \A t \in Threads : pc[t] # "lock"
    BY DEF Init
  <2>2. NoConn.in = <<>> /\ NoConn.sent = 0 /\ Len(NoConn.in) = 0
    BY DEF NoConn
  <2>3. ASSUME NEW c \in Clients
        PROVE  WasRead(c) = 0 /\ InTransit(conn[c], 0, <<>>)
    BY <2>1, <2>2 DEF WasRead, InTransit
  <2>4. UnreadInv /\ OnceInv
    BY <2>3 DEF UnreadInv, OnceInv
  <2>5. ReadInv /\ LogInv /\ HandInv
    BY <2>1 DEF ReadInv, LogInv, HandInv
  <2> QED BY <2>4, <2>5 DEF StreamInv
<1>2. TypeOK /\ StreamInv /\ [Next]_vars => StreamInv'
  BY StreamStep
<1>3. StreamInv => StreamIntact
  BY DEF StreamInv, UnreadInv, OnceInv, LogInv, HandInv, StreamIntact
<1> QED BY <1>1, <1>2, <1>3, TypeCorrect, PTL DEF Spec
==============================================================================

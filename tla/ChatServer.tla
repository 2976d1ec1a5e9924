----------------------------- MODULE ChatServer -----------------------------
(***************************************************************************)
(* ch18/chat_server.cpp: main accepts connections and starts one detached  *)
(* thread per connection; every thread reads from its socket and writes    *)
(* what it read to all sockets of the array clnt_socks, under one mutex.   *)
(* ch18/chat_client.cpp is the peer: one thread types, one prints.         *)
(*                                                                         *)
(* A step ends where another thread can observe the difference: at a       *)
(* system call, at lock and unlock, and at the two accesses to main's      *)
(* stack variable clnt_sock, whose address every new thread is given.      *)
(***************************************************************************)
EXTENDS TcpConn, FiniteSets

CONSTANTS
  Clients,       \* chat clients; each connects once
  Threads,       \* bound: calls of pthread_create, and the threads they start
  Fds,           \* descriptors accept can return
  MAX_CLNT,      \* capacity of clnt_socks
  MaxPieces,     \* bound: pieces each client types
  NoClient, Main, Free

ASSUME ChatAssumption ==
  /\ IsFiniteSet(Clients) /\ NoClient \notin Clients
  /\ IsFiniteSet(Threads) /\ Cardinality(Threads) < MAX_CLNT
  /\ MAX_CLNT \in Nat /\ Fds \in SUBSET (Nat \ 0..3) /\ MaxPieces \in [Clients -> Nat]
  /\ Main \notin Threads /\ Free \notin Threads /\ Main # Free

VARIABLES
  conn, backlog,          \* connections; those listen() holds for accept
  file,                   \* descriptor table of the server process
  alive,                  \* FALSE once SIGPIPE has killed the process
  mutex, clnt_cnt, clnt_socks,
  mpc, clnt_sock,         \* main: program counter and stack variable
  pc, sock, i, msg,       \* handlers: counter, clnt_sock, send_msg's i and msg
  meant,                  \* history: the connection each thread is started for
  log, turn               \* history: the broadcasts, in the order of the lock,
                          \* and where in log each handler's last one is

net    == <<conn, backlog>>
list   == <<clnt_cnt, clnt_socks>>
mainv  == <<mpc, clnt_sock>>
locals == <<pc, sock, i, msg>>
history == <<meant, log, turn>>
vars   == <<net, file, alive, mutex, list, mainv, locals, history>>

FdValues == Fds \cup {0, -1}    \* 0: static storage; -1: accept failed
Message  == [from : Clients \cup {NoClient}, data : Seq(Nat)]
BadRead  == [from |-> NoClient, data |-> <<>>]    \* read gave -1
Entry    == [by : Threads, from : Clients \cup {NoClient}, data : Seq(Nat)]

Init ==
  /\ conn = [c \in Clients |-> NoConn] /\ backlog = {}
  /\ file = [f \in Fds |-> NoClient]
  /\ alive = TRUE
  /\ mutex = Free
  /\ clnt_cnt = 0 /\ clnt_socks = [n \in 0..MAX_CLNT-1 |-> 0]
  /\ mpc = "accept" /\ clnt_sock = -1
  /\ pc = [t \in Threads |-> "none"]
  /\ sock = [t \in Threads |-> -1]
  /\ i = [t \in Threads |-> 0]
  /\ msg = [t \in Threads |-> BadRead]
  /\ meant = [t \in Threads |-> [fd |-> -1, client |-> NoClient]]
  /\ log = <<>> /\ turn = [t \in Threads |-> 0]

-----------------------------------------------------------------------------
(* chat_client.cpp *)

Connect(c) ==
  /\ conn[c].peer = "none"
  /\ conn' = [conn EXCEPT ![c] = Dial(@)]
  /\ backlog' = backlog \cup {c}
  /\ UNCHANGED <<file, alive, mutex, list, mainv, locals, history>>

Type(c) ==    \* send_msg: one piece of "name msg"
  /\ conn[c].peer = "open" /\ conn[c].sent < MaxPieces[c]
  /\ conn' = [conn EXCEPT ![c] = Send(@)]
  /\ UNCHANGED <<backlog, file, alive, mutex, list, mainv, locals, history>>

Show(c) ==    \* recv_msg
  /\ conn[c].peer = "open" /\ conn[c].seen < Len(conn[c].out)
  /\ conn' = [conn EXCEPT ![c] = Receive(@)]
  /\ UNCHANGED <<backlog, file, alive, mutex, list, mainv, locals, history>>

Quit(c) ==    \* "q": close and exit
  /\ conn[c].peer = "open"
  /\ conn' = [conn EXCEPT ![c] = HangUp(@)]
  /\ UNCHANGED <<backlog, file, alive, mutex, list, mainv, locals, history>>

(* What clients do once the server process is gone is left out.             *)
Client(c) == alive /\ (Connect(c) \/ Type(c) \/ Show(c) \/ Quit(c))

-----------------------------------------------------------------------------
(* The lock.  Unlocking and the step before it are one step: nobody else    *)
(* can tell them apart.                                                     *)

AcquireUnchecked(x) == mutex' = x

Acquire(x) == mutex = Free /\ mutex' = x

Release == mutex' = Free

(* main *)

LowestFree(f) == file[f] = NoClient /\ \A g \in Fds : file[g] = NoClient => f <= g

(* While the bound leaves a thread to start.                                *)
MayAccept == alive /\ mpc = "accept" /\ \E t \in Threads : pc[t] = "none"

Accept(c) ==
  /\ MayAccept /\ c \in backlog
  /\ \E f \in Fds :
       /\ LowestFree(f)
       /\ clnt_sock' = f
       /\ file' = [file EXCEPT ![f] = c]
  /\ backlog' = backlog \ {c}
  /\ mpc' = "lock"
  /\ UNCHANGED <<conn, alive, mutex, list, locals, history>>

AcceptError ==    \* the result is not examined
  /\ MayAccept
  /\ clnt_sock' = -1
  /\ mpc' = "lock"
  /\ UNCHANGED <<net, file, alive, mutex, list, locals, history>>

MainLock ==
  /\ alive /\ mpc = "lock"
  /\ Acquire(Main)
  /\ mpc' = "register"
  /\ UNCHANGED <<net, file, alive, list, clnt_sock, locals, history>>

Register ==
  /\ alive /\ mpc = "register"
  /\ clnt_socks' = [clnt_socks EXCEPT ![clnt_cnt] = clnt_sock]
  /\ clnt_cnt' = clnt_cnt + 1
  /\ Release
  /\ mpc' = "create"
  /\ UNCHANGED <<net, file, alive, clnt_sock, locals, history>>

IsOpen(f) == f \in Fds /\ file[f] # NoClient

(* pthread_create(.., &clnt_sock) starts a thread, or fails and nobody      *)
(* looks: the socket stays in the array.  (pthread_detach then gets an id   *)
(* that nobody has set; that it does no harm is assumed.)                   *)
Create(t) ==
  /\ alive /\ mpc = "create" /\ pc[t] = "none"
  /\ \E s \in {"start", "failed"} : pc' = [pc EXCEPT ![t] = s]
  /\ meant' = [meant EXCEPT ![t] =
       [fd |-> clnt_sock, client |-> IF IsOpen(clnt_sock) THEN file[clnt_sock] ELSE NoClient]]
  /\ mpc' = "accept"
  /\ UNCHANGED <<net, file, alive, mutex, list, clnt_sock, sock, i, msg, log, turn>>

-----------------------------------------------------------------------------
(* handle_clnt and send_msg *)

Goto(t, from, to) == alive /\ pc[t] = from /\ pc' = [pc EXCEPT ![t] = to]

Start(t) ==    \* *((int*)arg): whatever main's variable holds by now
  /\ Goto(t, "start", "read")
  /\ sock' = [sock EXCEPT ![t] = clnt_sock]
  /\ UNCHANGED <<net, file, alive, mutex, list, mainv, i, msg, history>>

ReadDataDropping(t) ==    \* takes everything, passes on one piece
  /\ Goto(t, "read", "lock")
  /\ IsOpen(sock[t])
  /\ LET c == file[sock[t]] IN
       /\ DataReady(conn[c])
       /\ msg' = [msg EXCEPT ![t] = [from |-> c, data |-> Taken(conn[c], 1)]]
       /\ conn' = [conn EXCEPT ![c] = Left(@, Len(@.in))]
  /\ UNCHANGED <<backlog, file, alive, mutex, list, mainv, sock, i, history>>

ReadData(t) ==
  /\ Goto(t, "read", "lock")
  /\ IsOpen(sock[t])
  /\ LET c == file[sock[t]] IN \E n \in 1..Len(conn[c].in) :
       /\ msg' = [msg EXCEPT ![t] = [from |-> c, data |-> Taken(conn[c], n)]]
       /\ conn' = [conn EXCEPT ![c] = Left(@, n)]
  /\ UNCHANGED <<backlog, file, alive, mutex, list, mainv, sock, i, history>>

ReadError(t) ==    \* -1 is not 0: the loop body runs with len = -1
  /\ Goto(t, "read", "lock")
  /\ msg' = [msg EXCEPT ![t] = BadRead]
  /\ IF IsOpen(sock[t])
     THEN LET c == file[sock[t]]
          IN ErrorReady(conn[c]) /\ conn' = [conn EXCEPT ![c] = ErrorSeen(@)]
     ELSE UNCHANGED conn
  /\ UNCHANGED <<backlog, file, alive, mutex, list, mainv, sock, i, history>>

ReadEofCloses(t) ==    \* closes at once, and leaves the array later
  /\ Goto(t, "read", "leave")
  /\ IsOpen(sock[t]) /\ EofReady(conn[file[sock[t]]])
  /\ file' = [file EXCEPT ![sock[t]] = NoClient]
  /\ UNCHANGED <<net, alive, mutex, list, mainv, sock, i, msg, history>>

ReadEof(t) ==
  /\ Goto(t, "read", "leave")
  /\ IsOpen(sock[t]) /\ EofReady(conn[file[sock[t]]])
  /\ UNCHANGED <<net, file, alive, mutex, list, mainv, sock, i, msg, history>>

Signed(t) == [by |-> t, from |-> msg[t].from, data |-> msg[t].data]

SendLock(t) ==
  /\ Goto(t, "lock", "send")
  /\ Acquire(t)
  /\ i' = [i EXCEPT ![t] = 0]
  /\ log' = IF msg[t] = BadRead THEN log ELSE Append(log, Signed(t))
  /\ turn' = [turn EXCEPT ![t] = Len(log')]
  /\ UNCHANGED <<net, file, alive, list, mainv, sock, msg, meant>>

SendOne(t) ==    \* write(clnt_socks[i], msg, len); len = -1 or a bad fd: no effect
  /\ Goto(t, "send", "send") /\ i[t] < clnt_cnt
  /\ i' = [i EXCEPT ![t] = @ + 1]
  /\ LET f == clnt_socks[i[t]] IN
       IF msg[t] = BadRead \/ ~IsOpen(f)
       THEN UNCHANGED <<conn, alive>>
       ELSE /\ Writable(conn[file[f]])
            /\ \E k \in Written(conn[file[f]], turn[t]) :
                 conn' = [conn EXCEPT ![file[f]] = k]
            /\ alive' = ~Fatal(conn[file[f]])
  /\ UNCHANGED <<backlog, file, mutex, list, mainv, sock, msg, history>>

SendNoUnlock(t) ==
  /\ Goto(t, "send", "read") /\ i[t] >= clnt_cnt
  /\ UNCHANGED <<net, file, alive, mutex, list, mainv, sock, i, msg, history>>

SendUnlock(t) ==
  /\ Goto(t, "send", "read") /\ i[t] >= clnt_cnt
  /\ Release
  /\ UNCHANGED <<net, file, alive, list, mainv, sock, i, msg, history>>

LeaveLock(t) ==
  /\ Goto(t, "leave", "remove")
  /\ Acquire(t)
  /\ UNCHANGED <<net, file, alive, list, mainv, sock, i, msg, history>>

(* The inner loop increments i before it copies, so it copies from the slot *)
(* after the match onwards: the match stays, the entry after it is lost.    *)
Without(socks, cnt, fd) ==
  LET Match == {m \in 0..cnt-1 : socks[m] = fd}
      first == CHOOSE m \in Match : \A n \in Match : m <= n
  IN IF Match = {} THEN socks
     ELSE [m \in DOMAIN socks |->
             IF first < m /\ m < cnt THEN socks[m + 1] ELSE socks[m]]

RemoveIfFound(t) ==    \* counts down only when the loop finds the socket
  /\ Goto(t, "remove", "close")
  /\ clnt_socks' = Without(clnt_socks, clnt_cnt, sock[t])
  /\ clnt_cnt' = IF \E n \in 0..clnt_cnt-1 : clnt_socks[n] = sock[t]
                 THEN clnt_cnt - 1 ELSE clnt_cnt
  /\ Release
  /\ UNCHANGED <<net, file, alive, mainv, sock, i, msg, history>>

RemoveSelf(t) ==
  /\ Goto(t, "remove", "close")
  /\ clnt_socks' = Without(clnt_socks, clnt_cnt, sock[t])
  /\ clnt_cnt' = clnt_cnt - 1
  /\ Release
  /\ UNCHANGED <<net, file, alive, mainv, sock, i, msg, history>>

CloseForgotten(t) ==
  /\ Goto(t, "close", "done")
  /\ UNCHANGED <<net, file, alive, mutex, list, mainv, sock, i, msg, history>>

Close(t) ==    \* closing a descriptor that is not open has no effect
  /\ Goto(t, "close", "done")
  /\ file' = IF IsOpen(sock[t]) THEN [file EXCEPT ![sock[t]] = NoClient] ELSE file
  /\ UNCHANGED <<net, alive, mutex, list, mainv, sock, i, msg, history>>

Receiving(t) == ReadData(t) \/ ReadError(t) \/ ReadEof(t)
Sending(t)   == SendLock(t) \/ SendOne(t) \/ SendUnlock(t)
Leaving(t)   == LeaveLock(t) \/ RemoveSelf(t) \/ Close(t)
Handler(t)   == Start(t) \/ Receiving(t) \/ Sending(t) \/ Leaving(t)

MainThread ==
  \/ \E c \in Clients : Accept(c)
  \/ AcceptError \/ MainLock \/ Register
  \/ \E t \in Threads : Create(t)

Next ==
  \/ \E c \in Clients : Client(c)
  \/ MainThread
  \/ \E t \in Threads : Handler(t)

Spec == Init /\ [][Next]_vars

(* The scheduler runs every thread that can run, and the recv_msg thread of *)
(* every client reads in a loop.  No fairness for what people do: connect,  *)
(* type, quit.                                                              *)
Fairness ==
  /\ WF_vars(MainThread)
  /\ \A t \in Threads : WF_vars(Handler(t))
  /\ \A c \in Clients : WF_vars(Show(c))

FairSpec == Spec /\ Fairness

-----------------------------------------------------------------------------
MainStates    == {"accept", "lock", "register", "create"}
HandlerStates == {"none", "failed", "start", "read", "lock", "send", "leave",
                  "remove", "close", "done"}

(* Every variable stays within the values its C type and its use allow; in  *)
(* particular clnt_cnt stays an index or the size of clnt_socks.            *)
TypeOK ==
  /\ conn \in [Clients -> ConnType] /\ backlog \in SUBSET Clients
  /\ file \in [Fds -> Clients \cup {NoClient}]
  /\ alive \in BOOLEAN
  /\ mutex \in Threads \cup {Main, Free}
  /\ clnt_cnt \in 0..MAX_CLNT /\ clnt_socks \in [0..MAX_CLNT-1 -> FdValues]
  /\ mpc \in MainStates /\ clnt_sock \in FdValues
  /\ pc \in [Threads -> HandlerStates]
  /\ sock \in [Threads -> FdValues]
  /\ i \in [Threads -> Nat]
  /\ msg \in [Threads -> Message]
  /\ meant \in [Threads -> [fd : FdValues, client : Clients \cup {NoClient}]]
  /\ log \in Seq(Entry) /\ turn \in [Threads -> Nat]

(* Who is between lock and unlock holds the mutex, and nobody else does.    *)
InCritical(t) == pc[t] \in {"send", "remove"}
MutexInv ==
  /\ \A t \in Threads : InCritical(t) <=> mutex = t
  /\ mpc = "register" <=> mutex = Main

(* clnt_cnt counts the handlers that have not left, the threads that could  *)
(* not be created, and the socket whose thread main is about to create,     *)
(* although handle_clnt counts down without knowing whether it found its    *)
(* socket, several handlers may serve one socket, and some serve none       *)
(* (accept gave -1).  So the decrement at line 74 never makes it negative.  *)
Counted == {t \in Threads : pc[t] \notin {"none", "close", "done"}}
CountMatchesHandlers ==
  clnt_cnt = Cardinality(Counted) + (IF mpc = "create" THEN 1 ELSE 0)

(* A broadcast is atomic: between a handler's lock and its unlock nobody    *)
(* joins or leaves the array its loop runs over, and nobody else writes to  *)
(* any client.                                                              *)
BroadcastStep ==
  \A t \in Threads : pc[t] = "send" =>
    /\ UNCHANGED list
    /\ \A c \in Clients : conn'[c].out # conn[c].out => i'[t] = i[t] + 1
AtomicBroadcast == [][BroadcastStep]_vars

(* Any two clients see the messages they both get in the same order: the    *)
(* server implements Broadcast.                                             *)
Order == INSTANCE Broadcast WITH
  Receivers <- Clients, published <- Len(log),
  got <- [c \in Clients |-> conn[c].out]
BroadcastSpec == Order!Spec

(* Every thread gets the address of one variable, and descriptors are used  *)
(* again after a second thread may have closed them.  Still, an open        *)
(* descriptor that main has passed on is served by the thread that was      *)
(* started for it, unless this one read the variable too late or could not  *)
(* be created; and two threads serve one descriptor only when some thread   *)
(* was late.                                                                *)
Handling(t) == pc[t] \in {"read", "lock", "send", "leave", "remove", "close"}
Late == {t \in Threads : (Handling(t) \/ pc[t] = "done") /\ sock[t] # meant[t].fd}
MeantFor(f) == {t \in Threads : pc[t] # "none" /\ meant[t] = [fd |-> f, client |-> file[f]]}
OneHandlerPerSocket ==
  \A f \in Fds : IsOpen(f) =>
    /\ \/ mpc # "accept" /\ clnt_sock = f
       \/ \E t \in MeantFor(f) :
            pc[t] \in {"start", "failed"} \/ t \in Late \/ (Handling(t) /\ sock[t] = f)
    /\ \A t, u \in Threads :
         Handling(t) /\ Handling(u) /\ sock[t] = f /\ sock[u] = f /\ t # u => Late # {}

(* A client's pieces are unread, in the hand of one thread that is about to *)
(* broadcast them, or broadcast, each of them exactly once, whatever sizes  *)
(* read returns and however many threads read; and every thread broadcasts  *)
(* what it read in the order in which it was typed.                         *)
Carries(m, c, x) == m.from = c /\ \E j \in DOMAIN m.data : m.data[j] = x
InLog(c, x)  == {n \in DOMAIN log : Carries(log[n], c, x)}
InHand(c, x) == {t \in Threads : pc[t] = "lock" /\ Carries(msg[t], c, x)}
WasRead(c)   == conn[c].sent - Len(conn[c].in)
Once(c, x) ==
  \/ InHand(c, x) = {} /\ \E n \in DOMAIN log : InLog(c, x) = {n}
  \/ InLog(c, x) = {} /\ \E t \in Threads : InHand(c, x) = {t}
Sorted(m)   == \A j, k \in DOMAIN m.data : j < k => m.data[j] < m.data[k]
Precedes(m, p) ==
  m.from = p.from => \A j \in DOMAIN m.data, k \in DOMAIN p.data : m.data[j] < p.data[k]
StreamIntact ==
  /\ \A c \in Clients :
       /\ InTransit(conn[c], WasRead(c), <<>>)
       /\ \A x \in 1..WasRead(c) : Once(c, x)
  /\ \A n \in DOMAIN log :
       /\ Sorted(log[n])
       /\ \A m \in DOMAIN log : log[m].by = log[n].by /\ m < n => Precedes(log[m], log[n])
  /\ \A t \in Threads : pc[t] = "lock" =>
       /\ Sorted(msg[t])
       /\ \A n \in DOMAIN log : log[n].by = t => Precedes(log[n], msg[t])

(* The lock is always given back, although write blocks while it is held:   *)
(* the client it waits for reads on, or is gone.                            *)
LockReleased == mutex # Free ~> mutex = Free \/ ~alive

(* A client that has gone is noticed: its connection leaves the backlog and *)
(* its descriptor is closed.  Not when the thread started for it was late   *)
(* or could not be created, nor when some thread reads a descriptor that is *)
(* not open for ever and always gets the mutex first; and the bound may     *)
(* leave main no thread to start.                                           *)
Spinning   == \E t \in Threads : pc[t] \in {"read", "lock", "send"} /\ ~IsOpen(sock[t])
NoThreadLeft == \A t \in Threads : pc[t] # "none"
Gone(c)    == c \notin backlog /\ \A f \in Fds : file[f] # c
Alone(c)   == \E t \in Threads : meant[t].client = c /\ (pc[t] = "failed" \/ t \in Late)
LeaverClosed ==
  \A c \in Clients : Closed(conn[c]) ~>
    \/ Gone(c) \/ ~alive \/ Alone(c) \/ []Spinning
    \/ c \in backlog /\ NoThreadLeft

(* Line 80, "send to all": when the loop ends, every client that a handler  *)
(* serves has been written the message, unless it has gone.  Late threads,  *)
(* another matter, are left aside.                                          *)
SendsToAll ==
  \A t \in Threads :
    pc[t] = "send" /\ i[t] = clnt_cnt /\ msg[t] # BadRead /\ Late = {} =>
      \A u \in Counted : pc[u] # "start" /\ IsOpen(sock[u]) =>
        LET k == conn[file[sock[u]]]
        IN k.peer = "open" => \E n \in DOMAIN k.out : k.out[n] = turn[t]
==============================================================================

----------------------------- MODULE ForkServer -----------------------------
(***************************************************************************)
(* The servers with one process per client: ch10/echo_mpserv.cpp and       *)
(* ch11/echo_storeserv.cpp.  The second has one process more, which takes  *)
(* what the others write into a pipe and stores it in a file.  A SIGCHLD   *)
(* handler in the first process waits for one child at a time.             *)
(***************************************************************************)
EXTENDS TcpConn

CONSTANTS
  Clients,      \* each connects once; its echo process has its name
  Logger,       \* the process that reads the pipe
  BUF_SIZE,     \* pieces one read returns at most
  PipeSize,     \* pieces the pipe holds
  LogReads,     \* reads of the logger before it ends, 10 in the code
  MaxPieces,    \* bound: pieces each client types
  MaxPauses,    \* bound, for each program: how far pauses may rise
  None

Programs == {"echo_mpserv", "echo_storeserv"}

ASSUME ForkAssumption ==
  /\ Logger \notin Clients /\ None \notin Clients \cup {Logger}
  /\ {BUF_SIZE, LogReads} \subseteq Nat \ {0} /\ PipeSize \in Nat
  /\ BUF_SIZE <= PipeSize
  /\ MaxPieces \in [Clients -> Nat] /\ MaxPauses \in [Programs -> Nat]

Procs == Clients \cup {Logger}

VARIABLES
  conn, backlog,         \* connections; those listen() holds for accept
  pc, clnt_sock,         \* the first process: position; its open client socket
  sigchld, handling,     \* SIGCHLD is pending; read_childproc runs
  pauses,                \* history: how often children were stopped or continued,
                         \* less how often read_childproc found no child that ended
  proc,                  \* what each child process does
  buf, rec,              \* per child: bytes to write back; bytes for the pipe
  pipe, reads, log,      \* the pipe; the logger's reads; what it gave to fwrite
  program                \* the program that runs; it never changes

net    == <<conn, backlog>>
signal == <<sigchld, handling, pauses>>
child  == <<proc, buf, rec>>
store  == <<pipe, reads, log>>
vars   == <<net, pc, clnt_sock, signal, child, store, program>>

Storing == program = "echo_storeserv"

Init ==
  /\ conn = [c \in Clients |-> NoConn] /\ backlog = {}
  /\ pc = "accept" /\ clnt_sock = None
  /\ sigchld = FALSE /\ handling = FALSE /\ pauses = 0
  /\ program \in Programs
  /\ \E l \in IF Storing THEN {"log", "nofile", "none"} ELSE {"none"} :
       proc = [p \in Procs |-> IF p = Logger THEN l ELSE "none"]
  /\ buf = [c \in Clients |-> <<>>] /\ rec = [c \in Clients |-> <<>>]
  /\ pipe = <<>> /\ reads = 0 /\ log = <<>>

Goto(p, l) == proc' = [proc EXCEPT ![p] = l]

(* A process ends, by return or by a signal: its parent gets SIGCHLD.  Two  *)
(* that end before the first is delivered make one signal.                  *)
Exit(p) == Goto(p, "zombie") /\ sigchld' = TRUE

-----------------------------------------------------------------------------
(* The clients: ch4/echo_client.cpp and ch10/echo_mpclient.cpp.  What a     *)
(* client does after the server closed its connection is left out.          *)

Served(c) == c \in backlog \/ clnt_sock = c \/ proc[c] \in {"read", "write", "store"}

Connect(c) ==
  /\ conn[c].peer = "none"
  /\ conn' = [conn EXCEPT ![c] = Dial(@)]
  /\ backlog' = backlog \cup {c}

Type(c) ==
  /\ conn[c].peer = "open" /\ Served(c) /\ conn[c].sent < MaxPieces[c]
  /\ conn' = [conn EXCEPT ![c] = Send(@)]
  /\ UNCHANGED backlog

Show(c) ==
  /\ conn[c].peer = "open" /\ conn[c].seen < Len(conn[c].out)
  /\ conn' = [conn EXCEPT ![c] = Receive(@)]
  /\ UNCHANGED backlog

Quit(c) ==
  /\ conn[c].peer = "open"
  /\ conn' = [conn EXCEPT ![c] = HangUp(@)]
  /\ UNCHANGED backlog

Client(c) ==
  /\ Connect(c) \/ Type(c) \/ Show(c) \/ Quit(c)
  /\ UNCHANGED <<pc, clnt_sock, signal, child, store>>

-----------------------------------------------------------------------------
(* The first process.  An accept that a signal interrupts gives -1 and is   *)
(* called again.                                                            *)

Accept ==
  /\ ~handling /\ pc = "accept"
  /\ \E c \in backlog : clnt_sock' = c /\ backlog' = backlog \ {c}
  /\ pc' = "fork"
  /\ UNCHANGED <<conn, signal, child, store>>

Fork ==
  /\ ~handling /\ pc = "fork"
  /\ Goto(clnt_sock, "read") \/ UNCHANGED proc    \* fork may fail
  /\ pc' = "close"
  /\ UNCHANGED <<net, clnt_sock, signal, buf, rec, store>>

CloseAndWait ==    \* main waits for a child that ended, too
  /\ ~handling /\ pc = "close"
  /\ clnt_sock' = None
  /\ pc' = "accept"
  /\ \E z \in IF \A p \in Procs : proc[p] # "zombie" THEN {None}
              ELSE {p \in Procs : proc[p] = "zombie"} :
       proc' = [p \in Procs |-> IF p = z THEN "reaped" ELSE proc[p]]
  /\ UNCHANGED <<net, signal, buf, rec, store>>

Close ==
  /\ ~handling /\ pc = "close"
  /\ clnt_sock' = None
  /\ pc' = "accept"
  /\ UNCHANGED <<net, signal, child, store>>

Deliver ==
  /\ sigchld /\ ~handling
  /\ sigchld' = FALSE /\ handling' = TRUE
  /\ UNCHANGED <<pauses, net, pc, clnt_sock, child, store>>

Zombies == {p \in Procs : proc[p] = "zombie"}

(* One waitpid(-1, &status, WNOHANG).  Without a child that ended it gives  *)
(* 0 and leaves status, which the handler examines, as it was: unset.       *)
Reap ==
  /\ handling /\ handling' = FALSE
  /\ \E z \in IF Zombies = {} THEN {None} ELSE Zombies :
       proc' = [p \in Procs |-> IF p = z THEN "reaped" ELSE proc[p]]
  /\ pauses' = IF Zombies = {} THEN pauses - 1 ELSE pauses
  /\ UNCHANGED <<net, pc, clnt_sock, sigchld, buf, rec, store>>

Parent == Accept \/ Fork \/ Close \/ Deliver \/ Reap

-----------------------------------------------------------------------------
(* The process that serves client c                                         *)

Parentside == <<backlog, pc, clnt_sock, handling, pauses>>

ReadLeavingOne(c) ==
  /\ proc[c] = "read"
  /\ \E n \in 1..Len(conn[c].in) :
       /\ n <= BUF_SIZE
       /\ buf' = [buf EXCEPT ![c] = Taken(conn[c], n)]
       /\ rec' = [rec EXCEPT ![c] = IF Storing THEN Taken(conn[c], n) ELSE <<>>]
       /\ conn' = [conn EXCEPT ![c] = Left(@, n - 1)]
  /\ Goto(c, "write")
  /\ UNCHANGED <<Parentside, sigchld, store>>

ReadData(c) ==
  /\ proc[c] = "read"
  /\ \E n \in 1..Len(conn[c].in) :
       /\ n <= BUF_SIZE
       /\ buf' = [buf EXCEPT ![c] = Taken(conn[c], n)]
       /\ rec' = [rec EXCEPT ![c] = IF Storing THEN Taken(conn[c], n) ELSE <<>>]
       /\ conn' = [conn EXCEPT ![c] = Left(@, n)]
  /\ Goto(c, "write")
  /\ UNCHANGED <<Parentside, sigchld, store>>

(* -1 is not 0; the writes of length -1 that follow fail with EFAULT.       *)
ReadError(c) ==
  /\ proc[c] = "read" /\ ErrorReady(conn[c])
  /\ conn' = [conn EXCEPT ![c] = ErrorSeen(@)]
  /\ UNCHANGED <<Parentside, sigchld, child, store>>

ReadEofAgain(c) ==    \* != -1 for != 0
  /\ proc[c] = "read" /\ EofReady(conn[c])
  /\ UNCHANGED <<net, Parentside, sigchld, child, store>>

(* The child of echo_storeserv.cpp returns.  The other one goes round the   *)
(* accept loop for ever, with the listening socket it closed.               *)
ReadEof(c) ==
  /\ proc[c] = "read" /\ EofReady(conn[c])
  /\ IF Storing THEN Exit(c) ELSE Goto(c, "spin") /\ UNCHANGED sigchld
  /\ UNCHANGED <<net, Parentside, buf, rec, store>>

WritePiece(c) ==
  /\ proc[c] = "write" /\ buf[c] # <<>>
  /\ conn[c].peer = "open" /\ Writable(conn[c])
  /\ \E k \in Written(conn[c], Head(buf[c])) : conn' = [conn EXCEPT ![c] = k]
  /\ buf' = [buf EXCEPT ![c] = Tail(@)]
  /\ UNCHANGED <<Parentside, sigchld, proc, rec, store>>

(* A write to a reset connection raises SIGPIPE, which ends this process.   *)
WriteToGone(c) ==
  /\ proc[c] = "write" /\ buf[c] # <<>>
  /\ Closed(conn[c])
  /\ \E k \in Written(conn[c], Head(buf[c])) \cup {conn[c]} :
       conn' = [conn EXCEPT ![c] = k]
  /\ IF Fatal(conn[c]) THEN Exit(c) ELSE UNCHANGED <<proc, sigchld>>
  /\ buf' = [buf EXCEPT ![c] = <<>>]
  /\ UNCHANGED <<Parentside, rec, store>>

WriteOnce(c) ==    \* if for while
  /\ proc[c] = "write" /\ buf[c] = <<>>
  /\ Exit(c)
  /\ UNCHANGED <<net, Parentside, buf, rec, store>>

WriteDone(c) ==
  /\ proc[c] = "write" /\ buf[c] = <<>>
  /\ Goto(c, IF Storing THEN "store" ELSE "read")
  /\ UNCHANGED <<net, Parentside, sigchld, buf, rec, store>>

Record(c) == [i \in DOMAIN rec[c] |-> <<c, rec[c][i]>>]
Fits(c)   == Len(pipe) + Len(rec[c]) <= PipeSize

(* What fits into PIPE_BUF goes into the pipe in one piece, and write waits *)
(* until there is room for it.                                              *)
Store(c) ==
  /\ proc[c] = "store" /\ Fits(c)
  /\ pipe' = pipe \o Record(c)
  /\ rec' = [rec EXCEPT ![c] = <<>>]
  /\ Goto(c, "read")
  /\ UNCHANGED <<net, Parentside, sigchld, buf, reads, log>>

Child(c) ==
  \/ ReadData(c) \/ ReadError(c) \/ ReadEof(c)
  \/ WritePiece(c) \/ WriteToGone(c) \/ WriteDone(c) \/ Store(c)

-----------------------------------------------------------------------------
(* The logger of echo_storeserv.cpp: "none" if fork failed, "nofile" if    *)
(* fopen did, as it does where there is no directory ch11.                  *)

LogRead ==
  /\ proc[Logger] = "log" /\ reads < LogReads
  /\ \E n \in 1..Len(pipe) :
       /\ n <= BUF_SIZE
       /\ log' = log \o SubSeq(pipe, 1, n)
       /\ pipe' = SubSeq(pipe, n + 1, Len(pipe))
  /\ reads' = reads + 1
  /\ UNCHANGED <<net, Parentside, sigchld, child>>

LogCrash ==    \* fwrite to the null pointer that fopen returned
  /\ proc[Logger] = "nofile"
  /\ \E n \in 1..Len(pipe) : n <= BUF_SIZE /\ pipe' = SubSeq(pipe, n + 1, Len(pipe))
  /\ Exit(Logger)
  /\ UNCHANGED <<net, Parentside, buf, rec, reads, log>>

LogEnd ==    \* fclose, and return; the pipe stays open in all processes
  /\ proc[Logger] = "log" /\ reads = LogReads
  /\ Exit(Logger)
  /\ UNCHANGED <<net, Parentside, buf, rec, store>>

LoggerProcess == LogRead \/ LogCrash \/ LogEnd

-----------------------------------------------------------------------------
(* sa_flags is 0: the parent gets SIGCHLD also when somebody stops a child  *)
(* or continues it; a signal that is pending already takes this one in.     *)
(* What is stopped is continued before long, so a child that pauses is not  *)
(* told apart from a slow one.                                              *)
Living(p) == proc[p] \notin {"none", "zombie", "reaped"}

Pause ==
  /\ \E p \in Procs : Living(p)
  /\ pauses < MaxPauses[program] /\ pauses' = pauses + 1
  /\ ~sigchld /\ sigchld' = TRUE
  /\ UNCHANGED <<net, pc, clnt_sock, handling, child, store>>

Next ==
  /\ \/ Parent \/ LoggerProcess \/ Pause
     \/ \E c \in Clients : Child(c) \/ Client(c)
  /\ UNCHANGED program

Spec == Init /\ [][Next]_vars

(* Every process runs whenever it can, and a client that listens reads what *)
(* comes back; nothing obliges anybody to connect, type or quit.            *)
Fairness ==
  /\ WF_vars(Parent /\ UNCHANGED program)
  /\ WF_vars(LoggerProcess /\ UNCHANGED program)
  /\ \A c \in Clients :
       /\ WF_vars(Child(c) /\ UNCHANGED program)
       /\ WF_vars(Show(c) /\ Client(c) /\ UNCHANGED program)

FairSpec == Spec /\ Fairness

-----------------------------------------------------------------------------
(* Every variable keeps its type, and the pipe its size.                    *)
TypeOK ==
  /\ conn \in [Clients -> ConnType] /\ backlog \in SUBSET Clients
  /\ pc \in {"accept", "fork", "close"} /\ clnt_sock \in Clients \cup {None}
  /\ sigchld \in BOOLEAN /\ handling \in BOOLEAN
  /\ pauses \in Int
  /\ proc \in [Procs -> {"none", "log", "nofile", "read", "write", "store",
                         "spin", "zombie", "reaped"}]
  /\ buf \in [Clients -> Seq(Nat)] /\ rec \in [Clients -> Seq(Nat)]
  /\ pipe \in Seq(Clients \X Nat) /\ Len(pipe) <= PipeSize
  /\ reads \in 0..LogReads /\ log \in Seq(Clients \X Nat)
  /\ program \in Programs

(* read_childproc looks at a status that waitpid wrote, or else because     *)
(* somebody stopped or continued a child, at most once for each time.       *)
(* Children that end never let it run in vain, though their signals merge   *)
(* and one run waits for one child only, of those that others leave behind. *)
StatusSet == pauses >= 0

(* The entries of client c in the sequence s are its first k pieces, each   *)
(* once and in order.                                                       *)
Records(s, c, k) ==
  /\ \A i \in DOMAIN s : s[i][1] = c => s[i][2] \in 1..k
  /\ \A x \in 1..k : \E i \in DOMAIN s : s[i] = <<c, x>>
  /\ \A i, j \in DOMAIN s : i < j /\ s[i][1] = c /\ s[j][1] = c => s[i][2] < s[j][2]

(* The pipe carries the texts of all clients at once.  Of each client, what *)
(* the file and the pipe hold is the beginning of its text, nothing twice   *)
(* or out of order, and all that was echoed is there but the record in      *)
(* hand.  A logger that crashed took some of it along.                      *)
Crashed == proc[Logger] \in {"zombie", "reaped"} /\ reads < LogReads

LogIntact ==
  Storing /\ ~Crashed =>
    \A c \in Clients : \E k \in 0..conn[c].sent :
      /\ Records(log \o pipe, c, k)
      /\ Len(conn[c].out) <= k + Len(rec[c])

(* A logger that ended, after its ten reads or by a crash, or that fork did *)
(* not make, leaves the pipe to fill up; as every process keeps the reading *)
(* end open, nobody is told.                                                *)
Stuck(c) ==
  proc[c] = "store" /\ ~Fits(c) /\ proc[Logger] \in {"none", "zombie", "reaped"}

(* A client that has a process gets its whole text back unless it leaves or *)
(* its process waits for room in a pipe that nobody reads any more.         *)
AllEchoed ==
  \A c \in Clients : proc[c] # "none" /\ conn[c].sent > Len(conn[c].out) ~>
    Len(conn[c].out) = conn[c].sent \/ Closed(conn[c]) \/ []Stuck(c)

(* When a client leaves, its process in echo_storeserv.cpp ends, or waits   *)
(* for the pipe for ever; its process in echo_mpserv.cpp ends only if       *)
(* SIGPIPE kills it, and otherwise spins for ever.                          *)
LeaverEnds ==
  \A c \in Clients : Closed(conn[c]) /\ proc[c] # "none" ~>
    \/ proc[c] \in {"zombie", "reaped"}
    \/ [](IF Storing THEN Stuck(c) ELSE proc[c] = "spin")
=============================================================================

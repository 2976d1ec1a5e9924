------------------------------ MODULE WebServer ------------------------------
(***************************************************************************)
(* ch24/webserver.cpp: main accepts and gives each connection to a new     *)
(* thread by the address of its variable clnt_sock; a thread reads one     *)
(* request line and answers with a file or an error.                       *)
(***************************************************************************)
EXTENDS Integers, Sequences, FiniteSets, FiniteSetsExt

CONSTANTS
  Clients,      \* each connects once
  Workers,      \* the calls of pthread_create
  Limits,       \* how many descriptors there may be for connections and files
  Free, File    \* an unused number; one that belongs to a file

ASSUME WebAssumption ==
  /\ IsFiniteSet(Workers) /\ Cardinality(Workers) >= Cardinality(Clients)
  /\ Limits \subseteq Nat \ {0}
  /\ Free # File /\ {Free, File} \cap Clients = {}

VARIABLES
  alive,                 \* the process runs
  lpc, clnt_sock,        \* main: position; its variable
  fd,                    \* the descriptor table
  backlog, client,       \* connections to accept; what each client did
  request, unread,       \* what each client asked; who has not been read yet
  answers,               \* per client: what came back
  tpc, sock, wr, kind,   \* per thread: position; descriptors it reads from and
                         \* writes to; what it takes the request for
  meant, raced, full,    \* history: the socket main meant each thread to have;
                         \* a thread read another; there was no descriptor left;
  left                   \* the clients that left before they were answered

listener == <<lpc, clnt_sock>>
wire     == <<backlog, client, request, unread>>
worker   == <<tpc, sock, wr, kind>>
hist     == <<meant, raced, full, left>>
webVars  == <<alive, listener, fd, wire, answers, worker, hist>>

(* "page": GET of a file that exists; "missing": of one that does not;      *)
(* "other": not GET, or not HTTP; "bare": a name without a dot; "long": a   *)
(* method or a name that its array of 10 or 30 bytes does not hold.         *)
Kinds == {"page", "missing", "other", "bare", "long"}

WebInit ==
  /\ alive = TRUE /\ lpc = "accept" /\ clnt_sock = 0
  /\ \E limit \in Limits : fd = [n \in 1..limit |-> Free]
  /\ backlog = {} /\ unread = {}
  /\ client = [c \in Clients |-> "off"] /\ request = [c \in Clients |-> "none"]
  /\ answers = [c \in Clients |-> <<>>]
  /\ tpc = [t \in Workers |-> "none"] /\ kind = [t \in Workers |-> "none"]
  /\ sock = [t \in Workers |-> 0] /\ wr = [t \in Workers |-> 0]
  /\ meant = [t \in Workers |-> 0] /\ raced = FALSE /\ full = FALSE
  /\ left = {}

Unused == {n \in DOMAIN fd : fd[n] = Free}
Gotot(t, l) == tpc' = [tpc EXCEPT ![t] = l]

-----------------------------------------------------------------------------
(* The clients.  What they read is not held up by anything.                 *)

Connect(c) ==
  /\ alive /\ client[c] = "off"
  /\ client' = [client EXCEPT ![c] = "open"]
  /\ backlog' = backlog \cup {c}
  /\ UNCHANGED <<request, unread, left>>

Ask(c) ==
  /\ client[c] = "open" /\ request[c] = "none"
  /\ \E k \in Kinds : request' = [request EXCEPT ![c] = k]
  /\ unread' = unread \cup {c}
  /\ UNCHANGED <<backlog, client, left>>

Quit(c) ==
  /\ client[c] = "open"
  /\ client' = [client EXCEPT ![c] = "gone"]
  /\ left' = IF answers[c] = <<>> THEN left \cup {c} ELSE left
  /\ UNCHANGED <<backlog, request, unread>>

Client(c) ==
  /\ Connect(c) \/ Ask(c) \/ Quit(c)
  /\ UNCHANGED <<alive, listener, fd, answers, worker, meant, raced, full>>

-----------------------------------------------------------------------------
(* main                                                                     *)

Accept ==
  /\ alive /\ lpc = "accept" /\ Unused # {}
  /\ \E c \in backlog :
       /\ fd' = [fd EXCEPT ![Min(Unused)] = c]
       /\ backlog' = backlog \ {c}
  /\ clnt_sock' = Min(Unused) /\ lpc' = "create"
  /\ UNCHANGED <<alive, client, request, unread, answers, worker, hist>>

(* -1 ends the whole server.                                                *)
AcceptFails ==
  /\ alive /\ lpc = "accept" /\ Unused = {} /\ backlog # {}
  /\ alive' = FALSE /\ full' = TRUE
  /\ UNCHANGED <<listener, fd, wire, answers, worker, meant, raced, left>>

(* Nobody looks at what pthread_create returns: where it fails, the socket  *)
(* stays open and nobody reads it.                                          *)
CreateWorker ==
  /\ alive /\ lpc = "create"
  /\ \E t \in Workers :
       /\ tpc[t] = "none" /\ \E l \in {"start", "failed"} : Gotot(t, l)
       /\ meant' = [meant EXCEPT ![t] = clnt_sock]
  /\ lpc' = "accept"
  /\ UNCHANGED <<alive, clnt_sock, fd, wire, answers, sock, wr, kind, raced, full, left>>

Listener == Accept \/ AcceptFails \/ CreateWorker

-----------------------------------------------------------------------------
(* A thread                                                                 *)

(* It reads main's variable through the pointer.                            *)
Start(t) ==
  /\ alive /\ tpc[t] = "start"
  /\ sock' = [sock EXCEPT ![t] = clnt_sock]
  /\ raced' = (raced \/ clnt_sock # meant[t])
  /\ Gotot(t, "open")
  /\ UNCHANGED <<alive, listener, fd, wire, answers, wr, kind, meant, full, left>>

(* fdopen is NULL, and ends the server, for a number that is closed, for    *)
(* the -1 of a dup that fails, and for writing to a file opened to read.    *)
OpenStreams(t) ==
  /\ alive /\ tpc[t] = "open"
  /\ IF fd[sock[t]] \in Clients /\ Unused # {}
     THEN /\ wr' = [wr EXCEPT ![t] = Min(Unused)]
          /\ fd' = [fd EXCEPT ![Min(Unused)] = fd[sock[t]]]
          /\ Gotot(t, "line")
          /\ UNCHANGED <<alive, full>>
     ELSE /\ alive' = FALSE /\ full' = (full \/ Unused = {})
          /\ UNCHANGED <<wr, fd, tpc>>
  /\ UNCHANGED <<listener, wire, answers, sock, kind, meant, raced, left>>

(* fgets, from whatever the number stands for now.  Where it fails, the     *)
(* buffer holds what was on the stack, which may be an old request.         *)
ReadLine(t) ==
  /\ alive /\ tpc[t] = "line"
  /\ LET c == fd[sock[t]] IN
       \/ /\ c \in unread /\ unread' = unread \ {c}
          /\ kind' = [kind EXCEPT ![t] = request[c]]
       \/ /\ \/ c \notin Clients
             \/ c \in Clients \ unread /\ client[c] = "gone"
          /\ \E k \in Kinds : kind' = [kind EXCEPT ![t] = k]
          /\ UNCHANGED unread
  /\ Gotot(t, "answer")
  /\ UNCHANGED <<alive, listener, fd, backlog, client, request, answers, sock, wr, hist>>

(* strcpy from the NULL that strtok gives where the name has no dot.        *)
Crash(t) ==
  /\ alive /\ tpc[t] = "answer" /\ kind[t] = "bare"
  /\ alive' = FALSE
  /\ UNCHANGED <<listener, fd, wire, answers, worker, hist>>

(* strcpy past the end of method or file_name, which is undefined: the      *)
(* process dies, or the thread goes on with whatever stands there then.     *)
Overrun(t) ==
  /\ alive /\ tpc[t] = "answer" /\ kind[t] = "long"
  /\ \/ alive' = FALSE /\ UNCHANGED kind
     \/ \E k \in Kinds \ {"bare", "long"} : kind' = [kind EXCEPT ![t] = k] /\ UNCHANGED alive
  /\ UNCHANGED <<listener, fd, wire, answers, tpc, sock, wr, hist>>

Reply(n, a) ==
  answers' = [c \in Clients |-> IF fd[n] = c THEN Append(answers[c], a) ELSE answers[c]]

(* The first write to a client that has gone is taken, the next one raises  *)
(* SIGPIPE.                                                                 *)
Piped(n, writes) ==
  \E c \in Clients :
    fd[n] = c /\ client[c] = "gone" /\ (writes > 1 \/ answers[c] # <<>>)

SendError(t) ==
  /\ Reply(wr[t], "error")
  /\ alive' = TRUE \/ (Piped(wr[t], 1) /\ alive' = FALSE)

RefuseAndGoOn(t) ==     \* no return after send_error
  /\ alive /\ tpc[t] = "answer" /\ kind[t] = "other"
  /\ SendError(t)
  /\ fd' = [fd EXCEPT ![sock[t]] = Free]
  /\ kind' = [kind EXCEPT ![t] = "page"] /\ Gotot(t, "file")
  /\ UNCHANGED <<listener, wire, sock, wr, hist>>

RefuseHalf(t) ==        \* no fclose(clnt_write) before the return
  /\ alive /\ tpc[t] = "answer" /\ kind[t] = "other"
  /\ SendError(t)
  /\ fd' = [fd EXCEPT ![sock[t]] = Free]
  /\ Gotot(t, "done")
  /\ UNCHANGED <<listener, wire, sock, wr, kind, hist>>

(* send_error, and both streams are closed.                                 *)
Refuse(t) ==
  /\ alive /\ tpc[t] = "answer" /\ kind[t] = "other"
  /\ SendError(t)
  /\ fd' = [fd EXCEPT ![sock[t]] = Free, ![wr[t]] = Free]
  /\ Gotot(t, "done")
  /\ UNCHANGED <<listener, wire, sock, wr, kind, hist>>

CloseRead(t) ==
  /\ alive /\ tpc[t] = "answer" /\ kind[t] \in {"page", "missing"}
  /\ fd' = [fd EXCEPT ![sock[t]] = Free]
  /\ Gotot(t, "file")
  /\ UNCHANGED <<alive, listener, wire, answers, sock, wr, kind, hist>>

(* fopen fails: the error is sent and the writing stream stays open.        *)
NoFile(t) ==
  /\ alive /\ tpc[t] = "file" /\ (kind[t] = "missing" \/ Unused = {})
  /\ SendError(t)
  /\ full' = (full \/ Unused = {})
  /\ Gotot(t, "done")
  /\ UNCHANGED <<listener, fd, wire, sock, wr, kind, meant, raced, left>>

OpenFile(t) ==
  /\ alive /\ tpc[t] = "file" /\ kind[t] = "page" /\ Unused # {}
  /\ fd' = [fd EXCEPT ![Min(Unused)] = File]
  /\ Gotot(t, "send")
  /\ UNCHANGED <<alive, listener, wire, answers, sock, wr, kind, hist>>

SendNoClose(t) ==       \* no fclose(fp) after the last line
  /\ alive /\ tpc[t] = "send"
  /\ Reply(wr[t], "page")
  /\ alive' = TRUE \/ (Piped(wr[t], 2) /\ alive' = FALSE)
  /\ Gotot(t, "done")
  /\ UNCHANGED <<listener, fd, wire, sock, wr, kind, hist>>

(* The header and the lines of the file, with a write for each line; the    *)
(* file stays open.                                                         *)
SendPage(t) ==
  /\ alive /\ tpc[t] = "send"
  /\ Reply(wr[t], "page")
  /\ alive' = TRUE \/ (Piped(wr[t], 2) /\ alive' = FALSE)
  /\ fd' = [fd EXCEPT ![wr[t]] = Free]
  /\ Gotot(t, "done")
  /\ UNCHANGED <<listener, wire, sock, wr, kind, hist>>

Worker(t) ==
  \/ Start(t) \/ OpenStreams(t) \/ ReadLine(t) \/ Crash(t) \/ Overrun(t) \/ Refuse(t)
  \/ CloseRead(t) \/ NoFile(t) \/ OpenFile(t) \/ SendPage(t)

-----------------------------------------------------------------------------
WebNext ==
  \/ Listener
  \/ \E t \in Workers : Worker(t)
  \/ \E c \in Clients : Client(c)

WebSpec == WebInit /\ [][WebNext]_webVars
WebFairSpec == WebSpec /\ WF_webVars(Listener) /\ \A t \in Workers : WF_webVars(Worker(t))

-----------------------------------------------------------------------------
(* As long as every thread reads its argument before the next accept writes *)
(* it, a client gets one answer at most, and the one to what it asked; a    *)
(* page may turn into an error only when there is no descriptor left to     *)
(* open it with.  Otherwise a thread may read the request of one client     *)
(* through a number that was closed and given out again, and answer another. *)
(* What a request is taken for that overran its arrays is anybody's guess.  *)
Right(c) == CASE request[c] = "page" -> {"page"} \cup (IF full THEN {"error"} ELSE {})
              [] request[c] = "long" -> {"page", "error"}
              [] OTHER -> {"error"}

AnswerFits ==
  ~raced => \A c \in Clients :
    /\ Len(answers[c]) <= 1
    /\ (answers[c] # <<>> /\ request[c] # "none") => answers[c][1] \in Right(c)

(* Every GET takes one descriptor out of use for good, the file, or the     *)
(* writing stream when there is no file, and nothing else does: so many     *)
(* descriptors are in use as there were GETs, and those that threads at     *)
(* work hold.                                                               *)
Holds(t) == CASE tpc[t] \in {"none", "done"} -> 0
              [] tpc[t] \in {"line", "answer", "send"} -> 2
              [] OTHER -> 1
Held == {h \in Workers \X {1, 2} : h[2] <= Holds(h[1])}
Gets == {t \in Workers : tpc[t] = "done" /\ kind[t] \in {"page", "missing"}}
Used == {n \in DOMAIN fd : fd[n] # Free}

LeakPerRequest ==
  ~raced => Cardinality(Used) =
    Cardinality(Gets) + Cardinality(Held) + (IF lpc = "create" THEN 1 ELSE 0)

(* Who has asked is answered and the connection closed; where there is no   *)
(* such file, or no descriptor to open it with, it stays open for ever, and *)
(* the client, which was told of 2048 bytes, goes on waiting.  Otherwise    *)
(* its thread could not be created, or two threads took one socket, or the  *)
(* server has ended: by a request for a file whose name has no dot, by one  *)
(* with a method or name longer than its array, because a client that was   *)
(* to get a page left before it was sent, or because the descriptors are    *)
(* used up.                                                                 *)
Open(c) == \E n \in DOMAIN fd : fd[n] = c

Ended ==
  /\ ~alive
  /\ \/ full
     \/ \E t \in Workers : kind[t] \in {"bare", "long"}
     \/ \E c \in left : request[c] \in {"page", "long", "none"}

Unthreaded(c) == \E t \in Workers : tpc[t] = "failed" /\ fd[meant[t]] = c

AllServed ==
  \A c \in Clients : c \in unread ~>
    \/ answers[c] # <<>> /\ ~Open(c)
    \/ answers[c] # <<>> /\ (request[c] \in {"missing", "long"} \/ full) /\ []Open(c)
    \/ Unthreaded(c) \/ raced \/ Ended
=============================================================================

------------------------------ MODULE Session -------------------------------
(***************************************************************************)
(* What the programs that serve one client at a time have in common: a     *)
(* server that accepts, reads and writes, and clients that connect, write  *)
(* and read.  EchoDialogue, Calculator and Transfer say what the programs  *)
(* of each kind do with it; MCSessions puts them together.                 *)
(***************************************************************************)
EXTENDS Stream, SequencesExt

CONSTANTS
  Clients,      \* the processes that connect
  BUF_SIZE,     \* pieces one read returns at most
  PieceRoom, ByteRoom,    \* what the buffers of one direction hold: of the
                          \* pieces of a text, and of the bytes of a request
  None

ASSUME SessionAssumption ==
  /\ None \notin Clients
  /\ BUF_SIZE \in Nat \ {0} /\ PieceRoom \in Nat \ {0} /\ ByteRoom \in Nat \ {0}

VARIABLES
  program,        \* the server that runs, by the name of its file; never changes
  link, waiting,  \* connections; those that wait for accept
  spc, cur,       \* the server: position; client_socket
  buf, heard,     \* the server: what is left to write; what it read of its client
  served,         \* the server: i, clients served
  cpc, out, got,  \* per client: position; what is left to write; all it has read
  asked           \* per client: what its user typed

serv == <<spc, cur, buf, heard, served>>
clnt == <<cpc, out, got, asked>>
vars == <<program, link, waiting, serv, clnt>>

Gotoc(c, l) == cpc' = [cpc EXCEPT ![c] = l]

SessionInit ==
  /\ link = [c \in Clients |-> NewLink] /\ waiting = {}
  /\ spc = "accept" /\ cur = None /\ buf = <<>> /\ heard = <<>> /\ served = 0
  /\ cpc = [c \in Clients |-> "off"] /\ asked = [c \in Clients |-> <<>>]
  /\ out = [c \in Clients |-> <<>>] /\ got = [c \in Clients |-> <<>>]

Room == IF program \in {"op_server", "peek_recv"} THEN ByteRoom ELSE PieceRoom

Over == {"ended", "failed", "killed"}

(* The kernel completes a connection while the server listens; the client   *)
(* goes on at l.                                                            *)
Connect(c, l) ==
  /\ cpc[c] = "off" /\ spc \notin Over
  /\ Gotoc(c, l)
  /\ waiting' = waiting \cup {c}
  /\ UNCHANGED <<link, serv, out, got, asked>>

Accept(l) ==
  /\ spc = "accept"
  /\ \E c \in waiting : cur' = c /\ waiting' = waiting \ {c}
  /\ spc' = l /\ heard' = <<>>
  /\ UNCHANGED <<link, buf, served, clnt>>

(* The process of the server ends at pos, having left the connections as in *)
(* k: all its sockets close.                                                *)
Exit(pos, k) ==
  /\ spc' = pos
  /\ link' = [c \in Clients |-> CASE c \in waiting -> Refused(k[c])
                                  [] c = cur -> Close(k[c], "serv")
                                  [] OTHER -> k[c]]

ClientPut(c) ==
  /\ cpc[c] = "write" /\ out[c] # <<>> /\ CanPut(link[c], "clnt", Room)
  /\ link' = [link EXCEPT ![c] = Put(@, "clnt", Head(out[c]))]
  /\ out' = [out EXCEPT ![c] = Tail(@)]
  /\ UNCHANGED <<waiting, serv, cpc, got, asked>>

(* What a client does after its server has gone is left out: it fails, or   *)
(* SIGPIPE ends it, or it prompts for lines that get no answer.             *)
ClientPutGone(c) ==
  /\ cpc[c] = "write" /\ out[c] # <<>> /\ Gone(link[c], "clnt")
  /\ Gotoc(c, "lost")
  /\ UNCHANGED <<link, waiting, serv, out, got, asked>>

(* The client's write is complete and it goes on at l.                      *)
ClientSent(c, l) ==
  /\ cpc[c] = "write" /\ out[c] = <<>>
  /\ Gotoc(c, l)
  /\ UNCHANGED <<link, waiting, serv, out, got, asked>>

(* The client reads the first n pieces and goes on at l.                    *)
ClientGet(c, n, l) ==
  /\ link' = [link EXCEPT ![c] = Drop(@, "clnt", n)]
  /\ got' = [got EXCEPT ![c] = @ \o First(link[c], "clnt", n)]
  /\ Gotoc(c, l)
  /\ UNCHANGED <<waiting, serv, out, asked>>

ClientClose(c) ==
  /\ link' = [link EXCEPT ![c] = Close(@, "clnt")]
  /\ Gotoc(c, "done")

(* Its user interrupts it.                                                  *)
Interrupt(c) ==
  /\ cpc[c] \in {"write", "read", "both"}
  /\ link' = [link EXCEPT ![c] = Close(@, "clnt")]
  /\ Gotoc(c, "gone")
  /\ UNCHANGED <<waiting, serv, out, got, asked>>

ServerPut ==
  /\ spc = "write" /\ buf # <<>> /\ CanPut(link[cur], "serv", Room)
  /\ link' = [link EXCEPT ![cur] = Put(@, "serv", Head(buf))]
  /\ buf' = Tail(buf)
  /\ UNCHANGED <<waiting, spc, cur, heard, served, clnt>>

(* A write to a client that has gone.  It gives -1 while ECONNRESET is      *)
(* pending, which ends the programs that look at it (strict); on a dead     *)
(* connection SIGPIPE ends any of them.  Other writes may have to follow.   *)
ServerPutGone(strict, later) ==
  /\ spc = "write" /\ buf # <<>> /\ Gone(link[cur], "serv")
  /\ buf' = later
  /\ LET pos == CASE link[cur].err["serv"] = "dead" -> "killed"
                  [] link[cur].err["serv"] = "reset" /\ strict -> "failed"
                  [] OTHER -> "write"
     IN \E k \in PutGone(link[cur], "serv") :
          IF pos = "write" THEN link' = [link EXCEPT ![cur] = k] /\ UNCHANGED spc
          ELSE Exit(pos, link)
  /\ UNCHANGED <<waiting, cur, heard, served, clnt>>

ServerSent(l) ==
  /\ spc = "write" /\ buf = <<>>
  /\ spc' = l
  /\ UNCHANGED <<link, waiting, cur, buf, heard, served, clnt>>
=============================================================================

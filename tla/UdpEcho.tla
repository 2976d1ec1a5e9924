------------------------------ MODULE UdpEcho -------------------------------
(***************************************************************************)
(* ch6/uecho_server.cpp with uecho_client, or with uecho_con_client, whose *)
(* socket is connected to it.  Lines are shorter than the buffers and are  *)
(* numbered; users leave with q.                                           *)
(***************************************************************************)
EXTENDS Datagram

CONSTANT MaxLines    \* bound: lines each client sends

VARIABLES
  spc, held,    \* the server: position, also "off"; what it received last
  cpc, sent,    \* per client: position; lines it sent
  err, shown    \* per client: a pending ECONNREFUSED; what it printed as the
                \* server's messages

server  == <<spc, held>>
clients == <<cpc, sent, err, shown>>
echo    == <<server, clients>>

EchoPrograms == {"uecho_client", "uecho_con_client"}
Connected == program = "uecho_con_client"

Foreign == 0     \* what some other host sent
Own == -1        \* its own line, left in the buffer
Nothing == Packet("none", "back", Own)

EchoInit ==
  /\ spc = "off" /\ held = Nothing
  /\ cpc = [c \in Hosts |-> "prompt"] /\ sent = [c \in Hosts |-> 0]
  /\ err = [c \in Hosts |-> FALSE] /\ shown = [c \in Hosts |-> <<>>]

-----------------------------------------------------------------------------
(* The server.  It keeps nothing from one datagram to the next, and may be  *)
(* stopped and started at any time.                                         *)

StartServer ==
  /\ spc = "off" /\ spc' = "recv"
  /\ UNCHANGED <<network, held, clients>>

StopServer ==
  /\ spc # "off" /\ spc' = "off" /\ held' = Nothing
  /\ lost' = IF spc = "send" THEN lost \cup {held.of} ELSE lost
  /\ UNCHANGED <<net, extra, clients>>

RecvFrom ==
  /\ spc = "recv"
  /\ \E p \in DOMAIN net : p.way = "to" /\ Take(p) /\ held' = p
  /\ spc' = "send"
  /\ UNCHANGED clients

SendTo ==
  /\ spc = "send"
  /\ Send({[held EXCEPT !.way = "back"]})
  /\ spc' = "recv" /\ held' = Nothing
  /\ UNCHANGED clients

(* Nobody has the port: the datagram is gone, and a connected socket may be *)
(* told of it.                                                              *)
Unreachable ==
  /\ spc = "off"
  /\ \E p \in DOMAIN net :
       /\ p.way = "to"
       /\ \/ Connected /\ Take(p) /\ err' = [err EXCEPT ![p.of] = TRUE]
          \/ Lose(p) /\ UNCHANGED err
  /\ UNCHANGED <<server, cpc, sent, shown>>

-----------------------------------------------------------------------------
(* The clients                                                              *)

(* A write to a socket with a pending error gives -1 and sends nothing; the *)
(* client waits for an answer all the same.                                 *)
SendLine(c) ==
  /\ cpc[c] = "prompt" /\ sent[c] < MaxLines
  /\ sent' = [sent EXCEPT ![c] = @ + 1]
  /\ IF err[c]
     THEN lost' = lost \cup {c} /\ UNCHANGED <<net, extra>>
     ELSE Send({Packet(c, "to", sent[c] + 1)})
  /\ err' = [err EXCEPT ![c] = FALSE]
  /\ cpc' = [cpc EXCEPT ![c] = "wait"]
  /\ UNCHANGED <<server, shown>>

Leave(c) ==
  /\ cpc[c] = "prompt"
  /\ cpc' = [cpc EXCEPT ![c] = "done"]
  /\ UNCHANGED <<network, server, sent, err, shown>>

FromAnyone(c) ==    \* no connect before the loop
  {p \in DOMAIN net : p.of = c /\ p.way = "back"}

(* A connected socket takes what its server sent, any other everything.     *)
Accepted(c) ==
  {p \in DOMAIN net : p.of = c /\ p.way = "back" /\ (Connected => p.data # Foreign)}

Show(c, x) ==
  /\ shown' = [shown EXCEPT ![c] = Append(@, x)]
  /\ cpc' = [cpc EXCEPT ![c] = "prompt"]
  /\ UNCHANGED <<server, sent>>

Receive(c) ==
  /\ cpc[c] = "wait" /\ ~err[c]
  /\ \E p \in Accepted(c) : Take(p) /\ Show(c, p.data)
  /\ UNCHANGED err

(* read gives -1, which nobody looks at: the line that was typed is printed *)
(* as the server's message.                                                 *)
ReadFails(c) ==
  /\ cpc[c] = "wait" /\ err[c]
  /\ err' = [err EXCEPT ![c] = FALSE]
  /\ Show(c, Own)
  /\ UNCHANGED network

(* Another host sends to the client's port.                                 *)
Stray(c) ==
  /\ Intrude(Packet(c, "back", Foreign))
  /\ UNCHANGED echo

EchoNext ==
  \/ StartServer \/ StopServer \/ RecvFrom \/ SendTo \/ Unreachable
  \/ \E c \in Hosts : SendLine(c) \/ Leave(c) \/ Receive(c) \/ ReadFails(c) \/ Stray(c)
  \/ Trouble /\ UNCHANGED echo

-----------------------------------------------------------------------------
(* The clients number nothing, so their only order is to wait for one       *)
(* answer before the next line.  While nothing intrudes, that suffices: the *)
(* j-th message shown is the answer to the j-th line.  Whatever intrudes, a *)
(* message is the answer to an earlier line or, unless the socket is        *)
(* connected, a stranger's, and no line comes back more often than once and *)
(* as many times as datagrams intruded.  A client waits in vain only if     *)
(* something of its own was lost.                                           *)
Times(c, i) == Cardinality({j \in DOMAIN shown[c] : shown[c][j] = i})

AnswersOwn ==
  program \in EchoPrograms => \A c \in Hosts :
    /\ \A j \in DOMAIN shown[c] :
         shown[c][j] \in 1..j \cup (IF Connected THEN {Own} ELSE {Foreign})
    /\ extra[c] = 0 => \A j \in DOMAIN shown[c] : shown[c][j] \in {j, Own}
    /\ \A i \in 1..sent[c] : Times(c, i) <= 1 + extra[c]
    /\ cpc[c] = "wait" => OnItsWay(c) \/ held.of = c \/ err[c] \/ c \in lost
=============================================================================

------------------------------- MODULE TcpConn -------------------------------
(***************************************************************************)
(* One established TCP connection as the servers of this repository see it *)
(* through read(2), write(2) and close(2) on a blocking socket.  The       *)
(* kernel is not under src/, so every definition here is external: it is   *)
(* what the calls in ch12, ch17 and ch18 rely on.                          *)
(*                                                                         *)
(* A connection is a record:                                               *)
(*   peer  what the other end has done:                                    *)
(*           "none"  not connected yet                                     *)
(*           "open"  connected                                             *)
(*           "fin"   closed, and its FIN has arrived: read gives 0         *)
(*           "err"   closed with unread input: ECONNRESET is pending       *)
(*           "pipe"  reset after its FIN: EPIPE is pending, write SIGPIPE  *)
(*           "rst"   reset, nothing pending: read gives 0, write SIGPIPE   *)
(*   sent  how many pieces of data the peer has written so far             *)
(*   in    the pieces that have arrived and that nobody has read           *)
(*   out   everything written to the peer, oldest first                    *)
(*   seen  how many elements of out the peer has read                      *)
(* A piece is a stretch of the byte stream that is never split here; one   *)
(* read returns any number of consecutive pieces.                          *)
(***************************************************************************)
EXTENDS Integers, Sequences

CONSTANT Window    \* how many unread elements of out the socket buffers hold

ASSUME WindowAssumption == Window \in Nat \ {0}

PeerStates == {"none", "open", "fin", "err", "pipe", "rst"}
ConnType   == [peer : PeerStates, sent : Nat, in : Seq(Nat), out : Seq(Nat),
               seen : Nat]

NoConn == [peer |-> "none", sent |-> 0, in |-> <<>>, out |-> <<>>, seen |-> 0]

Closed(k) == k.peer \in {"fin", "err", "pipe", "rst"}

(* The peer's side: connect, write one piece, read one element, close.      *)
Dial(k)    == [k EXCEPT !.peer = "open"]
Send(k)    == [k EXCEPT !.sent = @ + 1, !.in = Append(@, k.sent + 1)]
Receive(k) == [k EXCEPT !.seen = @ + 1]
HangUp(k)  == [k EXCEPT !.peer = IF k.seen < Len(k.out) THEN "err" ELSE "fin"]

(* read(2): the data first, then the pending error once, then end of file.  *)
DataReady(k)  == k.in # <<>>
ErrorReady(k) == k.in = <<>> /\ k.peer \in {"err", "pipe"}
EofReady(k)   == k.in = <<>> /\ k.peer \in {"fin", "rst"}

Taken(k, n)  == SubSeq(k.in, 1, n)
Left(k, n)   == [k EXCEPT !.in = SubSeq(@, n + 1, Len(@))]
ErrorSeen(k) == [k EXCEPT !.peer = "rst"]

(* write(2) blocks while the buffers are full.  The first write to a closed *)
(* peer succeeds and provokes a reset, which the next write may or may not  *)
(* find; a write to a reset connection raises SIGPIPE, which kills a        *)
(* process that has not changed its disposition.                            *)
Writable(k) == k.peer = "open" => Len(k.out) - k.seen < Window
Fatal(k)    == k.peer \in {"pipe", "rst"}
Written(k, x) ==
  CASE k.peer = "open" -> {[k EXCEPT !.out = Append(@, x)]}
    [] k.peer = "fin"  -> {k, [k EXCEPT !.peer = "pipe"]}
    [] k.peer = "err"  -> {[k EXCEPT !.peer = "rst"]}
    [] OTHER           -> {k}

(* What a client has sent after its first b pieces: the pieces h, which the *)
(* server has read and still holds, then those nobody has read, in order    *)
(* and without a gap.                                                       *)
InTransit(k, b, h) ==
  /\ b + Len(h) + Len(k.in) = k.sent
  /\ \A j \in 1..Len(h) : h[j] = b + j
  /\ \A j \in 1..Len(k.in) : k.in[j] = b + Len(h) + j
==============================================================================

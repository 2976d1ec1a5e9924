----------------------------- MODULE PaddedEcho -----------------------------
(***************************************************************************)
(* The echo service of a server that may write its whole buffer where it   *)
(* should write what it has read, as ch17/echo_epollserv.cpp does: a       *)
(* client gets back the pieces it sent, each once and in the order it sent *)
(* them, and between them padding: what the buffer held before, that is    *)
(* old text of any client, or nothing that anybody wrote.                  *)
(***************************************************************************)
EXTENDS Integers, Sequences

CONSTANTS
  Clients,
  Padding,   \* stands for an element that is no piece of the answer
  Unset      \* memory nobody has written to

VARIABLES
  sent,      \* sent[c]: how many pieces c has sent; the pieces are 1..sent[c]
  echoed,    \* echoed[c]: what c has been sent back, oldest first
  leak,      \* what the last padding was: the piece x of client d is <<d, x>>
  pads       \* whether the server pads; it never changes

vars == <<sent, echoed, leak, pads>>

Init ==
  /\ sent = [c \in Clients |-> 0]
  /\ echoed = [c \in Clients |-> <<>>]
  /\ leak = Unset
  /\ pads \in BOOLEAN

Send(c) ==
  /\ sent' = [sent EXCEPT ![c] = @ + 1]
  /\ UNCHANGED <<echoed, leak, pads>>

Echoed(c, x) == \E j \in DOMAIN echoed[c] : echoed[c][j] = x

(* The next piece is the first that was not echoed.                         *)
Echo(c) ==
  /\ \E x \in 1..sent[c] :
       /\ ~Echoed(c, x) /\ \A y \in 1..x - 1 : Echoed(c, y)
       /\ echoed' = [echoed EXCEPT ![c] = Append(@, x)]
  /\ UNCHANGED <<sent, leak, pads>>

(* Text that was sent before, by anybody.                                   *)
Old(x) == x = Unset \/ \E d \in Clients : \E n \in 1..sent[d] : x = <<d, n>>

Pad(c) ==
  /\ pads
  /\ echoed' = [echoed EXCEPT ![c] = Append(@, Padding)]
  /\ Old(leak')
  /\ UNCHANGED <<sent, pads>>

Next == \E c \in Clients : Send(c) \/ Echo(c) \/ Pad(c)

Spec == Init /\ [][Next]_vars
==============================================================================

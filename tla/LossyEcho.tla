------------------------------ MODULE LossyEcho ------------------------------
(***************************************************************************)
(* What is left of the echo service when the answer to a client may be     *)
(* dropped, as ch17/echo_epetserv.cpp does when a buffer is full: what a   *)
(* client gets back are pieces it sent, none twice and none out of order.  *)
(***************************************************************************)
EXTENDS Integers, Sequences

CONSTANT Clients

VARIABLES
  sent,    \* sent[c]: how many pieces c has sent; the pieces are 1..sent[c]
  echoed   \* echoed[c]: what c has been sent back, oldest first

vars == <<sent, echoed>>

Init ==
  /\ sent = [c \in Clients |-> 0]
  /\ echoed = [c \in Clients |-> <<>>]

Send(c) ==
  /\ sent' = [sent EXCEPT ![c] = @ + 1]
  /\ UNCHANGED echoed

(* The next piece is later than all that came before; some may be skipped.  *)
Echo(c) ==
  /\ \E x \in 1..sent[c] :
       /\ \A j \in DOMAIN echoed[c] : echoed[c][j] < x
       /\ echoed' = [echoed EXCEPT ![c] = Append(@, x)]
  /\ UNCHANGED sent

Next == \E c \in Clients : Send(c) \/ Echo(c)

Spec == Init /\ [][Next]_vars
==============================================================================

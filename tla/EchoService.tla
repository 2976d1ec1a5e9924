----------------------------- MODULE EchoService -----------------------------
(***************************************************************************)
(* What every echo server of the repository (ch4, ch10, ch12, ch17) is     *)
(* for: a client gets back the pieces it sent, each once, in the order it  *)
(* sent them, and nothing else.  A server may stop in the middle.          *)
(***************************************************************************)
EXTENDS Integers, Sequences

CONSTANT Clients

VARIABLES
  sent,    \* sent[c]: how many pieces c has sent; the pieces are 1..sent[c]
  echoed   \* echoed[c]: what c has been sent back, oldest first

vars == <<sent, echoed>>

Init ==
  /\ sent = [c \in Clients |-> 0]
  /\ echoed = [c \in Clients |-> <<>>]

Send(c) ==
  /\ sent' = [sent EXCEPT ![c] = @ + 1]
  /\ UNCHANGED echoed

Echo(c) ==
  /\ Len(echoed[c]) < sent[c]
  /\ echoed' = [echoed EXCEPT ![c] = Append(@, Len(@) + 1)]
  /\ UNCHANGED sent

Next == \E c \in Clients : Send(c) \/ Echo(c)

Spec == Init /\ [][Next]_vars
==============================================================================

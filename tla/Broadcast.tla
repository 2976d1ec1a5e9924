------------------------------ MODULE Broadcast ------------------------------
(***************************************************************************)
(* What the chat server promises to its clients, without sockets, threads  *)
(* or locks: messages are published one after the other, and whoever       *)
(* receives a message receives it while it is the newest one.  So no two   *)
(* clients ever see two messages in opposite orders.  A message may miss a *)
(* client, and may reach it twice: the promise is about order only.        *)
(***************************************************************************)
EXTENDS Integers, Sequences

CONSTANT Receivers

VARIABLES
  published,   \* how many messages have been published
  got          \* got[r]: which of them r received, in the order it did

vars == <<published, got>>

Init ==
  /\ published = 0
  /\ got = [r \in Receivers |-> <<>>]

Publish ==
  /\ published' = published + 1
  /\ UNCHANGED got

Deliver(r) ==
  /\ published > 0
  /\ got' = [got EXCEPT ![r] = Append(@, published)]
  /\ UNCHANGED published

Next == Publish \/ \E r \in Receivers : Deliver(r)

Spec == Init /\ [][Next]_vars

(* Every receiver gets messages in publication order: of two it has got,    *)
(* it got the one published first first.                                    *)
InOrder(s) == \A a, b \in 1..Len(s) : a < b => s[a] <= s[b]
TotalOrder == \A r \in Receivers : InOrder(got[r])
==============================================================================

------------------------------ MODULE Datagram ------------------------------
(***************************************************************************)
(* UDP: what is sent may be lost, come twice and in any order, but always  *)
(* whole.  The network is not under src/, so every definition here is      *)
(* external.                                                               *)
(***************************************************************************)
EXTENDS Integers, Sequences, FiniteSets, Bags

CONSTANTS
  Hosts,        \* the processes that receive, other than an echo server
  MaxExtra,     \* bound: datagrams of each that come although not sent
  BUF_SIZE      \* bytes of the buffers of news_sender and its receivers

ASSUME DatagramAssumption ==
  /\ MaxExtra \in Nat
  /\ BUF_SIZE \in Nat /\ BUF_SIZE > 1

VARIABLES
  program,      \* the programs that run, by the name of one file; never changes
  net,          \* the datagrams on their way, a bag
  lost, extra   \* history: hosts that missed a datagram; how many came to each
                \* that nobody, or not its partner, had sent

network == <<net, lost, extra>>

(* To an echo server ("to") or from it ("back"); of a sender of news ("to").*)
Packet(h, way, data) == [of |-> h, way |-> way, data |-> data]

OnItsWay(h) == \E p \in DOMAIN net : p.of = h

DatagramInit == net = EmptyBag /\ lost = {} /\ extra = [h \in Hosts |-> 0]

Send(packets) ==
  /\ net' = net (+) SetToBag(packets)
  /\ UNCHANGED <<lost, extra>>

Take(p) ==
  /\ net' = net (-) SetToBag({p})
  /\ UNCHANGED <<lost, extra>>

Lose(p) ==
  /\ net' = net (-) SetToBag({p}) /\ lost' = lost \cup {p.of}
  /\ UNCHANGED extra

Intrude(p) ==
  /\ extra[p.of] < MaxExtra
  /\ net' = net (+) SetToBag({p}) /\ extra' = [extra EXCEPT ![p.of] = @ + 1]
  /\ UNCHANGED lost

Trouble == \E p \in DOMAIN net : Lose(p) \/ Intrude(p)
=============================================================================

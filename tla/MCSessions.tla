----------------------------- MODULE MCSessions -----------------------------
(***************************************************************************)
(* All the programs that serve one client at a time.  Which pair runs is   *)
(* chosen at the start.                                                    *)
(***************************************************************************)
EXTENDS EchoDialogue, Calculator, Transfer

Few == {-3, 1, 3}    \* operands; 1 is also the code of an operator

Init == SessionInit /\ program \in EchoPrograms \cup TransferPrograms \cup {"op_server"}

Server ==
  \/ program \in EchoPrograms /\ EchoServer
  \/ program = "op_server" /\ CalcServer
  \/ program \in TransferPrograms /\ TransferServer

Client(c) ==
  \/ program \in EchoPrograms /\ EchoClient(c)
  \/ program = "op_server" /\ CalcClient(c)
  \/ program \in TransferPrograms /\ TransferClient(c)

(* echo_mpclient's other process.                                           *)
Writer(c) == program \in EchoPrograms /\ WriteRoutine(c)

(* Bounds: only one client calls op_server; only one client of the others   *)
(* is interrupted.                                                          *)
User(c) ==
  \/ program # "op_server" /\ Interrupt(c) /\ \A d \in Clients : cpc[d] # "gone"
  \/ program \in EchoPrograms /\ EchoUser(c)
  \/ program = "op_server" /\ CalcUser(c) /\ \A d \in Clients \ {c} : cpc[d] = "off"
  \/ program \in TransferPrograms /\ Start(c)

Next ==
  /\ Server \/ \E c \in Clients : Client(c) \/ Writer(c) \/ User(c)
  /\ UNCHANGED program

Spec == Init /\ [][Next]_vars

(* Every process runs whenever it can; nobody has to connect or to type.    *)
Fairness ==
  /\ WF_vars(Server /\ UNCHANGED program)
  /\ \A c \in Clients : /\ WF_vars(Client(c) /\ UNCHANGED program)
                          /\ WF_vars(Writer(c) /\ UNCHANGED program)

FairSpec == Spec /\ Fairness
=============================================================================

---------------------------- MODULE MCDatagrams -----------------------------
(***************************************************************************)
(* All the UDP programs.  Which ones run is chosen at the start; the state *)
(* of the others stays as it is.                                           *)
(***************************************************************************)
EXTENDS UdpEcho, News

(* Texts of two lines, which may be empty, the last one with or without NL. *)
NewsFiles ==
  {[i \in 1..m + n |-> IF i = m \/ (i = m + n /\ nl) THEN NL ELSE i] :
     m \in 0..4, n \in 0..4, nl \in BOOLEAN} \ {<<>>}

Init ==
  /\ program \in EchoPrograms \cup NewsPrograms
  /\ DatagramInit /\ EchoInit
  /\ IF program \in NewsPrograms THEN NewsInit
     ELSE /\ file = <<>> /\ pos = 0 /\ last = <<>> /\ more = FALSE
          /\ joined = {} /\ PageInit /\ early = {}

Next ==
  /\ \/ program \in EchoPrograms /\ EchoNext /\ UNCHANGED news
     \/ program \in NewsPrograms /\ NewsNext /\ UNCHANGED echo
  /\ UNCHANGED program

Spec == Init /\ [][Next]_<<program, network, echo, news>>
=============================================================================

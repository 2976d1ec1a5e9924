---------------------------- MODULE MCForkServer ----------------------------
(* The instance of ForkServer for TLC: one client, Talker, types twice, the  *)
(* others once.  Children are stopped and continued in echo_mpserv only; the  *)
(* handler of echo_storeserv is the same.                                   *)
EXTENDS ForkServer

CONSTANT Talker

OneTalker == [c \in Clients |-> IF c = Talker THEN 2 ELSE 1]
InMpserv  == [p \in Programs |-> IF p = "echo_mpserv" THEN 2 ELSE 0]
=============================================================================

---------------------------- MODULE MCChatServer ----------------------------
(* Instances of ChatServer for TLC.  Where all clients type one piece, they  *)
(* and the handler threads are interchangeable, and their permutations are a *)
(* symmetry, used for the invariant SendsToAll; in MCChatServer_race.cfg one *)
(* client, Talker, types twice.                                              *)
EXTENDS ChatServer, TLC

CONSTANT Talker

Symmetry  == Permutations(Clients) \cup Permutations(Threads)
OnePiece  == [c \in Clients |-> 1]
OneTalker == [c \in Clients |-> IF c = Talker THEN 2 ELSE 1]
==============================================================================

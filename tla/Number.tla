------------------------------- MODULE Number -------------------------------
(***************************************************************************)
(* What the programs of ch18 with a global number have in common: main     *)
(* creates threads whose loops change num, and in the end it is printed.   *)
(* Counter and Semaphore are the programs.                                 *)
(***************************************************************************)
EXTENDS Integers, Sequences

CONSTANTS
  Rounds,    \* iterations of each thread's loop
  None

ASSUME NumberAssumption ==
  /\ Rounds \in Nat
  /\ None \notin Int

VARIABLES
  num,       \* the global
  mpc,       \* main: what it does
  result     \* what was printed

NumberInit == num = 0 /\ mpc = "create" /\ result = None
=============================================================================

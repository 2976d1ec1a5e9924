------------------------------- MODULE OneSlot -------------------------------
(***************************************************************************)
(* A channel with room for one value: it is put, then taken, and nothing   *)
(* is put before the last value was taken.  This is what ch18/semaphore.cpp *)
(* builds from a variable and two semaphores.                              *)
(***************************************************************************)
EXTENDS Integers, Sequences

CONSTANT Values

VARIABLES put, taken    \* all values put and taken so far

vars == <<put, taken>>

Init == put = <<>> /\ taken = <<>>

Put ==
  /\ Len(put) = Len(taken)
  /\ \E v \in Values : put' = Append(put, v)
  /\ UNCHANGED taken

Take ==
  /\ Len(taken) < Len(put)
  /\ taken' = Append(taken, put[Len(taken) + 1])
  /\ UNCHANGED put

Next == Put \/ Take

Spec == Init /\ [][Next]_vars
==============================================================================

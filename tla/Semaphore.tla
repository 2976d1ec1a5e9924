------------------------------ MODULE Semaphore ------------------------------
(***************************************************************************)
(* ch18/semaphore.cpp: thread read puts the numbers of standard input into *)
(* num, one after the other, and thread accu adds them up; sem_one counts  *)
(* values to add, sem_two free places.  A std::cin that has failed leaves  *)
(* num alone, and the rounds go on.                                        *)
(***************************************************************************)
EXTENDS Number

CONSTANT Inputs    \* the numbers that may be typed

ASSUME SemaphoreAssumption == Inputs \subseteq Int

VARIABLES
  sem_one, sem_two,         \* the globals
  fail,                     \* std::cin.fail()
  ri, rpc,                  \* read: rounds done, position
  ai, apc, sum,             \* accu: rounds done, position, its sum
  put, taken                \* history: the values handed over at each end

reader == <<ri, rpc>>
adder  == <<ai, apc, sum>>
sems   == <<sem_one, sem_two>>
semVars   == <<sems, num, fail, reader, adder, mpc, result, put, taken>>

SemInit ==
  /\ NumberInit
  /\ sem_one = 0 /\ sem_two = 1 /\ fail = FALSE
  /\ ri = 0 /\ rpc = "new"
  /\ ai = 0 /\ apc = "new" /\ sum = 0
  /\ put = <<>> /\ taken = <<>>

-----------------------------------------------------------------------------
(* Thread read *)

ReadWait ==
  /\ rpc = "wait" /\ ri < Rounds
  /\ sem_two > 0 /\ sem_two' = sem_two - 1
  /\ rpc' = "cin"
  /\ UNCHANGED <<sem_one, num, fail, ri, adder, mpc, result, put, taken>>

(* A number; or text that is none, which stores 0; or the end of the input. *)
Extract ==
  IF fail THEN UNCHANGED <<num, fail>>
  ELSE \/ num' \in Inputs /\ UNCHANGED fail
       \/ num' = 0 /\ fail' = TRUE
       \/ fail' = TRUE /\ UNCHANGED num

Cin ==
  /\ rpc = "cin"
  /\ Extract
  /\ put' = Append(put, num')
  /\ rpc' = "post"
  /\ UNCHANGED <<sems, ri, adder, mpc, result, taken>>

ReadPostBoth ==    \* the semaphores mixed up
  /\ rpc = "post"
  /\ sem_one' = sem_one + 1 /\ sem_two' = sem_two + 1
  /\ ri' = ri + 1 /\ rpc' = "wait"
  /\ UNCHANGED <<num, fail, adder, mpc, result, put, taken>>

ReadPost ==
  /\ rpc = "post"
  /\ sem_one' = sem_one + 1
  /\ ri' = ri + 1 /\ rpc' = "wait"
  /\ UNCHANGED <<sem_two, num, fail, adder, mpc, result, put, taken>>

ReadReturn ==
  /\ rpc = "wait" /\ ri = Rounds
  /\ rpc' = "done"
  /\ UNCHANGED <<sems, num, fail, ri, adder, mpc, result, put, taken>>

Read == ReadWait \/ Cin \/ ReadPost \/ ReadReturn

-----------------------------------------------------------------------------
(* Thread accu *)

AccuWaitTwo ==    \* the wrong semaphore
  /\ apc = "wait" /\ ai < Rounds
  /\ sem_two > 0 /\ sem_two' = sem_two - 1
  /\ apc' = "add"
  /\ UNCHANGED <<sem_one, num, fail, reader, ai, sum, mpc, result, put, taken>>

AccuWait ==
  /\ apc = "wait" /\ ai < Rounds
  /\ sem_one > 0 /\ sem_one' = sem_one - 1
  /\ apc' = "add"
  /\ UNCHANGED <<sem_two, num, fail, reader, ai, sum, mpc, result, put, taken>>

AddNum ==
  /\ apc = "add"
  /\ sum' = sum + num
  /\ taken' = Append(taken, num)
  /\ apc' = "post"
  /\ UNCHANGED <<sems, num, fail, reader, ai, mpc, result, put>>

AccuNoPost ==
  /\ apc = "post"
  /\ ai' = ai + 1 /\ apc' = "wait"
  /\ UNCHANGED <<sems, num, fail, reader, sum, mpc, result, put, taken>>

AccuPost ==
  /\ apc = "post"
  /\ sem_two' = sem_two + 1
  /\ ai' = ai + 1 /\ apc' = "wait"
  /\ UNCHANGED <<sem_one, num, fail, reader, sum, mpc, result, put, taken>>

PrintEarly ==    \* one round short
  /\ apc = "wait" /\ ai = Rounds - 1
  /\ result' = sum
  /\ apc' = "done"
  /\ UNCHANGED <<sems, num, fail, reader, ai, sum, mpc, put, taken>>

AccuReturn ==
  /\ apc = "wait" /\ ai = Rounds
  /\ result' = sum
  /\ apc' = "done"
  /\ UNCHANGED <<sems, num, fail, reader, ai, sum, mpc, put, taken>>

Accu == AccuWait \/ AddNum \/ AccuPost \/ AccuReturn

-----------------------------------------------------------------------------
(* main *)

CreateRead ==
  /\ mpc = "create"
  /\ rpc' = "wait" /\ mpc' = "create2"
  /\ UNCHANGED <<sems, num, fail, ri, adder, result, put, taken>>

CreateAccu ==
  /\ mpc = "create2"
  /\ apc' = "wait" /\ mpc' = "join"
  /\ UNCHANGED <<sems, num, fail, reader, ai, sum, result, put, taken>>

Destroy ==    \* both joined: sem_destroy
  /\ mpc = "join" /\ rpc = "done" /\ apc = "done"
  /\ mpc' = "destroyed"
  /\ UNCHANGED <<sems, num, fail, reader, adder, result, put, taken>>

SemMain == CreateRead \/ CreateAccu \/ Destroy

SemNext == SemMain \/ Read \/ Accu

SemSpec == SemInit /\ [][SemNext]_semVars

(* Every thread runs whenever it can; somebody types, or ends the input.    *)
SemFairSpec == SemSpec /\ WF_semVars(SemMain) /\ WF_semVars(Read) /\ WF_semVars(Accu)

-----------------------------------------------------------------------------
(* Every variable keeps its type; the semaphores stay binary although       *)
(* nothing but the order of the calls makes them so.                        *)
SemTypeOK ==
  /\ sem_one \in 0..1 /\ sem_two \in 0..1
  /\ num \in Inputs \cup {0} /\ fail \in BOOLEAN
  /\ ri \in 0..Rounds /\ rpc \in {"new", "wait", "cin", "post", "done"}
  /\ ai \in 0..Rounds /\ apc \in {"new", "wait", "add", "post", "done"}
  /\ sum \in Int /\ result \in Int \cup {None}
  /\ mpc \in {"create", "create2", "join", "destroyed"}
  /\ put \in Seq(Inputs \cup {0}) /\ taken \in Seq(Inputs \cup {0})

(* num is never read while it is being written: between its wait and its    *)
(* post each thread has num to itself.                                      *)
NumExclusive == ~(rpc \in {"cin", "post"} /\ apc \in {"add", "post"})

(* The two threads and two semaphores are a channel with one place: what    *)
(* accu adds is what read got, each value once and in order.                *)
Slot == INSTANCE OneSlot WITH Values <- Inputs \cup {0}
Handover == Slot!Spec

SumOf(s) ==
  LET upto[n \in 0..Len(s)] == IF n = 0 THEN 0 ELSE upto[n - 1] + s[n]
  IN  upto[Len(s)]

(* What is printed is the sum of all rounds' values, the stale ones of a    *)
(* failed std::cin included.                                                *)
SumComplete ==
  result # None =>
    /\ Len(put) = Rounds
    /\ result = SumOf(put)

(* Both threads end, and so does the program.                               *)
Ends == <>(mpc = "destroyed")
==============================================================================

------------------------------- MODULE Counter -------------------------------
(***************************************************************************)
(* ch18/mutex.cpp and, without its mutex, ch18/thread4.cpp: main creates   *)
(* threads that add to and subtract from one number, waits for each of     *)
(* them in turn and prints the number.                                     *)
(***************************************************************************)
EXTENDS Number, FiniteSets

CONSTANT num_thread    \* threads are 0..num_thread - 1

ASSUME CounterAssumption == num_thread \in Nat

Threads == 0..num_thread - 1
Incr    == {t \in Threads : t % 2 = 1}    \* those that run thread_incr
Desc    == {t \in Threads : t % 2 = 0}    \* those that run thread_desc

VARIABLES
  mutex,            \* its owner
  i, pc,            \* per thread: rounds done; where it is in its round
  reg,              \* per thread: num as the processor holds it
  tid,              \* main: the thread it creates or waits for
  locked            \* TRUE in mutex.cpp, FALSE in thread4.cpp; it never changes

thread == <<i, pc, reg>>
main   == <<mpc, tid, result, locked>>
counterVars   == <<num, mutex, thread, main>>

CounterInit ==
  /\ NumberInit /\ mutex = None
  /\ i = [t \in Threads |-> 0]
  /\ pc = [t \in Threads |-> "new"]
  /\ reg = [t \in Threads |-> 0]
  /\ tid = 0
  /\ locked \in BOOLEAN

-----------------------------------------------------------------------------
(* thread_incr and thread_desc *)

Goto(t, l) == pc' = [pc EXCEPT ![t] = l]

LockNobodyWaits(t) ==
  /\ locked
  /\ pc[t] = "top" /\ i[t] < Rounds
  /\ Goto(t, "load")
  /\ UNCHANGED <<num, mutex, i, reg, main>>

Lock(t) ==
  /\ locked
  /\ pc[t] = "top" /\ i[t] < Rounds
  /\ mutex = None /\ mutex' = t
  /\ Goto(t, "load")
  /\ UNCHANGED <<num, i, reg, main>>

MayLoad(t) == IF locked THEN pc[t] = "load" ELSE pc[t] = "top" /\ i[t] < Rounds

Load(t) ==
  /\ MayLoad(t)
  /\ reg' = [reg EXCEPT ![t] = num]
  /\ Goto(t, "add")
  /\ UNCHANGED <<num, mutex, i, main>>

MayAdd(t) == i[t] < Rounds /\ pc[t] \in IF locked THEN {"add"} ELSE {"add", "store"}

(* Without a lock the compiler may keep num in a register for many rounds.  *)
AddTwice(t) ==
  /\ MayAdd(t)
  /\ reg' = [reg EXCEPT ![t] = IF t \in Incr THEN @ + 2 ELSE @ - 2]
  /\ i' = [i EXCEPT ![t] = @ + 1]
  /\ Goto(t, "store")
  /\ UNCHANGED <<num, mutex, main>>

Add(t) ==
  /\ MayAdd(t)
  /\ reg' = [reg EXCEPT ![t] = IF t \in Incr THEN @ + 1 ELSE @ - 1]
  /\ i' = [i EXCEPT ![t] = @ + 1]
  /\ Goto(t, "store")
  /\ UNCHANGED <<num, mutex, main>>

Store(t) ==
  /\ pc[t] = "store"
  /\ num' = reg[t]
  /\ Goto(t, IF locked THEN "unlock" ELSE "top")
  /\ UNCHANGED <<mutex, i, reg, main>>

Unlock(t) ==
  /\ pc[t] = "unlock"
  /\ mutex' = None
  /\ Goto(t, "top")
  /\ UNCHANGED <<num, i, reg, main>>

Return(t) ==
  /\ pc[t] = "top" /\ i[t] = Rounds
  /\ Goto(t, "done")
  /\ UNCHANGED <<num, mutex, i, reg, main>>

Thread(t) ==
  \/ Lock(t) \/ Load(t) \/ Add(t) \/ Store(t) \/ Unlock(t) \/ Return(t)

-----------------------------------------------------------------------------
(* main *)

Create ==
  /\ mpc = "create" /\ tid < num_thread
  /\ Goto(tid, "top")
  /\ tid' = tid + 1
  /\ UNCHANGED <<num, mutex, i, reg, mpc, result, locked>>

Created ==
  /\ mpc = "create" /\ tid = num_thread
  /\ mpc' = "join" /\ tid' = 0
  /\ UNCHANGED <<num, mutex, thread, result, locked>>

Join ==
  /\ mpc = "join" /\ tid < num_thread
  /\ pc[tid] = "done"
  /\ tid' = tid + 1
  /\ UNCHANGED <<num, mutex, thread, mpc, result, locked>>

PrintNum ==
  /\ mpc = "join" /\ tid = num_thread
  /\ result' = num
  /\ mpc' = "end"
  /\ UNCHANGED <<num, mutex, thread, tid, locked>>

CounterMain == Create \/ Created \/ Join \/ PrintNum

CounterNext == CounterMain \/ \E t \in Threads : Thread(t)

CounterSpec == CounterInit /\ [][CounterNext]_counterVars

-----------------------------------------------------------------------------
(* Every variable keeps its type.                                           *)
CounterTypeOK ==
  /\ num \in Int /\ mutex \in Threads \cup {None}
  /\ i \in [Threads -> 0..Rounds]
  /\ pc \in [Threads -> {"new", "top", "load", "add", "store", "unlock", "done"}]
  /\ reg \in [Threads -> Int]
  /\ mpc \in {"create", "join", "end"} /\ tid \in 0..num_thread
  /\ result \in Int \cup {None} /\ locked \in BOOLEAN

(* The rounds of the threads S that are over or at least in a register.     *)
Begun(S) == {r \in S \X (1..Rounds) : r[2] <= i[r[1]]}

Stored(S) ==
  {r \in S \X (1..Rounds) :
     r[2] < i[r[1]] \/ (r[2] = i[r[1]] /\ pc[r[1]] # "store")}

(* With the mutex no round is lost: at every moment num is the number of    *)
(* rounds of thread_incr less those of thread_desc that were stored.        *)
NothingLost == locked => num = Cardinality(Stored(Incr)) - Cardinality(Stored(Desc))

(* mutex.cpp prints 0 when as many threads add as subtract, after every     *)
(* thread has ended.                                                        *)
ResultIsZero ==
  locked /\ Cardinality(Incr) = Cardinality(Desc) /\ result # None => result = 0

(* thread4.cpp may print anything a lost update can leave, but nothing that *)
(* the rounds so far could not add up to.                                   *)
RaceBounds ==
  num \in -Cardinality(Begun(Desc))..Cardinality(Begun(Incr))
==============================================================================

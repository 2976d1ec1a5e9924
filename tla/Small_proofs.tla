---------------------------- MODULE Small_proofs ----------------------------
(* Proofs about the small programs: ch18/mutex.cpp and ch18/thread4.cpp for  *)
(* any number of threads and rounds, ch18/semaphore.cpp for any number of    *)
(* rounds and any inputs, the web server for any clients and threads, the    *)
(* UDP echo programs for any hosts and any number of lines, and the news     *)
(* programs for any text, buffer and receivers.                              *)
EXTENDS Counter, Semaphore, WebServer, MCDatagrams, FiniteSetTheorems, SequenceTheorems, TLAPS

-----------------------------------------------------------------------------
(* ch18/mutex.cpp and ch18/thread4.cpp: what the mutex guarantees, and what *)
(* is left without.                                                         *)

(* A thread holds the mutex exactly between its lock and its unlock.         *)
Inside(t) == pc[t] \in {"load", "add", "store", "unlock"}
LockInv ==
  IF locked THEN \A t \in Threads : Inside(t) <=> mutex = t
            ELSE \A t \in Threads : pc[t] \notin {"load", "unlock"}

CounterRoundInv ==
  \A t \in Threads :
    /\ pc[t] \in {"load", "add"} => i[t] < Rounds
    /\ pc[t] = "store" => i[t] > 0
    /\ pc[t] = "done" => i[t] = Rounds

(* Nobody touches num while a thread that holds the mutex has it loaded.     *)
Delta(t) == IF t \in Incr THEN 1 ELSE -1
RegInv ==
  locked => \A t \in Threads :
    /\ pc[t] = "add" => reg[t] = num
    /\ pc[t] = "store" => reg[t] = num + Delta(t)

(* main prints after all threads have ended, in whatever order they end.     *)
CounterMainInv ==
  /\ mpc = "create" => \A t \in Threads : t >= tid => pc[t] = "new"
  /\ mpc = "join" => \A t \in Threads : t < tid => pc[t] = "done"
  /\ mpc = "end" => result = num /\ \A t \in Threads : pc[t] = "done"
  /\ mpc # "end" => result = None

CounterInv == CounterTypeOK /\ LockInv /\ CounterRoundInv /\ RegInv /\ CounterMainInv /\
  NothingLost

-----------------------------------------------------------------------------

LEMMA TypeInit == CounterInit => CounterTypeOK
BY NumberAssumption, CounterAssumption DEF CounterInit, NumberInit, CounterTypeOK, Threads

LEMMA TypeStep == CounterTypeOK /\ [CounterNext]_counterVars => CounterTypeOK'
<1> SUFFICES ASSUME CounterTypeOK, [CounterNext]_counterVars PROVE CounterTypeOK'
  OBVIOUS
<1> USE NumberAssumption, CounterAssumption DEF CounterTypeOK, thread, main
<1>1. ASSUME NEW t \in Threads, Thread(t) PROVE CounterTypeOK'
  <2>1. CASE Lock(t) BY <2>1 DEF Lock, Goto
  <2>2. CASE Load(t) BY <2>2 DEF Load, Goto
  <2>3. CASE Add(t) BY <2>3 DEF Add, MayAdd, Goto
  <2>4. CASE Store(t) BY <2>4 DEF Store, Goto
  <2>5. CASE Unlock(t) BY <2>5 DEF Unlock, Goto
  <2>6. CASE Return(t) BY <2>6 DEF Return, Goto
  <2> QED BY <1>1, <2>1, <2>2, <2>3, <2>4, <2>5, <2>6 DEF Thread
<1>2. CASE Create
  <2>1. tid \in Threads /\ tid + 1 \in 0..num_thread
    BY <1>2 DEF Create, Threads
  <2> QED BY <1>2, <2>1 DEF Create, Goto
<1>3. CASE Created BY <1>3 DEF Created
<1>4. CASE Join BY <1>4 DEF Join
<1>5. CASE PrintNum BY <1>5 DEF PrintNum
<1>6. CASE UNCHANGED counterVars BY <1>6 DEF counterVars
<1> QED BY <1>1, <1>2, <1>3, <1>4, <1>5, <1>6 DEF CounterNext, CounterMain

-----------------------------------------------------------------------------
(* The mutex.                                                               *)

LEMMA LockStep == CounterTypeOK /\ CounterMainInv /\ LockInv /\ [CounterNext]_counterVars
  => LockInv'
<1> SUFFICES ASSUME CounterTypeOK, CounterMainInv, LockInv, [CounterNext]_counterVars
  PROVE LockInv'
  OBVIOUS
<1> USE NumberAssumption, CounterAssumption DEF LockInv, Inside, thread, main
<1>t. /\ pc \in [Threads -> {"new", "top", "load", "add", "store", "unlock", "done"}]
      /\ tid \in 0..num_thread /\ Threads \subseteq Int
  BY DEF CounterTypeOK, Threads
<1>1. ASSUME NEW t \in Threads, Thread(t) PROVE LockInv'
  <2>1. CASE Lock(t) BY <1>t, <2>1 DEF Lock, Goto
  <2>2. CASE Load(t) BY <1>t, <2>2 DEF Load, MayLoad, Goto
  <2>3. CASE Add(t) BY <1>t, <2>3 DEF Add, MayAdd, Goto
  <2>4. CASE Store(t) BY <1>t, <2>4 DEF Store, Goto
  <2>5. CASE Unlock(t) BY <1>t, <2>5 DEF Unlock, Goto
  <2>6. CASE Return(t) BY <1>t, <2>6 DEF Return, Goto
  <2> QED BY <1>1, <2>1, <2>2, <2>3, <2>4, <2>5, <2>6 DEF Thread
<1>2. CASE Create
  <2>1. tid \in Threads /\ pc[tid] = "new"
    BY <1>2, <1>t DEF Create, Threads, CounterMainInv
  <2> QED BY <1>2, <2>1, <1>t DEF Create, Goto
<1>3. CASE Created \/ Join \/ PrintNum \/ UNCHANGED counterVars
  BY <1>3 DEF Created, Join, PrintNum, counterVars
<1> QED BY <1>1, <1>2, <1>3 DEF CounterNext, CounterMain

LEMMA CounterRoundStep == CounterTypeOK /\ CounterRoundInv /\ [CounterNext]_counterVars
  => CounterRoundInv'
<1> SUFFICES ASSUME CounterTypeOK, CounterRoundInv, [CounterNext]_counterVars PROVE
  CounterRoundInv'
  OBVIOUS
<1> USE NumberAssumption, CounterAssumption DEF CounterRoundInv, thread, main
<1>t. /\ pc \in [Threads -> {"new", "top", "load", "add", "store", "unlock", "done"}]
      /\ i \in [Threads -> 0..Rounds]
  BY DEF CounterTypeOK
<1>1. ASSUME NEW t \in Threads, Thread(t) PROVE CounterRoundInv'
  <2>1. CASE Lock(t) BY <1>t, <2>1 DEF Lock, Goto
  <2>2. CASE Load(t) BY <1>t, <2>2 DEF Load, MayLoad, Goto
  <2>3. CASE Add(t) BY <1>t, <2>3 DEF Add, MayAdd, Goto
  <2>4. CASE Store(t) BY <1>t, <2>4 DEF Store, Goto
  <2>5. CASE Unlock(t) BY <1>t, <2>5 DEF Unlock, Goto
  <2>6. CASE Return(t) BY <1>t, <2>6 DEF Return, Goto
  <2> QED BY <1>1, <2>1, <2>2, <2>3, <2>4, <2>5, <2>6 DEF Thread
<1>2. CASE Create BY <1>2, <1>t DEF Create, Goto
<1>3. CASE Created \/ Join \/ PrintNum \/ UNCHANGED counterVars
  BY <1>3 DEF Created, Join, PrintNum, counterVars
<1> QED BY <1>1, <1>2, <1>3 DEF CounterNext, CounterMain

LEMMA RegStep == CounterTypeOK /\ LockInv /\ RegInv /\ [CounterNext]_counterVars =>
  RegInv'
<1> SUFFICES ASSUME CounterTypeOK, LockInv, RegInv, [CounterNext]_counterVars, locked'
  PROVE RegInv'
  BY DEF RegInv
<1>0. locked
  BY DEF CounterNext, CounterMain, Create, Created, Join, PrintNum, Thread, Lock, Load,
    Add, Store,
     Unlock, Return, counterVars, main
<1> USE NumberAssumption, CounterAssumption DEF RegInv, Delta, thread, main
<1>t. /\ pc \in [Threads -> {"new", "top", "load", "add", "store", "unlock", "done"}]
      /\ reg \in [Threads -> Int] /\ num \in Int
  BY DEF CounterTypeOK
<1>1. ASSUME NEW t \in Threads, Thread(t) PROVE RegInv'
  <2>1. CASE Lock(t) BY <1>t, <1>0, <2>1 DEF Lock, Goto
  <2>2. CASE Load(t) BY <1>t, <1>0, <2>2 DEF Load, Goto
  <2>3. CASE Add(t) BY <1>t, <1>0, <2>3 DEF Add, MayAdd, Goto
  <2>4. CASE Store(t)
    <3>1. \A u \in Threads : u # t => pc[u] \notin {"add", "store"}
      BY <1>0, <2>4 DEF LockInv, Inside, Store
    <3> QED BY <1>t, <1>0, <2>4, <3>1 DEF Store, Goto
  <2>5. CASE Unlock(t) BY <1>t, <1>0, <2>5 DEF Unlock, Goto
  <2>6. CASE Return(t) BY <1>t, <1>0, <2>6 DEF Return, Goto
  <2> QED BY <1>1, <2>1, <2>2, <2>3, <2>4, <2>5, <2>6 DEF Thread
<1>2. CASE Create BY <1>2, <1>0, <1>t DEF Create, Goto
<1>3. CASE Created \/ Join \/ PrintNum \/ UNCHANGED counterVars
  BY <1>3, <1>0 DEF Created, Join, PrintNum, counterVars
<1> QED BY <1>1, <1>2, <1>3 DEF CounterNext, CounterMain

LEMMA CounterMainStep == CounterTypeOK /\ CounterMainInv /\ [CounterNext]_counterVars =>
  CounterMainInv'
<1> SUFFICES ASSUME CounterTypeOK, CounterMainInv, [CounterNext]_counterVars PROVE
  CounterMainInv'
  OBVIOUS
<1> USE NumberAssumption, CounterAssumption DEF CounterMainInv, thread, main
<1>t. /\ pc \in [Threads -> {"new", "top", "load", "add", "store", "unlock", "done"}]
      /\ tid \in 0..num_thread /\ \A t \in Threads : t \in Int /\ t < num_thread
  BY DEF CounterTypeOK, Threads
<1>1. ASSUME NEW t \in Threads, Thread(t) PROVE CounterMainInv'
  <2>1. pc[t] \notin {"new", "done"} /\ UNCHANGED main
    BY <1>1, <1>t DEF Thread, Lock, Load, MayLoad, Add, MayAdd, Store, Unlock, Return
  <2>2. \A u \in Threads : u # t => pc'[u] = pc[u]
    BY <1>1, <1>t DEF Thread, Lock, Load, Add, Store, Unlock, Return, Goto
  <2> QED BY <2>1, <2>2, <1>t
<1>2. CASE Create BY <1>2, <1>t DEF Create, Goto
<1>3. CASE Created BY <1>3, <1>t DEF Created, Threads
<1>4. CASE Join BY <1>4, <1>t DEF Join
<1>5. CASE PrintNum BY <1>5, <1>t DEF PrintNum
<1>6. CASE UNCHANGED counterVars BY <1>6 DEF counterVars
<1> QED BY <1>1, <1>2, <1>3, <1>4, <1>5, <1>6 DEF CounterNext, CounterMain

-----------------------------------------------------------------------------
(* Counting rounds.                                                         *)

LEMMA GridFinite ==
  ASSUME NEW S \in SUBSET Threads
  PROVE  /\ IsFiniteSet(S) /\ IsFiniteSet(1..Rounds)
         /\ \A R \in SUBSET (S \X (1..Rounds)) : IsFiniteSet(R) /\ Cardinality(R) \in Nat
<1>1. IsFiniteSet(Threads)
  BY FS_Interval, NumberAssumption, CounterAssumption DEF Threads
<1>2. IsFiniteSet(1..Rounds)
  BY FS_Interval, NumberAssumption, CounterAssumption
<1>3. IsFiniteSet(S)
  BY <1>1, FS_Subset
<1>4. IsFiniteSet(S \X (1..Rounds))
  BY <1>2, <1>3, FS_Product
<1>5. ASSUME NEW R \in SUBSET (S \X (1..Rounds)) PROVE IsFiniteSet(R) /\ Cardinality(R)
  \in Nat
  <2>1. IsFiniteSet(R) BY <1>4, FS_Subset
  <2> QED BY <2>1, FS_CardinalityType
<1> QED BY <1>2, <1>3, <1>5

(* A store adds the current round of its thread, and nothing else does.     *)
LEMMA StoredFrame ==
  ASSUME CounterTypeOK, CounterRoundInv, CounterMainInv, LockInv,
    [CounterNext]_counterVars, locked, NEW S \in SUBSET Threads,
         \A t \in Threads : ~Store(t)
  PROVE  Stored(S)' = Stored(S)
<1> USE NumberAssumption, CounterAssumption DEF thread, main
<1>t. /\ pc \in [Threads -> {"new", "top", "load", "add", "store", "unlock", "done"}]
      /\ i \in [Threads -> 0..Rounds] /\ tid \in 0..num_thread
      /\ Threads \subseteq Int
  BY DEF CounterTypeOK, Threads
<1>1. ASSUME NEW t \in Threads, Add(t) PROVE Stored(S)' = Stored(S)
  <2>1. pc[t] = "add" /\ i' = [i EXCEPT ![t] = @ + 1] /\ pc' = [pc EXCEPT ![t] = "store"]
    BY <1>1 DEF Add, MayAdd, Goto
  <2>2. ASSUME NEW u \in S, NEW r \in 1..Rounds
        PROVE  (r < i'[u] \/ (r = i'[u] /\ pc'[u] # "store"))
                 <=> (r < i[u] \/ (r = i[u] /\ pc[u] # "store"))
    <3>1. CASE u = t
      <4>1. i'[u] = i[t] + 1 /\ pc'[u] = "store" /\ i[t] \in 0..Rounds
        BY <2>1, <3>1, <1>t
      <4> QED BY <4>1, <2>1, <3>1
    <3>2. CASE u # t
      BY <2>1, <3>2, <1>t
    <3> QED BY <3>1, <3>2
  <2> QED BY <2>2 DEF Stored
<1>2. ASSUME UNCHANGED i, \A u \in Threads : pc'[u] = "store" <=> pc[u] = "store"
      PROVE  Stored(S)' = Stored(S)
  BY <1>2 DEF Stored
<1>3. ASSUME NEW t \in Threads, Lock(t) \/ Load(t) \/ Unlock(t) \/ Return(t)
      PROVE  Stored(S)' = Stored(S)
  <2>1. UNCHANGED i /\ \A u \in Threads : pc'[u] = "store" <=> pc[u] = "store"
    BY <1>3, <1>t DEF Lock, Load, MayLoad, Unlock, Return, Goto
  <2> QED BY <2>1, <1>2
<1>4. CASE Create
  <2>1. tid \in Threads /\ pc[tid] = "new"
    BY <1>4, <1>t DEF Create, Threads, CounterMainInv
  <2>2. UNCHANGED i /\ \A u \in Threads : pc'[u] = "store" <=> pc[u] = "store"
    BY <1>4, <2>1, <1>t DEF Create, Goto
  <2> QED BY <2>2, <1>2
<1>5. CASE Created \/ Join \/ PrintNum \/ UNCHANGED counterVars
  <2>1. UNCHANGED <<i, pc>>
    BY <1>5 DEF Created, Join, PrintNum, counterVars
  <2> QED BY <2>1, <1>2
<1> QED BY <1>1, <1>3, <1>4, <1>5 DEF CounterNext, CounterMain, Thread

LEMMA StoredStore ==
  ASSUME CounterTypeOK, CounterRoundInv, locked, NEW S \in SUBSET Threads, NEW t \in
    Threads, Store(t)
  PROVE  Stored(S)' = (IF t \in S THEN Stored(S) \cup {<<t, i[t]>>} ELSE Stored(S))
         /\ <<t, i[t]>> \notin Stored(S)
<1>1. /\ pc \in [Threads -> {"new", "top", "load", "add", "store", "unlock", "done"}]
      /\ i \in [Threads -> 0..Rounds]
  BY DEF CounterTypeOK
<1>2. pc[t] = "store" /\ i' = i /\ pc' = [pc EXCEPT ![t] = "unlock"]
  BY DEF Store, Goto
<1>3. i[t] \in 1..Rounds
  BY <1>1, <1>2 DEF CounterRoundInv
<1>4. \A u \in Threads : pc'[u] = IF u = t THEN "unlock" ELSE pc[u]
  BY <1>1, <1>2
<1>5. ASSUME NEW u \in S, NEW r \in 1..Rounds
      PROVE  (r < i'[u] \/ (r = i'[u] /\ pc'[u] # "store"))
               <=> (r < i[u] \/ (r = i[u] /\ pc[u] # "store")) \/ (u = t /\ r = i[t])
  BY <1>1, <1>2, <1>3, <1>4
<1>6. \A q \in S \X (1..Rounds) : q = <<t, i[t]>> <=> q[1] = t /\ q[2] = i[t]
  OBVIOUS
<1> QED BY <1>2, <1>3, <1>5, <1>6 DEF Stored

LEMMA LostStep ==
  CounterTypeOK /\ LockInv /\ CounterRoundInv /\ RegInv /\ CounterMainInv /\ NothingLost
    /\ [CounterNext]_counterVars
    => NothingLost'
<1> SUFFICES ASSUME CounterTypeOK, LockInv, CounterRoundInv, RegInv, CounterMainInv,
  NothingLost, [CounterNext]_counterVars,
                    locked'
             PROVE  NothingLost'
  BY DEF NothingLost
<1>0. locked
  BY DEF CounterNext, CounterMain, Create, Created, Join, PrintNum, Thread, Lock, Load,
    Add, Store,
     Unlock, Return, counterVars, main
<1>1. Incr \subseteq Threads /\ Desc \subseteq Threads /\ Incr \cap Desc = {}
      /\ Incr \cup Desc = Threads
  BY NumberAssumption, CounterAssumption DEF Incr, Desc, Threads
<1> DEFINE a == Cardinality(Stored(Incr))
           b == Cardinality(Stored(Desc))
<1>2. a \in Nat /\ b \in Nat /\ num = a - b /\ num \in Int
  <2>1. a \in Nat BY <1>1, GridFinite DEF Stored
  <2>2. b \in Nat BY <1>1, GridFinite DEF Stored
  <2>3. num = a - b BY <1>0 DEF NothingLost
  <2> QED BY <2>1, <2>2, <2>3
<1>3. ASSUME NEW t \in Threads, Store(t) PROVE NothingLost'
  <2>1. num' = num + Delta(t)
    BY <1>0, <1>3 DEF Store, RegInv
  <2>2. IsFiniteSet(Stored(Incr)) /\ IsFiniteSet(Stored(Desc))
    BY <1>1, GridFinite DEF Stored
  <2>3. CASE t \in Incr
    <3>1. Stored(Incr)' = Stored(Incr) \cup {<<t, i[t]>>} /\ <<t, i[t]>> \notin
      Stored(Incr)
      BY <1>0, <1>1, <1>3, <2>3, StoredStore
    <3>2. Stored(Desc)' = Stored(Desc)
      BY <1>0, <1>1, <1>3, <2>3, StoredStore
    <3>3. Cardinality(Stored(Incr)') = a + 1
      BY <2>2, <3>1, FS_AddElement
    <3>4. num' = (a + 1) - b
      BY <1>2, <2>1, <2>3 DEF Delta
    <3> QED BY <3>2, <3>3, <3>4 DEF NothingLost
  <2>4. CASE t \notin Incr
    <3>0. t \in Desc BY <1>1, <2>4
    <3>1. Stored(Desc)' = Stored(Desc) \cup {<<t, i[t]>>} /\ <<t, i[t]>> \notin
      Stored(Desc)
      BY <1>0, <1>1, <1>3, <3>0, StoredStore
    <3>2. Stored(Incr)' = Stored(Incr)
      BY <1>0, <1>1, <1>3, <2>4, StoredStore
    <3>3. Cardinality(Stored(Desc)') = b + 1
      BY <2>2, <3>1, FS_AddElement
    <3>4. num' = a - (b + 1)
      BY <1>2, <2>1, <2>4 DEF Delta
    <3> QED BY <3>2, <3>3, <3>4 DEF NothingLost
  <2> QED BY <2>3, <2>4
<1>4. CASE \A t \in Threads : ~Store(t)
  <2>1. Stored(Incr)' = Stored(Incr) /\ Stored(Desc)' = Stored(Desc)
    BY <1>0, <1>1, <1>4, StoredFrame
  <2>2. num' = num
    BY <1>4 DEF CounterNext, CounterMain, Create, Created, Join, PrintNum, Thread, Lock,
      Load, Add, Unlock,
       Return, counterVars
  <2> QED BY <2>1, <2>2, <1>0 DEF NothingLost
<1> QED BY <1>3, <1>4

LEMMA LostInit == CounterInit => NothingLost
<1> SUFFICES ASSUME CounterInit PROVE NothingLost
  OBVIOUS
<1>1. Stored(Incr) = {} /\ Stored(Desc) = {}
  BY NumberAssumption, CounterAssumption DEF CounterInit, NumberInit, Stored, Incr, Desc, Threads
<1>2. num = 0 /\ Cardinality({}) = 0
  BY FS_EmptySet DEF CounterInit, NumberInit
<1> QED BY <1>1, <1>2 DEF NothingLost

LEMMA CounterInductive == CounterSpec => []CounterInv
<1>1. CounterInit => CounterInv
  <2> SUFFICES ASSUME CounterInit PROVE CounterInv
    OBVIOUS
  <2>1. LockInv /\ CounterRoundInv /\ RegInv /\ CounterMainInv
    BY NumberAssumption, CounterAssumption DEF CounterInit, NumberInit, LockInv, Inside,
      CounterRoundInv, RegInv, CounterMainInv, Threads
  <2> QED BY <2>1, TypeInit, LostInit DEF CounterInv
<1>2. CounterInv /\ [CounterNext]_counterVars => CounterInv'
  BY TypeStep, LockStep, CounterRoundStep, RegStep, CounterMainStep, LostStep DEF
    CounterInv
<1> QED BY <1>1, <1>2, PTL DEF CounterSpec

(* Every variable keeps its type.                                           *)
THEOREM CounterTypeCorrect == CounterSpec => []CounterTypeOK
BY CounterInductive, PTL DEF CounterInv

(* In mutex.cpp no addition and no subtraction is lost.                     *)
THEOREM NoUpdateLost == CounterSpec => []NothingLost
BY CounterInductive, PTL DEF CounterInv

(* mutex.cpp prints 0 when as many threads add as subtract.                 *)
THEOREM PrintsZero == CounterSpec => []ResultIsZero
<1>1. CounterInv => ResultIsZero
  <2> SUFFICES ASSUME CounterInv, locked, Cardinality(Incr) = Cardinality(Desc), result #
    None
               PROVE  result = 0
    BY DEF ResultIsZero
  <2>1. result = num /\ \A t \in Threads : pc[t] = "done" /\ i[t] = Rounds
    BY DEF CounterInv, CounterMainInv, CounterRoundInv
  <2>2. Incr \subseteq Threads /\ Desc \subseteq Threads
    BY DEF Incr, Desc
  <2>3. Stored(Incr) = Incr \X (1..Rounds) /\ Stored(Desc) = Desc \X (1..Rounds)
    <3>1. ASSUME NEW S \in SUBSET Threads PROVE Stored(S) = S \X (1..Rounds)
      BY <2>1, NumberAssumption, CounterAssumption DEF Stored
    <3> QED BY <2>2, <3>1
  <2>4. Cardinality(Stored(Incr)) = Cardinality(Incr) * Cardinality(1..Rounds)
    BY <2>2, <2>3, GridFinite, FS_Product
  <2>5. Cardinality(Stored(Desc)) = Cardinality(Desc) * Cardinality(1..Rounds)
    BY <2>2, <2>3, GridFinite, FS_Product
  <2>6. num = Cardinality(Stored(Incr)) - Cardinality(Stored(Desc))
        /\ Cardinality(Stored(Desc)) \in Nat
    <3>1. Cardinality(Stored(Desc)) \in Nat
      BY <2>2, GridFinite DEF Stored
    <3> QED BY <3>1 DEF CounterInv, NothingLost
  <2>7. Cardinality(Stored(Incr)) = Cardinality(Stored(Desc))
    BY <2>4, <2>5
  <2> QED BY <2>1, <2>6, <2>7
<1> QED BY <1>1, CounterInductive, PTL

-----------------------------------------------------------------------------
(* Without the mutex: what a lost update can and cannot do.                 *)

Span == -Cardinality(Begun(Desc))..Cardinality(Begun(Incr))

RaceInv ==
  /\ num \in Span
  /\ \A t \in Threads : pc[t] \in {"add", "store"} => reg[t] \in Span

LEMMA BegunAdd ==
  ASSUME CounterTypeOK, NEW S \in SUBSET Threads, NEW t \in Threads, Add(t)
  PROVE  /\ Begun(S)' = (IF t \in S THEN Begun(S) \cup {<<t, i[t] + 1>>} ELSE Begun(S))
         /\ <<t, i[t] + 1>> \notin Begun(S)
<1>1. i \in [Threads -> 0..Rounds] /\ i[t] + 1 \in 1..Rounds
      /\ i' = [i EXCEPT ![t] = @ + 1]
  BY NumberAssumption, CounterAssumption DEF CounterTypeOK, Add, MayAdd
<1>2. ASSUME NEW u \in S, NEW r \in 1..Rounds
      PROVE  r <= i'[u] <=> r <= i[u] \/ (u = t /\ r = i[t] + 1)
  <2>1. i[u] \in Int /\ i[t] \in Int /\ i'[u] = IF u = t THEN i[t] + 1 ELSE i[u]
    BY <1>1
  <2> QED BY <2>1
<1>3. \A q \in S \X (1..Rounds) : q = <<t, i[t] + 1>> <=> q[1] = t /\ q[2] = i[t] + 1
  OBVIOUS
<1>4. <<t, i[t] + 1>> \notin Begun(S)
  BY <1>1 DEF Begun
<1> QED BY <1>1, <1>2, <1>3, <1>4 DEF Begun

LEMMA RaceStep == CounterTypeOK /\ RaceInv /\ [CounterNext]_counterVars => RaceInv'
<1> SUFFICES ASSUME CounterTypeOK, RaceInv, [CounterNext]_counterVars PROVE RaceInv'
  OBVIOUS
<1> USE NumberAssumption, CounterAssumption
<1> DEFINE a == Cardinality(Begun(Incr))
           b == Cardinality(Begun(Desc))
<1>t. /\ pc \in [Threads -> {"new", "top", "load", "add", "store", "unlock", "done"}]
      /\ reg \in [Threads -> Int] /\ num \in Int
  BY DEF CounterTypeOK
<1>s. Incr \subseteq Threads /\ Desc \subseteq Threads /\ Incr \cap Desc = {}
      /\ Incr \cup Desc = Threads
  BY DEF Incr, Desc, Threads
<1>n. a \in Nat /\ b \in Nat /\ IsFiniteSet(Begun(Incr)) /\ IsFiniteSet(Begun(Desc))
  BY <1>s, GridFinite DEF Begun
<1>1. ASSUME NEW t \in Threads, Add(t) PROVE RaceInv'
  <2>1. \/ Cardinality(Begun(Incr)') = a + 1 /\ Begun(Desc)' = Begun(Desc) /\ t \in Incr
        \/ Begun(Incr)' = Begun(Incr) /\ Cardinality(Begun(Desc)') = b + 1 /\ t \notin
          Incr
    <3>1. CASE t \in Incr
      <4>1. Begun(Incr)' = Begun(Incr) \cup {<<t, i[t] + 1>>}
            /\ <<t, i[t] + 1>> \notin Begun(Incr)
        BY <1>1, <1>s, <3>1, BegunAdd
      <4>2. Begun(Desc)' = Begun(Desc)
        BY <1>1, <1>s, <3>1, BegunAdd
      <4> QED BY <4>1, <4>2, <3>1, <1>n, FS_AddElement
    <3>2. CASE t \notin Incr
      <4>0. t \in Desc BY <1>s, <3>2
      <4>1. Begun(Desc)' = Begun(Desc) \cup {<<t, i[t] + 1>>}
            /\ <<t, i[t] + 1>> \notin Begun(Desc)
        BY <1>1, <1>s, <4>0, BegunAdd
      <4>2. Begun(Incr)' = Begun(Incr)
        BY <1>1, <1>s, <3>2, BegunAdd
      <4> QED BY <4>1, <4>2, <3>2, <1>n, FS_AddElement
    <3> QED BY <3>1, <3>2
  <2>2. Span' = IF t \in Incr THEN -b..a + 1 ELSE -(b + 1)..a
    BY <2>1 DEF Span
  <2>3. /\ num' = num /\ pc[t] \in {"add", "store"}
        /\ reg' = [reg EXCEPT ![t] = IF t \in Incr THEN @ + 1 ELSE @ - 1]
        /\ pc' = [pc EXCEPT ![t] = "store"]
    BY <1>1 DEF Add, MayAdd, Goto
  <2>4. num \in -b..a /\ \A u \in Threads : pc[u] \in {"add", "store"} => reg[u] \in -b..a
    BY DEF RaceInv, Span
  <2> HIDE DEF a, b
  <2>5. num' \in Span'
    BY <1>n, <2>2, <2>3, <2>4
  <2>6. ASSUME NEW u \in Threads, pc'[u] \in {"add", "store"} PROVE reg'[u] \in Span'
    <3>1. CASE u = t
      <4>1. reg[t] \in -b..a BY <2>3, <2>4
      <4>2. reg'[t] = IF t \in Incr THEN reg[t] + 1 ELSE reg[t] - 1
        BY <2>3, <1>t
      <4> QED BY <1>n, <2>2, <3>1, <4>1, <4>2
    <3>2. CASE u # t
      <4>1. reg'[u] = reg[u] /\ pc'[u] = pc[u] BY <2>3, <3>2, <1>t
      <4>2. reg[u] \in -b..a BY <2>6, <4>1, <2>4
      <4> QED BY <1>n, <2>2, <4>1, <4>2
    <3> QED BY <3>1, <3>2
  <2> QED BY <2>5, <2>6 DEF RaceInv
<1>2. CASE \A t \in Threads : ~Add(t)
  <2>0. [Create \/ Created \/ Join \/ PrintNum
         \/ \E t \in Threads : Lock(t) \/ Load(t) \/ Store(t) \/ Unlock(t) \/
           Return(t)]_counterVars
    BY <1>2 DEF CounterNext, CounterMain, Thread
  <2>1. i' = i
    BY <2>0 DEF Create, Created, Join, PrintNum, Lock, Load, Store, Unlock, Return,
       counterVars, thread
  <2>2. Span' = Span
    BY <2>1 DEF Span, Begun
  <2>3. ASSUME NEW t \in Threads, Load(t) PROVE RaceInv'
    BY <1>t, <2>2, <2>3 DEF RaceInv, Load, Goto
  <2>4. ASSUME NEW t \in Threads, Store(t) PROVE RaceInv'
    BY <1>t, <2>2, <2>4 DEF RaceInv, Store, Goto
  <2>5. ASSUME NEW t \in Threads, Lock(t) \/ Unlock(t) \/ Return(t) PROVE RaceInv'
    <3>1. num' = num /\ reg' = reg
          /\ \A u \in Threads : pc'[u] \in {"add", "store"} => pc[u] \in {"add", "store"}
      BY <1>t, <2>5 DEF Lock, Unlock, Return, Goto
    <3> QED BY <2>2, <3>1 DEF RaceInv
  <2>6. CASE Create
    <3>1. num' = num /\ reg' = reg
          /\ \A u \in Threads : pc'[u] \in {"add", "store"} => pc[u] \in {"add", "store"}
      BY <1>t, <2>6 DEF Create, Goto
    <3> QED BY <2>2, <3>1 DEF RaceInv
  <2>7. CASE Created \/ Join \/ PrintNum \/ UNCHANGED counterVars
    BY <2>2, <2>7 DEF RaceInv, Created, Join, PrintNum, counterVars, thread
  <2> QED BY <2>0, <2>3, <2>4, <2>5, <2>6, <2>7
<1> QED BY <1>1, <1>2

(* However many updates thread4.cpp loses, num stays between what the       *)
(* subtractions and what the additions begun so far add up to.              *)
THEOREM LossIsBounded == CounterSpec => []RaceBounds
<1>1. CounterInit => RaceInv
  <2> SUFFICES ASSUME CounterInit PROVE RaceInv
    OBVIOUS
  <2>1. Begun(Incr) = {} /\ Begun(Desc) = {}
    BY NumberAssumption, CounterAssumption DEF CounterInit, NumberInit, Begun, Incr, Desc, Threads
  <2>2. Span = 0..0
    BY <2>1, FS_EmptySet DEF Span
  <2> QED BY <2>2, NumberAssumption, CounterAssumption DEF CounterInit, NumberInit, RaceInv, Threads
<1>2. RaceInv => RaceBounds
  BY DEF RaceInv, Span, RaceBounds
<1> QED BY <1>1, <1>2, RaceStep, CounterTypeCorrect, PTL DEF CounterSpec

-----------------------------------------------------------------------------
(* ch18/semaphore.cpp                                                       *)

Reading == rpc \in {"cin", "post"}
Adding  == apc \in {"add", "post"}

(* One token goes round: it is a free place, then read's, then a value to   *)
(* add, then accu's.  How far put is ahead of taken follows from where it   *)
(* is.                                                                      *)
Vacant    == sem_two = 1 /\ sem_one = 0 /\ ~Reading /\ ~Adding
HasRead == sem_two = 0 /\ sem_one = 0 /\ Reading /\ ~Adding
Full    == sem_two = 0 /\ sem_one = 1 /\ ~Reading /\ ~Adding
HasAccu == sem_two = 0 /\ sem_one = 0 /\ ~Reading /\ Adding
TokenInv == Vacant \/ HasRead \/ Full \/ HasAccu

Ahead == Full \/ (HasRead /\ rpc = "post") \/ (HasAccu /\ apc = "add")
LengthInv ==
  /\ ~Ahead => Len(put) = Len(taken)
  /\ Ahead => Len(put) = Len(taken) + 1 /\ num = put[Len(put)]

SemRoundInv ==
  /\ Len(put) = ri + IF rpc = "post" THEN 1 ELSE 0
  /\ Reading => ri < Rounds
  /\ Adding => ai < Rounds
  /\ rpc = "done" => ri = Rounds
  /\ rpc = "new" => ri = 0

SemBasicInv ==
  /\ num \in Inputs \cup {0} /\ fail \in BOOLEAN
  /\ ri \in 0..Rounds /\ rpc \in {"new", "wait", "cin", "post", "done"}
  /\ ai \in 0..Rounds /\ apc \in {"new", "wait", "add", "post", "done"}
  /\ sum \in Int /\ result \in Int \cup {None}
  /\ mpc \in {"create", "create2", "join", "destroyed"}
  /\ put \in Seq(Inputs \cup {0}) /\ taken \in Seq(Inputs \cup {0})

SemInv == SemBasicInv /\ TokenInv /\ LengthInv

LEMMA SemInvType == SemInv => SemTypeOK
BY DEF SemInv, SemBasicInv, TokenInv, SemTypeOK, Vacant, HasRead, Full, HasAccu

-----------------------------------------------------------------------------

LEMMA SemBasicStep == SemBasicInv /\ SemRoundInv /\ [SemNext]_semVars => SemBasicInv'
<1> SUFFICES ASSUME SemBasicInv, SemRoundInv, [SemNext]_semVars PROVE SemBasicInv'
  OBVIOUS
<1> USE NumberAssumption, SemaphoreAssumption DEF SemBasicInv, reader, adder, sems
<1>1. CASE ReadWait BY <1>1 DEF ReadWait
<1>2. CASE Cin
  <2>1. num' \in Inputs \cup {0} /\ fail' \in BOOLEAN
    BY <1>2 DEF Cin, Extract
  <2> QED BY <1>2, <2>1 DEF Cin
<1>3. CASE ReadPost BY <1>3 DEF ReadPost, SemRoundInv, Reading
<1>4. CASE ReadReturn BY <1>4 DEF ReadReturn
<1>5. CASE AccuWait BY <1>5 DEF AccuWait
<1>6. CASE AddNum BY <1>6 DEF AddNum
<1>7. CASE AccuPost BY <1>7 DEF AccuPost, SemRoundInv, Adding
<1>8. CASE AccuReturn BY <1>8 DEF AccuReturn
<1>9. CASE SemMain \/ UNCHANGED semVars
  BY <1>9 DEF SemMain, CreateRead, CreateAccu, Destroy, semVars
<1> QED BY <1>1, <1>2, <1>3, <1>4, <1>5, <1>6, <1>7, <1>8, <1>9 DEF SemNext, Read, Accu

(* The threads exist before they take the token: main creates them once.    *)
SemMainInv ==
  /\ mpc = "create" => rpc = "new"
  /\ mpc \in {"create", "create2"} => apc = "new"

LEMMA SemMainStep == SemMainInv /\ [SemNext]_semVars => SemMainInv'
BY DEF SemMainInv, SemNext, SemMain, CreateRead, CreateAccu, Destroy, Read, ReadWait,
  Cin, ReadPost,
   ReadReturn, Accu, AccuWait, AddNum, AccuPost, AccuReturn, semVars, reader, adder, sems

LEMMA TokenStep == SemBasicInv /\ SemMainInv /\ TokenInv /\ [SemNext]_semVars => TokenInv'
<1> SUFFICES ASSUME SemBasicInv, SemMainInv, TokenInv, [SemNext]_semVars PROVE TokenInv'
  OBVIOUS
<1> USE DEF TokenInv, Vacant, HasRead, Full, HasAccu, Reading, Adding, reader, adder, sems
<1>1. CASE ReadWait BY <1>1 DEF ReadWait
<1>2. CASE Cin BY <1>2 DEF Cin
<1>3. CASE ReadPost BY <1>3 DEF ReadPost
<1>4. CASE ReadReturn BY <1>4 DEF ReadReturn
<1>5. CASE AccuWait BY <1>5 DEF AccuWait
<1>6. CASE AddNum BY <1>6 DEF AddNum
<1>7. CASE AccuPost BY <1>7 DEF AccuPost
<1>8. CASE AccuReturn BY <1>8 DEF AccuReturn
<1>9. CASE SemMain \/ UNCHANGED semVars
  BY <1>9 DEF SemMain, CreateRead, CreateAccu, Destroy, semVars, SemMainInv
<1> QED BY <1>1, <1>2, <1>3, <1>4, <1>5, <1>6, <1>7, <1>8, <1>9 DEF SemNext, Read, Accu

LEMMA SemRoundStep == SemBasicInv /\ SemMainInv /\ SemRoundInv /\ [SemNext]_semVars =>
  SemRoundInv'
<1> SUFFICES ASSUME SemBasicInv, SemMainInv, SemRoundInv, [SemNext]_semVars PROVE
  SemRoundInv'
  OBVIOUS
<1> USE NumberAssumption, SemaphoreAssumption DEF SemBasicInv, SemRoundInv, Reading,
  Adding, reader, adder, sems
<1>1. CASE ReadWait BY <1>1 DEF ReadWait
<1>2. CASE Cin
  <2>1. Len(put') = Len(put) + 1
    BY <1>2, SemBasicStep DEF Cin, Extract
  <2> QED BY <1>2, <2>1 DEF Cin
<1>3. CASE ReadPost BY <1>3 DEF ReadPost
<1>4. CASE ReadReturn BY <1>4 DEF ReadReturn
<1>5. CASE AccuWait BY <1>5 DEF AccuWait
<1>6. CASE AddNum BY <1>6 DEF AddNum
<1>7. CASE AccuPost BY <1>7 DEF AccuPost
<1>8. CASE AccuReturn BY <1>8 DEF AccuReturn
<1>9. CASE SemMain \/ UNCHANGED semVars
  BY <1>9 DEF SemMain, CreateRead, CreateAccu, Destroy, semVars, SemMainInv
<1> QED BY <1>1, <1>2, <1>3, <1>4, <1>5, <1>6, <1>7, <1>8, <1>9 DEF SemNext, Read, Accu

LEMMA LengthStep ==
  SemBasicInv /\ SemBasicInv' /\ SemMainInv /\ TokenInv /\ LengthInv /\ [SemNext]_semVars
    => LengthInv'
<1> SUFFICES ASSUME SemBasicInv, SemBasicInv', SemMainInv, TokenInv, LengthInv,
  [SemNext]_semVars
             PROVE  LengthInv'
  OBVIOUS
<1> USE DEF TokenInv, LengthInv, Ahead, Vacant, HasRead, Full, HasAccu, Reading, Adding,
        reader, adder, sems
<1>0. put \in Seq(Inputs \cup {0}) /\ taken \in Seq(Inputs \cup {0})
      /\ num' \in Inputs \cup {0} /\ num \in Inputs \cup {0}
  BY DEF SemBasicInv
<1>1. CASE ReadWait BY <1>1 DEF ReadWait
<1>2. CASE Cin
  <2>1. put' = Append(put, num') /\ Len(put') = Len(put) + 1 /\ put'[Len(put')] = num'
    BY <1>0, <1>2 DEF Cin
  <2>2. Len(put) = Len(taken)
    BY <1>2 DEF Cin
  <2> QED BY <1>2, <2>1, <2>2 DEF Cin
<1>3. CASE ReadPost BY <1>3 DEF ReadPost
<1>4. CASE ReadReturn BY <1>4 DEF ReadReturn
<1>5. CASE AccuWait BY <1>5 DEF AccuWait
<1>6. CASE AddNum
  <2>1. Len(taken') = Len(taken) + 1
    BY <1>0, <1>6 DEF AddNum
  <2>2. Len(put) = Len(taken) + 1
    BY <1>6 DEF AddNum
  <2> QED BY <1>6, <2>1, <2>2 DEF AddNum
<1>7. CASE AccuPost BY <1>7 DEF AccuPost
<1>8. CASE AccuReturn BY <1>8 DEF AccuReturn
<1>9. CASE SemMain \/ UNCHANGED semVars
  BY <1>9 DEF SemMain, CreateRead, CreateAccu, Destroy, semVars, SemMainInv
<1> QED BY <1>1, <1>2, <1>3, <1>4, <1>5, <1>6, <1>7, <1>8, <1>9 DEF SemNext, Read, Accu

LEMMA SemInductive == SemSpec => [](SemInv /\ SemRoundInv /\ SemMainInv)
<1> DEFINE J == SemInv /\ SemRoundInv /\ SemMainInv
<1>1. SemInit => J
  <2> SUFFICES ASSUME SemInit PROVE J
    OBVIOUS
  <2>1. SemBasicInv
    <3>1. <<>> \in Seq(Inputs \cup {0}) /\ 0 \in 0..Rounds
      BY NumberAssumption, SemaphoreAssumption
    <3>2. fail \in BOOLEAN
      BY Zenon DEF SemInit, NumberInit
    <3> QED BY <3>1, <3>2 DEF SemInit, NumberInit, SemBasicInv
  <2>2. Vacant /\ ~Ahead
    BY DEF SemInit, NumberInit, Ahead, Vacant, HasRead, Full, HasAccu, Reading, Adding
  <2>3. put = <<>> /\ taken = <<>> /\ Len(<<>>) = 0
    BY DEF SemInit, NumberInit
  <2>4. SemRoundInv /\ SemMainInv
    BY <2>3 DEF SemInit, NumberInit, SemRoundInv, SemMainInv, Reading, Adding
  <2> QED BY <2>1, <2>2, <2>3, <2>4 DEF SemInv, TokenInv, LengthInv
<1>2. J /\ [SemNext]_semVars => J'
  BY SemBasicStep, TokenStep, SemRoundStep, LengthStep, SemMainStep DEF SemInv
<1> QED BY <1>1, <1>2, PTL DEF SemSpec

(* Every variable keeps its type; both semaphores stay binary.              *)
THEOREM SemTypeCorrect == SemSpec => []SemTypeOK
BY SemInductive, SemInvType, PTL

(* num is never written by one thread while the other may use it.           *)
THEOREM NumIsExclusive == SemSpec => []NumExclusive
<1>1. SemInv => NumExclusive
  BY DEF SemInv, TokenInv, Vacant, HasRead, Full, HasAccu, Reading, Adding, NumExclusive
<1> QED BY <1>1, SemInductive, PTL

(* The program implements a channel with one place.                         *)
THEOREM ImplementsOneSlot == SemSpec => Handover
<1>1. SemInit => Slot!Init
  BY DEF SemInit, NumberInit, Slot!Init
<1>2. SemInv /\ SemBasicInv' /\ [SemNext]_semVars => [Slot!Next]_(Slot!vars)
  <2> SUFFICES ASSUME SemInv, SemBasicInv', [SemNext]_semVars PROVE
    [Slot!Next]_(Slot!vars)
    OBVIOUS
  <2>1. CASE Cin
    <3>1. Len(put) = Len(taken)
      BY <2>1 DEF Cin, SemInv, TokenInv, LengthInv, Ahead, Vacant, HasRead, Full, HasAccu,
         Reading, Adding
    <3>2. put' = Append(put, num') /\ num' \in Inputs \cup {0} /\ taken' = taken
      BY <2>1 DEF Cin, SemBasicInv
    <3> QED BY <3>1, <3>2 DEF Slot!Next, Slot!Put
  <2>2. CASE AddNum
    <3>1. Len(put) = Len(taken) + 1 /\ num = put[Len(put)]
      BY <2>2 DEF AddNum, SemInv, TokenInv, LengthInv, Ahead, Vacant, HasRead, Full,
        HasAccu,
         Reading, Adding
    <3>2. taken' = Append(taken, put[Len(taken) + 1]) /\ put' = put
      BY <2>2, <3>1 DEF AddNum
    <3>3. Len(taken) < Len(put)
      BY <3>1 DEF SemInv, SemBasicInv
    <3> QED BY <3>2, <3>3 DEF Slot!Next, Slot!Take
  <2>3. CASE ~Cin /\ ~AddNum
    <3>1. UNCHANGED <<put, taken>>
      BY <2>3 DEF SemNext, SemMain, CreateRead, CreateAccu, Destroy, Read, ReadWait,
        ReadPost,
         ReadReturn, Accu, AccuWait, AccuPost, AccuReturn, semVars
    <3> QED BY <3>1 DEF Slot!vars
  <2> QED BY <2>1, <2>2, <2>3
<1>3. SemInv => SemBasicInv
  BY DEF SemInv
<1> QED BY <1>1, <1>2, <1>3, SemInductive, PTL DEF SemSpec, Handover, Slot!Spec

-----------------------------------------------------------------------------
(* The sum.  SumOf picks a function that satisfies its recursion; that one  *)
(* exists, and that all of them agree on the sum, is carried along with     *)
(* every value that is added.                                               *)
Recursion(f, s) == f = [n \in 0..Len(s) |-> IF n = 0 THEN 0 ELSE f[n - 1] + s[n]]
SumsTo(s, v) ==
  /\ \E f : Recursion(f, s)
  /\ \A f : Recursion(f, s) => f[Len(s)] = v

LEMMA SumsToSum == ASSUME NEW s, NEW v, SumsTo(s, v) PROVE SumOf(s) = v
<1> DEFINE g == CHOOSE f : Recursion(f, s)
<1>1. Recursion(g, s)
  BY Zenon DEF SumsTo
<1>2. g[Len(s)] = v
  BY <1>1, Zenon DEF SumsTo
<1>3. SumOf(s) = g[Len(s)]
  BY Zenon DEF SumOf, Recursion
<1> QED BY <1>2, <1>3

LEMMA SumsToNothing == SumsTo(<<>>, 0)
<1>1. Len(<<>>) = 0 /\ 0..0 = {0}
  OBVIOUS
<1> DEFINE f == [n \in 0..0 |-> 0]
<1>2. Recursion(f, <<>>)
  BY <1>1 DEF Recursion
<1>3. ASSUME NEW h, Recursion(h, <<>>) PROVE h[0] = 0
  BY <1>1, <1>3 DEF Recursion
<1> QED BY <1>1, <1>2, <1>3 DEF SumsTo

LEMMA SumsToAppend ==
  ASSUME NEW s \in Seq(Int), NEW v \in Int, NEW x \in Int, SumsTo(s, v)
  PROVE  SumsTo(Append(s, x), v + x)
<1> DEFINE t == Append(s, x)
           m == Len(s)
<1>1. m \in Nat /\ Len(t) = m + 1 /\ t[m + 1] = x /\ \A n \in 1..m : t[n] = s[n]
  OBVIOUS
<1> HIDE DEF t, m
<1>2. \E f : Recursion(f, t)
  <2>1. PICK g : Recursion(g, s)
    BY DEF SumsTo
  <2>2. g[m] = v
    BY <2>1 DEF SumsTo, m
  <2> DEFINE f == [n \in 0..m + 1 |-> IF n = m + 1 THEN v + x ELSE g[n]]
  <2>3. ASSUME NEW n \in 0..m + 1
        PROVE  f[n] = IF n = 0 THEN 0 ELSE f[n - 1] + t[n]
    <3>0. \A j \in 0..m : g[j] = IF j = 0 THEN 0 ELSE g[j - 1] + s[j]
      BY <2>1 DEF Recursion, m
    <3>1. CASE n = m + 1
      <4>1. f[n] = v + x /\ m \in 0..m + 1 /\ m # m + 1 /\ n - 1 = m /\ n # 0
        BY <1>1, <3>1
      <4>2. f[m] = g[m]
        BY <4>1
      <4> QED BY <1>1, <2>2, <3>1, <4>1, <4>2
    <3>2. CASE n = 0
      BY <1>1, <3>0, <3>2
    <3>3. CASE n \in 1..m
      <4>1. n - 1 \in 0..m /\ n \in 0..m /\ n # m + 1 /\ n - 1 # m + 1 /\ n # 0
        BY <1>1, <3>3
      <4>2. f[n] = g[n] /\ f[n - 1] = g[n - 1]
        BY <1>1, <4>1
      <4> QED BY <1>1, <3>0, <3>3, <4>1, <4>2
    <3> QED BY <1>1, <3>1, <3>2, <3>3
  <2>4. f = [n \in 0..m + 1 |-> IF n = 0 THEN 0 ELSE f[n - 1] + t[n]]
    BY <2>3
  <2>5. Recursion(f, t)
    BY <1>1, <2>4 DEF Recursion
  <2> QED BY <2>5
<1>3. ASSUME NEW f, Recursion(f, t) PROVE f[m + 1] = v + x
  <2>1. \A n \in 0..m + 1 : f[n] = IF n = 0 THEN 0 ELSE f[n - 1] + t[n]
    BY <1>1, <1>3 DEF Recursion
  <2> DEFINE g == [n \in 0..m |-> f[n]]
  <2>2. ASSUME NEW n \in 0..m PROVE g[n] = IF n = 0 THEN 0 ELSE g[n - 1] + s[n]
    <3>1. n \in 0..m + 1 /\ g[n] = f[n]
      BY <1>1
    <3>2. CASE n = 0
      BY <2>1, <3>1, <3>2
    <3>3. CASE n \in 1..m
      <4>1. n - 1 \in 0..m /\ n # 0
        BY <1>1, <3>3
      <4> QED BY <1>1, <2>1, <3>1, <3>3, <4>1
    <3> QED BY <1>1, <3>2, <3>3
  <2>3. g = [n \in 0..m |-> IF n = 0 THEN 0 ELSE g[n - 1] + s[n]]
    BY <2>2
  <2>4. Recursion(g, s)
    BY <2>3 DEF Recursion, m
  <2>5. g[m] = v
    BY <2>4 DEF SumsTo, m
  <2>6. m \in 0..m /\ m + 1 \in 0..m + 1 /\ m + 1 # 0 /\ m + 1 - 1 = m
    BY <1>1
  <2>7. f[m] = v
    BY <2>5, <2>6
  <2>8. f[m + 1] = f[m + 1 - 1] + t[m + 1]
    BY <2>1, <2>6
  <2> QED BY <1>1, <2>6, <2>7, <2>8
<1>4. SumsTo(t, v + x)
  BY <1>1, <1>2, <1>3 DEF SumsTo
<1> QED BY <1>4 DEF t

(* What was taken is the beginning of what was put, and sum is its sum.     *)
SumInv ==
  /\ Len(taken) = ai + IF apc = "post" THEN 1 ELSE 0
  /\ \A j \in 1..Len(taken) : taken[j] = put[j]
  /\ SumsTo(taken, sum)
  /\ apc = "new" => ai = 0
  /\ result # None => apc = "done"
  /\ apc = "done" => ai = Rounds /\ result = sum

LEMMA SumStep ==
  SemInv /\ SemBasicInv' /\ SemMainInv /\ SemRoundInv /\ SumInv /\ [SemNext]_semVars =>
    SumInv'
<1> SUFFICES ASSUME SemInv, SemBasicInv', SemMainInv, SemRoundInv, SumInv,
  [SemNext]_semVars PROVE SumInv'
  OBVIOUS
<1> USE NumberAssumption, SemaphoreAssumption DEF SumInv, reader, adder, sems
<1>b. /\ SemBasicInv /\ TokenInv /\ LengthInv
      /\ put \in Seq(Inputs \cup {0}) /\ taken \in Seq(Inputs \cup {0})
      /\ num \in Inputs \cup {0} /\ num' \in Inputs \cup {0} /\ sum \in Int /\ ai \in
        0..Rounds
  BY DEF SemInv, SemBasicInv
<1>1. CASE Cin
  <2>1. put' = Append(put, num') /\ UNCHANGED <<taken, sum, ai, apc, result>>
    BY <1>1 DEF Cin
  <2>2. Len(put) = Len(taken)
    BY <1>1, <1>b DEF Cin, LengthInv, TokenInv, Ahead, Vacant, HasRead, Full, HasAccu,
       Reading, Adding
  <2>3. \A j \in 1..Len(put) : put'[j] = put[j]
    BY <1>b, <2>1
  <2> QED BY <2>1, <2>2, <2>3
<1>2. CASE AddNum
  <2>1. /\ sum' = sum + num /\ taken' = Append(taken, num) /\ apc = "add" /\ apc' = "post"
        /\ UNCHANGED <<put, ai, result>>
    BY <1>2 DEF AddNum
  <2>2. Len(put) = Len(taken) + 1 /\ num = put[Len(put)]
    BY <1>2, <1>b DEF AddNum, LengthInv, TokenInv, Ahead, Vacant, HasRead, Full, HasAccu,
       Reading, Adding
  <2>3. /\ Len(taken') = Len(taken) + 1 /\ taken'[Len(taken) + 1] = num
        /\ \A j \in 1..Len(taken) : taken'[j] = taken[j]
        /\ Len(taken) \in Nat
    BY <1>b, <2>1
  <2>4. \A j \in 1..Len(taken') : taken'[j] = put'[j]
    BY <2>1, <2>2, <2>3
  <2>5. SumsTo(taken', sum')
    <3>1. Inputs \cup {0} \subseteq Int
      OBVIOUS
    <3>2. taken \in Seq(Int) /\ num \in Int
      BY <1>b, <3>1, SeqMonotonic
    <3> QED BY <1>b, <2>1, <3>2, SumsToAppend
  <2> QED BY <1>b, <2>1, <2>3, <2>4, <2>5
<1>3. CASE AccuPost
  BY <1>3, <1>b DEF AccuPost
<1>4. CASE AccuWait
  BY <1>4 DEF AccuWait
<1>5. CASE AccuReturn
  BY <1>5 DEF AccuReturn
<1>6. CASE ReadWait \/ ReadPost \/ ReadReturn
  BY <1>6 DEF ReadWait, ReadPost, ReadReturn
<1>7. CASE CreateRead \/ Destroy
  BY <1>7 DEF CreateRead, Destroy
<1>8. CASE CreateAccu
  BY <1>8 DEF CreateAccu, SemMainInv
<1>9. CASE UNCHANGED semVars
  BY <1>9 DEF semVars
<1> QED BY <1>1, <1>2, <1>3, <1>4, <1>5, <1>6, <1>7, <1>8, <1>9 DEF SemNext, SemMain,
  Read, Accu

(* What is printed is the sum of what was read in all the rounds, the       *)
(* values left behind by a failed std::cin included.                        *)
THEOREM SumIsComplete == SemSpec => []SumComplete
<1>1. SemInit => SumInv
  <2> SUFFICES ASSUME SemInit PROVE SumInv
    OBVIOUS
  <2>1. Len(<<>>) = 0 /\ \A j \in 1..0 : FALSE
    OBVIOUS
  <2>2. SumsTo(taken, sum)
    BY SumsToNothing DEF SemInit, NumberInit
  <2> QED BY <2>1, <2>2 DEF SemInit, NumberInit, SumInv
<1>2. SemInv /\ SemBasicInv' /\ SemMainInv /\ SemRoundInv /\ SumInv /\ [SemNext]_semVars
  => SumInv'
  BY SumStep
<1>3. SemInv /\ SemRoundInv /\ SumInv => SumComplete
  <2> SUFFICES ASSUME SemInv, SemRoundInv, SumInv, result # None
               PROVE  Len(put) = Rounds /\ result = SumOf(put)
    BY DEF SumComplete
  <2>1. /\ put \in Seq(Inputs \cup {0}) /\ taken \in Seq(Inputs \cup {0})
        /\ ri \in 0..Rounds /\ Rounds \in Nat
    BY NumberAssumption, SemaphoreAssumption DEF SemInv, SemBasicInv
  <2>2. Len(taken) = Rounds /\ result = sum /\ \A j \in 1..Len(taken) : taken[j] = put[j]
    BY <2>1 DEF SumInv
  <2>3. Len(put) <= Rounds
    BY <2>1 DEF SemRoundInv, Reading
  <2>4. Len(put) >= Len(taken)
    BY <2>1 DEF SemInv, LengthInv
  <2>5. Len(put) = Rounds
    BY <2>1, <2>2, <2>3, <2>4
  <2>6. put = taken
    BY <2>1, <2>2, <2>5, SeqEqual
  <2>7. SumOf(put) = sum
    BY <2>6, SumsToSum DEF SumInv
  <2> QED BY <2>2, <2>5, <2>7
<1>4. SemInv => SemBasicInv
  BY DEF SemInv
<1> QED BY <1>1, <1>2, <1>3, <1>4, SemInductive, PTL DEF SemSpec

-----------------------------------------------------------------------------
(* ch24/webserver.cpp, as long as every thread reads its argument before    *)
(* main's next accept: for any clients, threads and limits of descriptors.  *)

Reads(t)  == tpc[t] \in {"start", "open", "line", "answer"}
Writes(t) == tpc[t] \in {"line", "answer", "file", "send"}
Works(t)  == Reads(t) \/ Writes(t)
Serves(t) == IF Reads(t) THEN fd[meant[t]] ELSE fd[wr[t]]

WebTypeOK ==
  /\ \E limit \in Limits : fd \in [1..limit -> Clients \cup {Free, File}]
  /\ lpc \in {"accept", "create"} /\ clnt_sock \in Nat
  /\ backlog \subseteq Clients /\ unread \subseteq Clients
  /\ client \in [Clients -> {"off", "open", "gone"}]
  /\ request \in [Clients -> Kinds \cup {"none"}]
  /\ answers \in [Clients -> Seq({"page", "error"})]
  /\ tpc \in [Workers ->
       {"none", "failed", "start", "open", "line", "answer", "file", "send", "done"}]
  /\ kind \in [Workers -> Kinds \cup {"none"}]
  /\ sock \in [Workers -> Nat] /\ wr \in [Workers -> Nat]
  /\ meant \in [Workers -> Nat]
  /\ alive \in BOOLEAN /\ raced \in BOOLEAN /\ full \in BOOLEAN
  /\ left \subseteq Clients

(* A number that a thread or main uses belongs to a client, the two of one  *)
(* thread to the same.                                                      *)
Owns(t) ==
  /\ Reads(t) => fd[meant[t]] \in Clients /\ meant[t] \in DOMAIN fd
  /\ Writes(t) => fd[wr[t]] \in Clients /\ wr[t] \in DOMAIN fd
  /\ tpc[t] \in {"open", "line", "answer"} => sock[t] = meant[t]
  /\ Reads(t) /\ Writes(t) => meant[t] # wr[t] /\ fd[meant[t]] = fd[wr[t]]
OwnInv ==
  /\ \A t \in Workers : Owns(t)
  /\ lpc = "create" => fd[clnt_sock] \in Clients /\ clnt_sock \in DOMAIN fd

(* No two serve the same client.                                            *)
ApartInv ==
  \A t \in Workers : Works(t) =>
    /\ \A u \in Workers : Works(u) /\ Serves(u) = Serves(t) => u = t
    /\ lpc = "create" => Serves(t) # fd[clnt_sock]

(* Nobody is answered, and no number stands for him, before he is accepted. *)
QueueInv ==
  \A c \in Clients :
    /\ client[c] = "off" => c \notin backlog /\ request[c] = "none"
    /\ c \in unread => request[c] # "none"
    /\ client[c] = "off" \/ c \in backlog =>
         /\ answers[c] = <<>>
         /\ \A n \in DOMAIN fd : fd[n] # c
         /\ request[c] # "none" => c \in unread

(* Until its thread answers, a client has no answer, and the thread takes   *)
(* its request for what it is, or, if it is too long, for anything; who     *)
(* never asked has left.                                                    *)
Unheard(c)  == answers[c] = <<>> /\ (request[c] # "none" => c \in unread)
Asked(c, k) == /\ k # "none"
               /\ request[c] \in {k, "long"} \/ (request[c] = "none" /\ client[c] = "gone")
ServeInv ==
  /\ lpc = "create" => Unheard(fd[clnt_sock])
  /\ \A t \in Workers :
       /\ tpc[t] \in {"start", "open", "line"} => Unheard(Serves(t))
       /\ tpc[t] \in {"answer", "file", "send"} =>
            answers[Serves(t)] = <<>> /\ Asked(Serves(t), kind[t])
       /\ tpc[t] = "file" => kind[t] \in {"page", "missing"}
       /\ tpc[t] = "send" => kind[t] = "page"

AnswerInv ==
  \A c \in Clients :
    /\ Len(answers[c]) <= 1
    /\ answers[c] # <<>> => IF request[c] = "none" THEN client[c] = "gone"
                            ELSE answers[c][1] \in Right(c)

WebInv == WebTypeOK /\ (~raced => OwnInv /\ ApartInv /\ QueueInv /\ ServeInv
                                    /\ AnswerInv /\ LeakPerRequest)

(* The lowest free number, which accept, dup and fopen return, is a free one. *)
LEMMA MinUnused == WebTypeOK /\ Unused # {} => Min(Unused) \in Unused
<1> SUFFICES ASSUME WebTypeOK, Unused # {} PROVE Min(Unused) \in Unused
  OBVIOUS
<1>1. Unused \subseteq Nat
  BY WebAssumption DEF WebTypeOK, Unused
<1>2. PICK x \in Unused : \A y \in Unused : ~(<<y, x>> \in OpToRel(<, Nat))
  BY <1>1, NatLessThanWellFounded, WFMin
<1>3. \A y \in Unused : ~(y < x)
  BY <1>1, <1>2 DEF OpToRel
<1>4. \A y \in Unused : x =< y
  BY <1>1, <1>3
<1> QED BY <1>4 DEF Min

(* Every variable of the web server keeps its type, whatever the threads do. *)
LEMMA WebTypeInit == WebInit => WebTypeOK
<1> SUFFICES ASSUME WebInit PROVE WebTypeOK
  OBVIOUS
<1>1. PICK limit \in Limits : fd = [n \in 1..limit |-> Free]
  BY DEF WebInit
<1>2. fd \in [1..limit -> Clients \cup {Free, File}]
  BY <1>1
<1>3. answers \in [Clients -> Seq({"page", "error"})]
  BY DEF WebInit
<1> QED BY <1>2, <1>3 DEF WebInit, WebTypeOK

LEMMA WebTypeStep == WebTypeOK /\ [WebNext]_webVars => WebTypeOK'
<1> SUFFICES ASSUME WebTypeOK, [WebNext]_webVars PROVE WebTypeOK'
  OBVIOUS
<1>0. PICK limit \in Limits : fd \in [1..limit -> Clients \cup {Free, File}]
  BY DEF WebTypeOK
<1>m. Unused # {} => Min(Unused) \in 1..limit /\ Min(Unused) \in Nat
  BY <1>0, WebAssumption, MinUnused DEF Unused
<1> USE <1>0 DEF WebTypeOK, listener, wire, worker, hist
<1>1. CASE Accept BY <1>1, <1>m DEF Accept
<1>2. CASE AcceptFails BY <1>2 DEF AcceptFails
<1>3. CASE CreateWorker BY <1>3 DEF CreateWorker, Gotot
<1>4. ASSUME NEW t \in Workers, Worker(t) PROVE WebTypeOK'
  <2> DEFINE Replied(n, a) == Reply(n, a) /\ a \in {"page", "error"}
  <2>r. ASSUME NEW n, NEW a, Replied(n, a)
        PROVE  answers' \in [Clients -> Seq({"page", "error"})]
    BY <2>r DEF Reply
  <2> HIDE DEF Replied
  <2>1. CASE Start(t) BY <2>1 DEF Start, Gotot
  <2>2. CASE OpenStreams(t)
    <3>1. fd' \in [1..limit -> Clients \cup {Free, File}] /\ wr' \in [Workers -> Nat]
      BY <2>2, <1>m DEF OpenStreams
    <3>2. tpc' = [tpc EXCEPT ![t] = "line"] \/ tpc' = tpc
      BY <2>2 DEF OpenStreams, Gotot
    <3>3. alive' \in BOOLEAN /\ full' \in BOOLEAN
      BY <2>2 DEF OpenStreams
    <3> QED BY <2>2, <3>1, <3>2, <3>3 DEF OpenStreams
  <2>3. CASE ReadLine(t)
    <3>1. PICK k \in Kinds \cup {"none"} : kind' = [kind EXCEPT ![t] = k]
      BY <2>3 DEF ReadLine
    <3>2. unread' \subseteq unread
      BY <2>3 DEF ReadLine
    <3> QED BY <2>3, <3>1, <3>2 DEF ReadLine, Gotot
  <2>4. CASE Crash(t) BY <2>4 DEF Crash
  <2>10. CASE Overrun(t)
    <3>1. kind' = kind \/ \E k \in Kinds : kind' = [kind EXCEPT ![t] = k]
      BY <2>10 DEF Overrun
    <3> QED BY <2>10, <3>1 DEF Overrun
  <2>5. CASE Refuse(t)
    <3>1. Replied(wr[t], "error") /\ alive' \in BOOLEAN
      BY <2>5 DEF Refuse, SendError, Replied
    <3> QED BY <2>5, <2>r, <3>1 DEF Refuse, Gotot
  <2>6. CASE CloseRead(t) BY <2>6 DEF CloseRead, Gotot
  <2>7. CASE NoFile(t)
    <3>1. Replied(wr[t], "error") /\ alive' \in BOOLEAN
      BY <2>7 DEF NoFile, SendError, Replied
    <3> QED BY <2>7, <2>r, <3>1 DEF NoFile, Gotot
  <2>8. CASE OpenFile(t) BY <2>8, <1>m DEF OpenFile, Gotot
  <2>9. CASE SendPage(t)
    <3>1. Replied(wr[t], "page") /\ alive' \in BOOLEAN
      BY <2>9 DEF SendPage, Replied
    <3> QED BY <2>9, <2>r, <3>1 DEF SendPage, Gotot
  <2> QED BY <1>4, <2>1, <2>2, <2>3, <2>4, <2>5, <2>6, <2>7, <2>8, <2>9, <2>10 DEF Worker
<1>5. ASSUME NEW c \in Clients, Client(c) PROVE WebTypeOK'
  <2>1. CASE Connect(c) BY <1>5, <2>1 DEF Client, Connect
  <2>2. CASE Ask(c)
    <3>1. PICK k \in Kinds : request' = [request EXCEPT ![c] = k]
      BY <2>2 DEF Ask
    <3> QED BY <1>5, <2>2, <3>1 DEF Client, Ask
  <2>3. CASE Quit(c) BY <1>5, <2>3 DEF Client, Quit
  <2> QED BY <1>5, <2>1, <2>2, <2>3 DEF Client
<1>6. CASE UNCHANGED webVars BY <1>6 DEF webVars
<1> QED BY <1>1, <1>2, <1>3, <1>4, <1>5, <1>6 DEF WebNext, Listener

WebSafe == ~raced /\ OwnInv /\ ApartInv /\ QueueInv /\ ServeInv /\ AnswerInv

(* No number is used by two threads, or by one and by main.                 *)
LEMMA Disjoint ==
  OwnInv /\ ApartInv => \A t \in Workers :
    /\ \A u \in Workers : u # t =>
         /\ Reads(t) /\ Reads(u) => meant[t] # meant[u]
         /\ Reads(t) /\ Writes(u) => meant[t] # wr[u]
         /\ Writes(t) /\ Writes(u) => wr[t] # wr[u]
    /\ lpc = "create" => /\ Reads(t) => meant[t] # clnt_sock
                         /\ Writes(t) => wr[t] # clnt_sock
BY DEF OwnInv, Owns, ApartInv, Works, Serves

(* A thread keeps what it owns when another one moves.                      *)
LEMMA OwnsKept ==
  ASSUME NEW t \in Workers, Owns(t), DOMAIN fd' = DOMAIN fd,
         UNCHANGED <<tpc[t], meant[t], sock[t], wr[t]>>,
         Reads(t) => fd'[meant[t]] = fd[meant[t]],
         Writes(t) => fd'[wr[t]] = fd[wr[t]]
  PROVE  Owns(t)'
BY DEF Owns, Reads, Writes

(* A step after which no thread has read another's argument keeps OwnInv.   *)
LEMMA OwnStep == WebTypeOK /\ WebSafe /\ ~raced' /\ [WebNext]_webVars => OwnInv'
<1> SUFFICES ASSUME WebTypeOK, WebSafe, ~raced', [WebNext]_webVars PROVE OwnInv'
  OBVIOUS
<1>0. PICK limit \in Limits : fd \in [1..limit -> Clients \cup {Free, File}]
  BY DEF WebTypeOK
<1>m. Unused # {} => /\ Min(Unused) \in 1..limit /\ fd[Min(Unused)] = Free
                     /\ fd[Min(Unused)] \notin Clients
  BY <1>0, WebAssumption, MinUnused DEF Unused
<1>o. OwnInv /\ ApartInv
  BY DEF WebSafe
<1> USE <1>0, <1>o DEF WebTypeOK, OwnInv, Owns, listener, wire, worker, hist, Reads, Writes
<1>1. CASE Accept BY ZenonT(30), <1>1, <1>m DEF Accept
<1>2. CASE AcceptFails BY <1>2 DEF AcceptFails
<1>3. CASE CreateWorker BY <1>3 DEF CreateWorker, Gotot
<1>4. ASSUME NEW t \in Workers, Worker(t) PROVE OwnInv'
  <2>d. /\ \A u \in Workers : u # t =>
              /\ Reads(t) /\ Reads(u) => meant[t] # meant[u]
              /\ Reads(t) /\ Writes(u) => meant[t] # wr[u]
              /\ Reads(u) /\ Writes(t) => meant[u] # wr[t]
              /\ Writes(t) /\ Writes(u) => wr[t] # wr[u]
        /\ lpc = "create" => /\ Reads(t) => meant[t] # clnt_sock
                             /\ Writes(t) => wr[t] # clnt_sock
    BY Disjoint
  <2>1. CASE Start(t) BY <2>1 DEF Start, Gotot
  <2>2. CASE OpenStreams(t)
    <3>1. CASE alive'
      <4>1. /\ Unused # {} /\ wr' = [wr EXCEPT ![t] = Min(Unused)]
            /\ fd' = [fd EXCEPT ![Min(Unused)] = fd[sock[t]]]
            /\ tpc' = [tpc EXCEPT ![t] = "line"]
        BY <2>2, <3>1 DEF OpenStreams, Gotot
      <4>2. \A n \in 1..limit : fd[n] \in Clients => fd'[n] = fd[n]
        BY <1>m, <4>1
      <4>3. DOMAIN fd' = 1..limit /\ DOMAIN fd = 1..limit
        BY <4>1
      <4>4. sock[t] = meant[t] /\ meant[t] \in 1..limit /\ fd[meant[t]] \in Clients
        BY <2>2 DEF OpenStreams
      <4> HIDE DEF OwnInv, Owns, Reads, Writes
      <4>5. UNCHANGED <<lpc, clnt_sock, sock, meant>>
        BY <2>2 DEF OpenStreams
      <4>6. Owns(t)'
        <5>1. wr'[t] = Min(Unused) /\ meant'[t] = meant[t] /\ sock'[t] = meant'[t]
          BY <4>1, <4>4, <4>5
        <5>2. fd'[wr'[t]] = fd[meant[t]] /\ fd'[meant[t]] = fd[meant[t]]
          BY <1>m, <4>1, <4>2, <4>4, <5>1
        <5>3. meant[t] # wr'[t]
          BY <1>m, <4>1, <4>4, <5>1
        <5> QED BY <1>m, <4>1, <4>3, <4>4, <5>1, <5>2, <5>3 DEF Owns
      <4>7. ASSUME NEW u \in Workers, u # t PROVE Owns(u)'
        <5>1. UNCHANGED <<tpc[u], meant[u], sock[u], wr[u]>>
          BY <4>1, <4>5, <4>7
        <5>2. Reads(u) => fd'[meant[u]] = fd[meant[u]]
          BY <4>2, <4>3 DEF OwnInv, Owns
        <5>3. Writes(u) => fd'[wr[u]] = fd[wr[u]]
          BY <4>2, <4>3 DEF OwnInv, Owns
        <5> QED BY <4>3, <5>1, <5>2, <5>3, OwnsKept DEF OwnInv
      <4>8. lpc' = "create" => fd'[clnt_sock'] \in Clients /\ clnt_sock' \in DOMAIN fd'
        BY <4>2, <4>3, <4>5 DEF OwnInv
      <4> QED BY <4>6, <4>7, <4>8 DEF OwnInv
    <3>2. CASE ~alive' BY <2>2, <3>2 DEF OpenStreams
    <3> QED BY <3>1, <3>2
  <2>3. CASE ReadLine(t) BY <2>3 DEF ReadLine, Gotot
  <2>4. CASE Crash(t) BY <2>4 DEF Crash
  <2>10. CASE Overrun(t) BY <2>10 DEF Overrun
  <2>5. CASE Refuse(t) BY <2>5, <2>d DEF Refuse, Gotot
  <2>6. CASE CloseRead(t) BY <2>6, <2>d DEF CloseRead, Gotot
  <2>7. CASE NoFile(t) BY <2>7 DEF NoFile, Gotot
  <2>8. CASE OpenFile(t) BY <2>8, <1>m DEF OpenFile, Gotot
  <2>9. CASE SendPage(t) BY <2>9, <2>d DEF SendPage, Gotot
  <2> QED BY <1>4, <2>1, <2>2, <2>3, <2>4, <2>5, <2>6, <2>7, <2>8, <2>9, <2>10 DEF Worker
<1>5. ASSUME NEW c \in Clients, Client(c) PROVE OwnInv'
  BY <1>5 DEF Client
<1>6. CASE UNCHANGED webVars BY <1>6 DEF webVars
<1> QED BY <1>1, <1>2, <1>3, <1>4, <1>5, <1>6 DEF WebNext, Listener

(* What a step of one thread leaves alone: what the others serve, the       *)
(* queue, and all clients but its own; and it goes on to serve that one.    *)
ServesKept(u) ==
  /\ tpc'[u] = tpc[u] /\ kind'[u] = kind[u]
  /\ Works(u) => Serves(u)' = Serves(u)
TurnFrame(t) ==
  /\ Works(t) /\ Serves(t) \in Clients /\ (Works(t)' => Serves(t)' = Serves(t))
  /\ \A u \in Workers : u # t => ServesKept(u)
  /\ lpc' = lpc /\ clnt_sock' = clnt_sock /\ backlog' = backlog
  /\ client' = client /\ request' = request
  /\ lpc = "create" => fd'[clnt_sock] = fd[clnt_sock]
  /\ \A c \in Clients : (\A n \in DOMAIN fd : fd[n] # c) => \A n \in DOMAIN fd' : fd'[n] # c
  /\ \A c \in Clients : c # Serves(t) =>
       answers'[c] = answers[c] /\ (c \in unread' <=> c \in unread)

LEMMA Turn ==
  ASSUME WebTypeOK, WebSafe, ~raced', NEW t \in Workers, Worker(t)
  PROVE  TurnFrame(t)
<1>0. PICK limit \in Limits : fd \in [1..limit -> Clients \cup {Free, File}]
  BY DEF WebTypeOK
<1>m. Unused # {} => /\ Min(Unused) \in 1..limit /\ fd[Min(Unused)] = Free
                     /\ fd[Min(Unused)] \notin Clients
  BY <1>0, WebAssumption, MinUnused DEF Unused
<1>o. OwnInv /\ ApartInv
  BY DEF WebSafe
<1>d. /\ \A u \in Workers : u # t =>
            /\ Reads(t) /\ Reads(u) => meant[t] # meant[u]
            /\ Reads(t) /\ Writes(u) => meant[t] # wr[u]
            /\ Reads(u) /\ Writes(t) => meant[u] # wr[t]
            /\ Writes(t) /\ Writes(u) => wr[t] # wr[u]
      /\ lpc = "create" => /\ Reads(t) => meant[t] # clnt_sock
                           /\ Writes(t) => wr[t] # clnt_sock
  BY <1>o, Disjoint
<1>t. Works(t) /\ Serves(t) \in Clients
  BY <1>o DEF Worker, Start, OpenStreams, ReadLine, Crash, Overrun, Refuse, CloseRead, NoFile,
     OpenFile, SendPage, Works, Reads, Writes, Serves, OwnInv, Owns
<1>c. Free \notin Clients /\ File \notin Clients
  BY WebAssumption
<1>a. /\ lpc' = lpc /\ clnt_sock' = clnt_sock /\ backlog' = backlog
      /\ client' = client /\ request' = request /\ meant' = meant
  BY DEF Worker, Start, OpenStreams, ReadLine, Crash, Overrun, Refuse, CloseRead, NoFile, OpenFile,
     SendPage, listener, wire, hist
<1> DEFINE Mine == (IF Reads(t) THEN {meant[t]} ELSE {}) \cup (IF Writes(t) THEN {wr[t]} ELSE {})
           Frame ==
             /\ DOMAIN fd' = 1..limit
             /\ \A n \in 1..limit : fd[n] \in Clients /\ n \notin Mine => fd'[n] = fd[n]
             /\ \A n \in 1..limit : fd'[n] \in Clients => fd'[n] \in {fd[n], Serves(t)}
             /\ \A u \in Workers : u # t =>
                  tpc'[u] = tpc[u] /\ kind'[u] = kind[u] /\ wr'[u] = wr[u]
             /\ Works(t)' => Serves(t)' = Serves(t)
             /\ \A c \in Clients : c # Serves(t) =>
                  answers'[c] = answers[c] /\ (c \in unread' <=> c \in unread)
<1>1. Frame
  <2> USE <1>0, <1>t DEF WebTypeOK, listener, wire, worker, hist, Works, Reads, Writes, Serves
  <2>o. Owns(t)
    BY <1>o DEF OwnInv
  <2>1. CASE Start(t) BY <2>1, <2>o, <1>a DEF Start, Gotot, Owns
  <2>2. CASE OpenStreams(t)
    <3>0. tpc[t] = "open" /\ UNCHANGED <<answers, unread, kind>>
      BY <2>2 DEF OpenStreams
    <3>1. CASE alive'
      <4>1. /\ Unused # {} /\ wr' = [wr EXCEPT ![t] = Min(Unused)]
            /\ fd' = [fd EXCEPT ![Min(Unused)] = fd[sock[t]]]
            /\ tpc' = [tpc EXCEPT ![t] = "line"]
        BY <2>2, <3>1 DEF OpenStreams, Gotot
      <4>2. Serves(t) = fd[meant[t]] /\ sock[t] = meant[t] /\ meant[t] \in 1..limit
        BY <2>o, <3>0 DEF Owns
      <4>3. fd'[meant[t]] = fd[meant[t]]
        BY <1>m, <1>t, <4>1, <4>2
      <4>4. Serves(t)' = Serves(t)
        BY <1>a, <4>1, <4>2, <4>3
      <4> QED BY <1>m, <3>0, <4>1, <4>2, <4>4
    <3>2. CASE ~alive' BY <2>2, <3>0, <3>2, <1>a DEF OpenStreams
    <3> QED BY <3>1, <3>2
  <2>3. CASE ReadLine(t) BY <2>3, <2>o, <1>a DEF ReadLine, Gotot, Owns
  <2>4. CASE Crash(t) BY <2>4, <2>o, <1>a DEF Crash, Owns
  <2>10. CASE Overrun(t) BY <2>10, <2>o, <1>a DEF Overrun, Owns
  <2>5. CASE Refuse(t) BY <2>5, <2>o, <1>a, <1>c DEF Refuse, SendError, Reply, Gotot, Owns
  <2>6. CASE CloseRead(t) BY <2>6, <2>o, <1>a, <1>c DEF CloseRead, Gotot, Owns
  <2>7. CASE NoFile(t) BY <2>7, <2>o, <1>a DEF NoFile, SendError, Reply, Gotot, Owns
  <2>8. CASE OpenFile(t) BY <2>8, <2>o, <1>a, <1>c, <1>m DEF OpenFile, Gotot, Owns
  <2>9. CASE SendPage(t) BY <2>9, <2>o, <1>a, <1>c DEF SendPage, Reply, Gotot, Owns
  <2> QED BY <2>1, <2>2, <2>3, <2>4, <2>5, <2>6, <2>7, <2>8, <2>9, <2>10 DEF Worker
<1>2. ASSUME NEW u \in Workers, u # t PROVE ServesKept(u)
  <2>1. /\ Reads(u) => fd'[meant[u]] = fd[meant[u]]
        /\ Writes(u) => fd'[wr[u]] = fd[wr[u]]
    BY <1>0, <1>1, <1>2, <1>o, <1>d DEF OwnInv, Owns
  <2> QED BY <1>1, <1>2, <1>a, <2>1 DEF ServesKept, Works, Serves, Reads, Writes
<1>3. lpc = "create" => fd'[clnt_sock] = fd[clnt_sock]
  BY <1>0, <1>1, <1>o, <1>d DEF OwnInv
<1>4. \E n \in DOMAIN fd : fd[n] = Serves(t)
  BY <1>o, <1>t DEF OwnInv, Owns, Works, Serves
<1>5. \A c \in Clients : (\A n \in DOMAIN fd : fd[n] # c) =>
         \A n \in DOMAIN fd' : fd'[n] # c
  BY <1>0, <1>1, <1>4
<1> QED BY <1>1, <1>2, <1>3, <1>5, <1>a, <1>t DEF TurnFrame

(* accept gives out a number that no thread uses, to a client no thread     *)
(* serves.                                                                  *)
LEMMA AcceptServes ==
  ASSUME WebTypeOK, WebSafe, Accept
  PROVE  \E c \in backlog :
           /\ fd'[clnt_sock'] = c /\ backlog' = backlog \ {c}
           /\ \A u \in Workers : ServesKept(u) /\ (Works(u) => Serves(u) # c)
           /\ \A d \in Clients \ {c} : (\A n \in DOMAIN fd : fd[n] # d) =>
                \A n \in DOMAIN fd' : fd'[n] # d
<1>0. PICK limit \in Limits : fd \in [1..limit -> Clients \cup {Free, File}]
  BY DEF WebTypeOK
<1>1. PICK c \in backlog : fd' = [fd EXCEPT ![Min(Unused)] = c] /\ backlog' = backlog \ {c}
  BY DEF Accept
<1>2. clnt_sock' = Min(Unused) /\ UNCHANGED <<tpc, kind, wr, meant>>
  BY DEF Accept, worker, hist
<1>3. Min(Unused) \in 1..limit /\ fd[Min(Unused)] \notin Clients
  BY <1>0, WebAssumption, MinUnused DEF Unused, Accept
<1>4. OwnInv /\ QueueInv /\ backlog \subseteq Clients
  BY DEF WebSafe, WebTypeOK
<1>5. fd'[clnt_sock'] = c
  BY <1>0, <1>1, <1>2, <1>3
<1>6. ASSUME NEW u \in Workers PROVE ServesKept(u) /\ (Works(u) => Serves(u) # c)
  <2>1. Reads(u) => fd'[meant[u]] = fd[meant[u]] /\ fd[meant[u]] # c
    BY <1>0, <1>1, <1>3, <1>4 DEF OwnInv, Owns, QueueInv
  <2>2. Writes(u) => fd'[wr[u]] = fd[wr[u]] /\ fd[wr[u]] # c
    BY <1>0, <1>1, <1>3, <1>4 DEF OwnInv, Owns, QueueInv
  <2> QED BY <1>2, <2>1, <2>2 DEF ServesKept, Works, Reads, Writes, Serves
<1>7. ASSUME NEW d \in Clients \ {c}, \A n \in DOMAIN fd : fd[n] # d
      PROVE  \A n \in DOMAIN fd' : fd'[n] # d
  BY <1>0, <1>1, <1>7
<1> QED BY <1>1, <1>5, <1>6, <1>7

(* No two threads come to serve the same client.                            *)
LEMMA ApartStep == WebTypeOK /\ WebSafe /\ ~raced' /\ [WebNext]_webVars => ApartInv'
<1> SUFFICES ASSUME WebTypeOK, WebSafe, ~raced', [WebNext]_webVars PROVE ApartInv'
  OBVIOUS
<1>o. ApartInv
  BY DEF WebSafe
<1> USE <1>o DEF ApartInv, listener, wire, worker, hist
<1>1. CASE Accept
  <2>1. PICK c \in backlog :
          /\ fd'[clnt_sock'] = c
          /\ \A u \in Workers : ServesKept(u) /\ (Works(u) => Serves(u) # c)
    BY <1>1, AcceptServes
  <2> QED BY <2>1 DEF ServesKept, Works, Reads, Writes
<1>2. CASE AcceptFails BY <1>2 DEF AcceptFails, Works, Reads, Writes, Serves
<1>3. CASE CreateWorker
  BY <1>3 DEF CreateWorker, Gotot, WebTypeOK, Works, Reads, Writes, Serves
<1>4. ASSUME NEW t \in Workers, Worker(t) PROVE ApartInv'
  <2>1. TurnFrame(t)
    BY <1>4, Turn
  <2>2. \A u \in Workers : Works(u)' => Works(u) /\ Serves(u)' = Serves(u)
    BY <2>1 DEF TurnFrame, ServesKept, Works, Reads, Writes
  <2> QED BY <2>1, <2>2 DEF TurnFrame
<1>5. ASSUME NEW c \in Clients, Client(c) PROVE ApartInv'
  BY <1>5 DEF Client, Works, Reads, Writes, Serves
<1>6. CASE UNCHANGED webVars BY <1>6 DEF webVars, Works, Reads, Writes, Serves
<1> QED BY <1>1, <1>2, <1>3, <1>4, <1>5, <1>6 DEF WebNext, Listener

(* Clients that have not been accepted are not answered, nor is one that a  *)
(* thread serves among them.                                                *)
LEMMA QueueStep == WebTypeOK /\ WebSafe /\ ~raced' /\ [WebNext]_webVars => QueueInv'
<1> SUFFICES ASSUME WebTypeOK, WebSafe, ~raced', [WebNext]_webVars PROVE QueueInv'
  OBVIOUS
<1>o. QueueInv
  BY DEF WebSafe
<1> USE <1>o DEF QueueInv, listener, wire, worker, hist
<1>1. CASE Accept
  <2>1. PICK c \in backlog :
          /\ backlog' = backlog \ {c}
          /\ \A d \in Clients \ {c} : (\A n \in DOMAIN fd : fd[n] # d) =>
               \A n \in DOMAIN fd' : fd'[n] # d
    BY <1>1, AcceptServes
  <2>2. UNCHANGED <<client, request, unread, answers>>
    BY <1>1 DEF Accept
  <2> QED BY <2>1, <2>2 DEF WebTypeOK
<1>2. CASE AcceptFails BY <1>2 DEF AcceptFails
<1>3. CASE CreateWorker BY <1>3 DEF CreateWorker
<1>4. ASSUME NEW t \in Workers, Worker(t) PROVE QueueInv'
  <2>1. TurnFrame(t)
    BY <1>4, Turn
  <2>2. \E n \in DOMAIN fd : fd[n] = Serves(t)
    BY <2>1 DEF TurnFrame, WebSafe, OwnInv, Owns, Works, Serves
  <2>3. unread' \subseteq unread
    BY <1>4 DEF Worker, Start, OpenStreams, ReadLine, Crash, Overrun, Refuse, CloseRead, NoFile,
       OpenFile, SendPage
  <2> QED BY <2>1, <2>2, <2>3 DEF TurnFrame
<1>5. ASSUME NEW c \in Clients, Client(c) PROVE QueueInv'
  <2>1. CASE Connect(c) BY <1>5, <2>1 DEF Client, Connect, WebTypeOK
  <2>2. CASE Ask(c)
    <3>1. PICK k \in Kinds : request' = [request EXCEPT ![c] = k]
      BY <2>2 DEF Ask
    <3>2. k # "none"
      BY DEF Kinds
    <3> QED BY <1>5, <2>2, <3>1, <3>2 DEF Client, Ask, WebTypeOK
  <2>3. CASE Quit(c) BY <1>5, <2>3 DEF Client, Quit, WebTypeOK
  <2> QED BY <1>5, <2>1, <2>2, <2>3 DEF Client
<1>6. CASE UNCHANGED webVars BY <1>6 DEF webVars
<1> QED BY <1>1, <1>2, <1>3, <1>4, <1>5, <1>6 DEF WebNext, Listener

(* A thread answers for what its own client asked.                          *)
LEMMA ServeStep == WebTypeOK /\ WebSafe /\ ~raced' /\ [WebNext]_webVars => ServeInv'
<1> SUFFICES ASSUME WebTypeOK, WebSafe, ~raced', [WebNext]_webVars PROVE ServeInv'
  OBVIOUS
<1>o. ServeInv /\ OwnInv /\ ApartInv
  BY DEF WebSafe
<1> USE <1>o DEF listener, wire, worker, hist
<1>1. CASE Accept
  <2>1. PICK c \in backlog :
          /\ fd'[clnt_sock'] = c
          /\ \A u \in Workers : ServesKept(u)
    BY <1>1, AcceptServes
  <2>2. UNCHANGED <<client, request, unread, answers>>
    BY <1>1 DEF Accept
  <2>3. Unheard(c)'
    BY <2>2 DEF WebTypeOK, WebSafe, QueueInv, Unheard
  <2> QED BY <2>1, <2>2, <2>3 DEF ServeInv, ServesKept, Works, Reads, Writes, Unheard, Asked
<1>2. CASE AcceptFails BY <1>2 DEF AcceptFails, ServeInv, Reads, Serves, Unheard, Asked
<1>3. CASE CreateWorker
  BY <1>3 DEF CreateWorker, Gotot, WebTypeOK, ServeInv, Reads, Serves, Unheard, Asked
<1>4. ASSUME NEW t \in Workers, Worker(t) PROVE ServeInv'
  <2>1. TurnFrame(t)
    BY <1>4, Turn
  <2>2. lpc' = "create" => Unheard(fd[clnt_sock])' /\ fd'[clnt_sock'] = fd[clnt_sock]
    BY <2>1 DEF TurnFrame, ServeInv, OwnInv, ApartInv, Unheard
  <2> DEFINE Fits(u) ==
               /\ tpc[u] \in {"start", "open", "line"} => Unheard(Serves(u))
               /\ tpc[u] \in {"answer", "file", "send"} =>
                    answers[Serves(u)] = <<>> /\ Asked(Serves(u), kind[u])
               /\ tpc[u] = "file" => kind[u] \in {"page", "missing"}
               /\ tpc[u] = "send" => kind[u] = "page"
  <2>3. ASSUME NEW u \in Workers, u # t PROVE Fits(u)'
    <3>1. Works(u) => Serves(u)' = Serves(u) /\ Serves(u) \in Clients /\ Serves(u) # Serves(t)
      BY <2>1, <2>3 DEF TurnFrame, ServesKept, ApartInv, OwnInv, Owns, Works, Serves
    <3> QED BY <2>1, <2>3, <3>1 DEF TurnFrame, ServesKept, ServeInv, Works, Reads, Writes,
            Unheard, Asked
  <2>4. Fits(t)'
    <3>1. Works(t)' => Serves(t)' = Serves(t)
      BY <2>1 DEF TurnFrame
    <3> DEFINE c == Serves(t)
    <3>2. c \in Clients /\ UNCHANGED <<client, request>>
      BY <2>1 DEF TurnFrame
    <3>3. Fits(t)
      BY DEF ServeInv
    <3>4. tpc[t] = "line" => c = fd[sock[t]]
      BY DEF OwnInv, Owns, Serves, Reads
    <3>5. c \in unread => request[c] # "none"
      BY <3>2 DEF WebSafe, QueueInv
    <3>6. "none" \notin Kinds
      BY DEF Kinds
    <3> HIDE DEF c
    <3>w. Works(t)' => Serves(t)' = c
      BY <3>1 DEF c
    <3>f. /\ tpc[t] \in {"start", "open", "line"} => Unheard(c)
          /\ tpc[t] \in {"answer", "file", "send"} => answers[c] = <<>> /\ Asked(c, kind[t])
          /\ tpc[t] = "file" => kind[t] \in {"page", "missing"}
          /\ tpc[t] = "send" => kind[t] = "page"
      BY <3>3 DEF c
    <3> HIDE DEF Fits
    <3> USE <3>2, <3>w, <3>f DEF WebTypeOK, Works, Reads, Writes, Unheard, Asked, Fits
    <3>11. CASE Start(t) BY <3>11 DEF Start, Gotot
    <3>12. CASE OpenStreams(t)
      BY <3>12 DEF OpenStreams, Gotot
    <3>13. CASE ReadLine(t) BY <3>13, <3>4, <3>5, <3>6 DEF ReadLine, Gotot
    <3>14. CASE Crash(t) BY <3>14 DEF Crash
    <3>20. CASE Overrun(t) BY <3>20 DEF Overrun, Kinds
    <3>15. CASE Refuse(t) BY <3>15 DEF Refuse, Gotot
    <3>16. CASE CloseRead(t) BY <3>16 DEF CloseRead, Gotot
    <3>17. CASE NoFile(t) BY <3>17 DEF NoFile, Gotot
    <3>18. CASE OpenFile(t) BY <3>18 DEF OpenFile, Gotot
    <3>19. CASE SendPage(t) BY <3>19 DEF SendPage, Gotot
    <3> QED BY <1>4, <3>11, <3>12, <3>13, <3>14, <3>15, <3>16, <3>17, <3>18, <3>19, <3>20 DEF Worker
  <2> HIDE DEF Fits
  <2>5. \A u \in Workers : Fits(u)'
    BY <2>3, <2>4
  <2> QED BY <2>2, <2>5 DEF Fits, ServeInv
<1>5. ASSUME NEW c \in Clients, Client(c) PROVE ServeInv'
  <2>0. UNCHANGED <<lpc, clnt_sock, tpc, meant, wr, fd, kind, answers>>
    BY <1>5 DEF Client
  <2>1. CASE Connect(c)
    BY <1>5, <2>0, <2>1 DEF Connect, WebTypeOK, ServeInv, OwnInv, Owns, Works, Reads, Serves,
       Unheard, Asked
  <2>2. CASE Ask(c)
    BY <1>5, <2>0, <2>2 DEF Ask, WebTypeOK, ServeInv, Reads, Serves, Unheard, Asked
  <2>3. CASE Quit(c)
    BY <1>5, <2>0, <2>3 DEF Quit, WebTypeOK, ServeInv, Reads, Serves, Unheard, Asked
  <2> QED BY <1>5, <2>1, <2>2, <2>3 DEF Client
<1>6. CASE UNCHANGED webVars BY <1>6 DEF webVars, ServeInv, Reads, Serves, Unheard, Asked
<1> QED BY <1>1, <1>2, <1>3, <1>4, <1>5, <1>6 DEF WebNext, Listener

(* Nobody gets a second answer, and the one he gets is to what he asked.    *)
LEMMA AnswerStep == WebTypeOK /\ WebSafe /\ ~raced' /\ [WebNext]_webVars => AnswerInv'
<1> SUFFICES ASSUME WebTypeOK, WebSafe, ~raced', [WebNext]_webVars PROVE AnswerInv'
  OBVIOUS
<1>o. AnswerInv /\ ServeInv /\ OwnInv
  BY DEF WebSafe
<1>r. ASSUME UNCHANGED <<answers, request, client>>, full => full' PROVE AnswerInv'
  BY <1>o, <1>r DEF AnswerInv, Right
<1>1. CASE Listener
  BY <1>1, <1>r DEF Listener, Accept, AcceptFails, CreateWorker, wire, hist
<1>2. ASSUME NEW t \in Workers, Worker(t) PROVE AnswerInv'
  <2>1. TurnFrame(t)
    BY <1>2, Turn
  <2>2. full => full'
    BY <1>2 DEF Worker, Start, OpenStreams, ReadLine, Crash, Overrun, Refuse, CloseRead, NoFile,
       OpenFile, SendPage, hist
  <2>3. CASE UNCHANGED answers
    BY <1>r, <2>1, <2>2, <2>3 DEF TurnFrame
  <2>c. PICK c \in Clients : c = Serves(t)
    BY <2>1 DEF TurnFrame
  <2>4. ASSUME NEW a, tpc[t] \in {"answer", "file", "send"}, Reply(wr[t], a),
               request[c] # "none" => a \in Right(c)'
        PROVE  AnswerInv'
    <3>1. c = fd[wr[t]]
      BY <1>o, <2>1, <2>4, <2>c DEF OwnInv, Owns, Serves, Reads, Writes, TurnFrame
    <3>2. answers[c] = <<>> /\ (request[c] = "none" => client[c] = "gone")
      BY <1>o, <2>4, <2>c DEF ServeInv, Asked
    <3>3. answers'[c] = <<a>>
      <4>1. answers'[c] = Append(answers[c], a)
        BY <2>4, <3>1 DEF Reply
      <4> QED BY <3>2, <4>1
    <3>4. ASSUME NEW d \in Clients, d # c
          PROVE  answers'[d] = answers[d] /\ Right(d) \subseteq Right(d)'
      BY <2>1, <2>2, <2>c, <3>4 DEF TurnFrame, Right
    <3>5. request' = request /\ client' = client
      BY <2>1 DEF TurnFrame
    <3>7. Len(<<a>>) = 1 /\ <<a>>[1] = a
      OBVIOUS
    <3>8. ASSUME NEW d \in Clients
          PROVE  /\ Len(answers'[d]) <= 1
                 /\ answers'[d] # <<>> => IF request'[d] = "none" THEN client'[d] = "gone"
                                          ELSE answers'[d][1] \in Right(d)'
      <4>1. CASE d = c
        <5>1. Len(answers'[d]) = 1 /\ answers'[d][1] = a
          BY <3>3, <3>7, <4>1
        <5>2. Right(d)' = Right(c)'
          BY <4>1 DEF Right
        <5> QED BY <2>4, <3>2, <3>5, <4>1, <5>1, <5>2
      <4>2. CASE d # c
        BY <1>o, <3>4, <3>5, <4>2 DEF AnswerInv
      <4> QED BY <4>1, <4>2
    <3> QED BY <3>8 DEF AnswerInv
  <2>5. request' = request /\ (tpc[t] \in {"answer", "file", "send"} => Asked(c, kind[t]))
    BY <1>o, <2>1, <2>c DEF TurnFrame, ServeInv
  <2>6. CASE Refuse(t)
    <3>1. Reply(wr[t], "error") /\ tpc[t] = "answer" /\ kind[t] = "other"
      BY <2>6 DEF Refuse, SendError
    <3>2. request[c] # "none" => "error" \in Right(c)'
      BY <2>5, <3>1 DEF Asked, Right
    <3> QED BY <2>4, <3>1, <3>2
  <2>7. CASE NoFile(t)
    <3>1. /\ Reply(wr[t], "error") /\ tpc[t] = "file"
          /\ kind[t] = "missing" \/ full'
      BY <2>7 DEF NoFile, SendError
    <3>2. request[c] # "none" => "error" \in Right(c)'
      BY <2>5, <3>1 DEF Asked, Right
    <3> QED BY <2>4, <3>1, <3>2
  <2>8. CASE SendPage(t)
    <3>1. Reply(wr[t], "page") /\ tpc[t] = "send" /\ kind[t] = "page"
      BY <1>o, <2>8 DEF SendPage, ServeInv
    <3>2. request[c] # "none" => "page" \in Right(c)'
      BY <2>5, <3>1 DEF Asked, Right
    <3> QED BY <2>4, <3>1, <3>2
  <2> QED BY <1>2, <2>3, <2>6, <2>7, <2>8
          DEF Worker, Start, OpenStreams, ReadLine, Crash, Overrun, CloseRead, OpenFile
<1>3. ASSUME NEW c \in Clients, Client(c) PROVE AnswerInv'
  <2>0. answers' = answers /\ full' = full
    BY <1>3 DEF Client, hist
  <2>1. CASE Connect(c)
    BY <1>3, <1>o, <2>0, <2>1 DEF Connect, AnswerInv, Right, WebTypeOK, WebSafe, QueueInv
  <2>2. CASE Ask(c)
    BY <1>3, <1>o, <2>0, <2>2 DEF Ask, AnswerInv, Right, WebTypeOK
  <2>3. CASE Quit(c)
    BY <1>3, <1>o, <2>0, <2>3 DEF Quit, AnswerInv, Right, WebTypeOK
  <2> QED BY <1>3, <2>1, <2>2, <2>3 DEF Client
<1>4. CASE UNCHANGED webVars
  BY <1>4, <1>r DEF webVars, wire, hist
<1> QED BY <1>1, <1>2, <1>3, <1>4 DEF WebNext

(* How many descriptors the threads at work hold follows from where they    *)
(* are; one that moves changes the number by what it takes or gives back.   *)
Positions == {"none", "failed", "start", "open", "line", "answer", "file", "send", "done"}
Weight(l) == CASE l \in {"none", "done"} -> 0
               [] l \in {"line", "answer", "send"} -> 2
               [] OTHER -> 1
HeldIn(p) == {h \in Workers \X {1, 2} : h[2] <= Weight(p[h[1]])}

LEMMA HeldOf ==
  ASSUME NEW p \in [Workers -> Positions], NEW t \in Workers
  PROVE  LET rest == {h \in Workers \X {1, 2} : h[1] # t /\ h[2] <= Weight(p[h[1]])}
         IN  /\ IsFiniteSet(rest) /\ IsFiniteSet(HeldIn(p))
             /\ Cardinality(HeldIn(p)) = Cardinality(rest) + Weight(p[t])
<1> DEFINE rest == {h \in Workers \X {1, 2} : h[1] # t /\ h[2] <= Weight(p[h[1]])}
<1>1. IsFiniteSet(Workers) /\ IsFiniteSet({1, 2})
  <2>1. IsFiniteSet({1}) /\ IsFiniteSet({1} \cup {2})
    BY FS_Singleton, FS_AddElement
  <2>2. {1, 2} = {1} \cup {2}
    OBVIOUS
  <2> QED BY <2>1, <2>2, WebAssumption
<1>2. IsFiniteSet(Workers \X {1, 2})
  BY <1>1, FS_Product
<1>3. IsFiniteSet(rest)
  BY <1>2, FS_Subset
<1>4. Weight(p[t]) \in 0..2
  BY DEF Weight
<1>5. /\ IsFiniteSet(rest \cup {<<t, 1>>})
      /\ Cardinality(rest \cup {<<t, 1>>}) = Cardinality(rest) + 1
  BY <1>3, FS_AddElement
<1>6. /\ IsFiniteSet((rest \cup {<<t, 1>>}) \cup {<<t, 2>>})
      /\ Cardinality((rest \cup {<<t, 1>>}) \cup {<<t, 2>>}) = Cardinality(rest) + 2
  <2>1. <<t, 2>> \notin rest \cup {<<t, 1>>}
    OBVIOUS
  <2>2. Cardinality(rest) \in Nat
    BY <1>3, FS_CardinalityType
  <2> DEFINE one == rest \cup {<<t, 1>>}
  <2>3. IsFiniteSet(one) /\ Cardinality(one) = Cardinality(rest) + 1 /\ <<t, 2>> \notin one
    BY <1>5, <2>1
  <2> HIDE DEF one
  <2>4. /\ IsFiniteSet(one \cup {<<t, 2>>})
        /\ Cardinality(one \cup {<<t, 2>>}) = Cardinality(one) + 1
    BY <2>3, FS_AddElement
  <2> HIDE DEF rest
  <2>5. Cardinality(one \cup {<<t, 2>>}) = Cardinality(rest) + 2
    BY <2>2, <2>3, <2>4
  <2> QED BY <2>4, <2>5 DEF one
<1>7. CASE Weight(p[t]) = 0
  <2>1. HeldIn(p) = rest
    BY <1>7 DEF HeldIn
  <2>2. Cardinality(rest) \in Nat
    BY <1>3, FS_CardinalityType
  <2> QED BY <1>3, <1>7, <2>1, <2>2
<1>8. CASE Weight(p[t]) = 1
  <2>1. HeldIn(p) = rest \cup {<<t, 1>>}
    BY <1>8 DEF HeldIn
  <2> QED BY <1>3, <1>5, <1>8, <2>1
<1>9. CASE Weight(p[t]) = 2
  <2>1. HeldIn(p) = (rest \cup {<<t, 1>>}) \cup {<<t, 2>>}
    BY <1>9 DEF HeldIn
  <2> QED BY <1>3, <1>6, <1>9, <2>1
<1> QED BY <1>4, <1>7, <1>8, <1>9

LEMMA HeldMoves ==
  ASSUME NEW p \in [Workers -> Positions], NEW t \in Workers, NEW l \in Positions
  PROVE  /\ Cardinality(HeldIn(p)) \in Nat
         /\ Cardinality(HeldIn([p EXCEPT ![t] = l])) =
              Cardinality(HeldIn(p)) + Weight(l) - Weight(p[t])
<1> DEFINE q == [p EXCEPT ![t] = l]
           rest(f) == {h \in Workers \X {1, 2} : h[1] # t /\ h[2] <= Weight(f[h[1]])}
<1>1. q \in [Workers -> Positions] /\ q[t] = l
  OBVIOUS
<1>2. rest(q) = rest(p)
  OBVIOUS
<1>3. /\ Cardinality(HeldIn(q)) = Cardinality(rest(q)) + Weight(q[t])
      /\ Cardinality(HeldIn(p)) = Cardinality(rest(p)) + Weight(p[t])
      /\ Cardinality(rest(p)) \in Nat /\ Cardinality(HeldIn(p)) \in Nat
  BY <1>1, HeldOf, FS_CardinalityType
<1>4. Weight(l) \in 0..2 /\ Weight(p[t]) \in 0..2
  BY DEF Weight
<1> HIDE DEF rest
<1>5. Cardinality(HeldIn(q)) = Cardinality(rest(p)) + Weight(l)
  BY <1>1, <1>2, <1>3
<1> HIDE DEF q
<1>6. Cardinality(HeldIn(q)) = Cardinality(HeldIn(p)) + Weight(l) - Weight(p[t])
  BY <1>3, <1>4, <1>5
<1> QED BY <1>3, <1>6 DEF q

(* Every step that takes a descriptor or gives one back changes what the    *)
(* threads and main hold, or what is lost for good, by as much.             *)
Lost == Cardinality(Gets) + Cardinality(Held) + (IF lpc = "create" THEN 1 ELSE 0)

LEMMA Counts ==
  ASSUME WebTypeOK
  PROVE  /\ Held = HeldIn(tpc) /\ Cardinality(Held) \in Nat
         /\ IsFiniteSet(Gets) /\ Cardinality(Gets) \in Nat
         /\ IsFiniteSet(Used) /\ Cardinality(Used) \in Nat
<1>1. Held = HeldIn(tpc)
  BY DEF Held, HeldIn, Holds, Weight
<1>2. IsFiniteSet(Gets)
  BY WebAssumption, FS_Subset DEF Gets
<1>3. PICK limit \in Limits : fd \in [1..limit -> Clients \cup {Free, File}]
  BY DEF WebTypeOK
<1>4. IsFiniteSet(1..limit) /\ Used \subseteq 1..limit
  <2>1. limit \in Int /\ 1 \in Int
    BY <1>3, WebAssumption
  <2> QED BY <1>3, <2>1, FS_Interval DEF Used
<1>5. IsFiniteSet(Used)
  BY <1>4, FS_Subset
<1>6. Workers = {} \/ \E t : t \in Workers
  OBVIOUS
<1>7. Cardinality(Held) \in Nat
  <2>1. tpc \in [Workers -> Positions]
    BY DEF WebTypeOK, Positions
  <2>2. CASE Workers = {}
    BY <2>2, FS_EmptySet DEF Held
  <2>3. CASE \E t : t \in Workers
    <3>1. PICK t \in Workers : TRUE
      BY <2>3
    <3> QED BY <1>1, <2>1, <3>1, HeldOf, FS_CardinalityType
  <2> QED BY <1>6, <2>2, <2>3
<1> QED BY <1>1, <1>2, <1>5, <1>7, FS_CardinalityType

LEMMA LeakInit == WebInit => LeakPerRequest
<1> SUFFICES ASSUME WebInit PROVE LeakPerRequest
  OBVIOUS
<1>1. Held = {} /\ Gets = {} /\ Used = {} /\ lpc = "accept"
  BY DEF WebInit, Held, Holds, Gets, Used
<1> QED BY <1>1, FS_EmptySet DEF LeakPerRequest

UsedIn(f) == {n \in DOMAIN f : f[n] # Free}

LEMMA UsedFinite ==
  ASSUME NEW limit \in Nat, NEW f, DOMAIN f = 1..limit
  PROVE  IsFiniteSet(UsedIn(f)) /\ Cardinality(UsedIn(f)) \in Nat
<1>1. limit \in Int /\ 1 \in Int
  OBVIOUS
<1>2. IsFiniteSet(1..limit) /\ UsedIn(f) \subseteq 1..limit
  BY <1>1, FS_Interval DEF UsedIn
<1> QED BY <1>2, FS_Subset, FS_CardinalityType

LEMMA UsedMore ==
  ASSUME NEW limit \in Nat, NEW f, DOMAIN f = 1..limit,
         NEW n \in 1..limit, f[n] = Free, NEW v, v # Free
  PROVE  Cardinality(UsedIn([f EXCEPT ![n] = v])) = Cardinality(UsedIn(f)) + 1
<1>1. UsedIn([f EXCEPT ![n] = v]) = UsedIn(f) \cup {n} /\ n \notin UsedIn(f)
  BY DEF UsedIn
<1>2. Cardinality(UsedIn(f) \cup {n}) = Cardinality(UsedIn(f)) + 1
  BY <1>1, UsedFinite, FS_AddElement
<1> QED BY <1>1, <1>2

LEMMA UsedLess ==
  ASSUME NEW limit \in Nat, NEW V, NEW f \in [1..limit -> V], Free \in V,
         NEW n \in 1..limit, f[n] # Free
  PROVE  /\ [f EXCEPT ![n] = Free] \in [1..limit -> V]
         /\ Cardinality(UsedIn([f EXCEPT ![n] = Free])) = Cardinality(UsedIn(f)) - 1
<1>1. UsedIn([f EXCEPT ![n] = Free]) = UsedIn(f) \ {n} /\ n \in UsedIn(f)
  BY DEF UsedIn
<1>2. Cardinality(UsedIn(f) \ {n}) = Cardinality(UsedIn(f)) - 1
  BY <1>1, UsedFinite, FS_RemoveElement
<1>3. [f EXCEPT ![n] = Free] \in [1..limit -> V]
  OBVIOUS
<1> QED BY <1>1, <1>2, <1>3

LEMMA LeakStep ==
  WebTypeOK /\ WebTypeOK' /\ WebSafe /\ LeakPerRequest /\ ~raced' /\ [WebNext]_webVars
    => LeakPerRequest'
<1> SUFFICES ASSUME WebTypeOK, WebTypeOK', WebSafe, LeakPerRequest, ~raced', [WebNext]_webVars
             PROVE  LeakPerRequest'
  OBVIOUS
<1> DEFINE V == Clients \cup {Free, File}
<1>0. PICK limit \in Limits : fd \in [1..limit -> V]
  BY DEF WebTypeOK
<1>n. limit \in Nat
  BY WebAssumption
<1>v. Free \in V /\ File \in V /\ Clients \subseteq V /\ Free \notin Clients /\ File # Free
  BY WebAssumption
<1>m. Unused # {} => Min(Unused) \in 1..limit /\ fd[Min(Unused)] = Free
  BY <1>0, MinUnused DEF Unused
<1>o. OwnInv /\ ServeInv
  BY DEF WebSafe
<1>c. Cardinality(Used) = Lost
  BY DEF LeakPerRequest, Lost, WebSafe
<1>i. /\ Cardinality(Held) \in Nat /\ Cardinality(Gets) \in Nat /\ Cardinality(Used) \in Nat
      /\ IsFiniteSet(Gets) /\ Held = HeldIn(tpc)
  BY Counts
<1>u. Used = UsedIn(fd) /\ Used' = UsedIn(fd')
  BY DEF Used, UsedIn
<1>h. Held' = HeldIn(tpc')
  BY DEF Held, HeldIn, Holds, Weight
<1>p. tpc \in [Workers -> Positions]
  BY DEF WebTypeOK, Positions
<1>q. ASSUME Cardinality(Used') = Lost' PROVE LeakPerRequest'
  BY <1>q DEF LeakPerRequest, Lost
<1>g. ASSUME NEW t \in Workers, NEW l \in Positions, Gotot(t, l)
      PROVE  Cardinality(Held') = Cardinality(Held) + Weight(l) - Weight(tpc[t])
  BY <1>g, <1>i, <1>h, <1>p, HeldMoves DEF Gotot
<1> HIDE DEF V
<1>t. ASSUME NEW f \in [1..limit -> V], NEW n \in 1..limit, f[n] = Free,
             NEW v \in V, v # Free
      PROVE  Cardinality(UsedIn([f EXCEPT ![n] = v])) = Cardinality(UsedIn(f)) + 1
  BY <1>n, <1>t, UsedMore
<1>f. ASSUME NEW f \in [1..limit -> V], NEW n \in 1..limit, f[n] # Free
      PROVE  /\ [f EXCEPT ![n] = Free] \in [1..limit -> V]
             /\ Cardinality(UsedIn([f EXCEPT ![n] = Free])) = Cardinality(UsedIn(f)) - 1
  BY <1>n, <1>v, <1>f, UsedLess
<1>1. CASE Accept
  <2>1. PICK c \in Clients : fd' = [fd EXCEPT ![Min(Unused)] = c]
    BY <1>1 DEF Accept, WebTypeOK
  <2>2. Cardinality(Used') = Cardinality(Used) + 1
    BY <1>0, <1>t, <1>v, <1>m, <1>u, <1>1, <2>1 DEF Accept
  <2>3. Gets' = Gets /\ Held' = Held /\ lpc = "accept" /\ lpc' = "create"
    BY <1>1, <1>i, <1>h DEF Accept, Gets, worker
  <2> QED BY <1>c, <1>i, <1>q, <2>2, <2>3 DEF Lost
<1>2. CASE AcceptFails
  BY <1>2, <1>c, <1>i, <1>h, <1>q DEF AcceptFails, Lost, Gets, Used, worker, listener
<1>3. CASE CreateWorker
  <2>1. PICK t \in Workers, l \in {"start", "failed"} : tpc[t] = "none" /\ Gotot(t, l)
    BY <1>3 DEF CreateWorker
  <2>2. Cardinality(Held') = Cardinality(Held) + 1
    BY <1>g, <1>i, <2>1 DEF Weight, Positions
  <2>3. Used' = Used /\ lpc = "create" /\ lpc' = "accept"
    BY <1>3 DEF CreateWorker, Used
  <2>4. Gets' = Gets
    BY <1>3, <1>p, <2>1 DEF CreateWorker, Gets, Gotot
  <2> QED BY <1>c, <1>i, <1>q, <2>2, <2>3, <2>4 DEF Lost
<1>4. ASSUME NEW t \in Workers, Worker(t) PROVE LeakPerRequest'
  <2>l. lpc' = lpc
    BY <1>4 DEF Worker, Start, OpenStreams, ReadLine, Crash, Overrun, Refuse, CloseRead, NoFile,
       OpenFile, SendPage, listener
  <2>o. Owns(t)
    BY <1>o DEF OwnInv
  <2>s. ASSUME UNCHANGED <<fd, tpc>>, kind' = kind PROVE LeakPerRequest'
    BY <1>c, <1>i, <1>h, <1>q, <2>l, <2>s DEF Lost, Used, Gets
  <2>g. ASSUME NEW l \in Positions \ {"done"}, Gotot(t, l), tpc[t] # "done",
               \A u \in Workers : u # t => kind'[u] = kind[u]
        PROVE  Gets' = Gets
    BY <1>p, <2>g DEF Gets, Gotot
  <2>1. CASE Start(t)
    <3>1. Gets' = Gets /\ Used' = Used
      BY <2>1, <2>g DEF Start, Positions, Used
    <3>2. Cardinality(Held') = Cardinality(Held)
      BY <1>g, <1>i, <2>1 DEF Start, Weight, Positions
    <3> QED BY <1>c, <1>q, <2>l, <3>1, <3>2 DEF Lost
  <2>2. CASE OpenStreams(t)
    <3>1. CASE alive'
      <4>1. /\ Unused # {} /\ fd[sock[t]] \in Clients /\ tpc[t] = "open" /\ kind' = kind
            /\ fd' = [fd EXCEPT ![Min(Unused)] = fd[sock[t]]] /\ Gotot(t, "line")
        BY <2>2, <3>1 DEF OpenStreams
      <4>2. Gets' = Gets
        BY <2>g, <4>1 DEF Positions
      <4>3. Cardinality(Held') = Cardinality(Held) + 1
        BY <1>g, <1>i, <4>1 DEF Weight, Positions
      <4>4. PICK c \in Clients : c = fd[sock[t]]
        BY <4>1
      <4>5. Cardinality(Used') = Cardinality(Used) + 1
        BY <1>0, <1>t, <1>v, <1>m, <1>u, <4>1, <4>4
      <4> QED BY <1>c, <1>i, <1>q, <2>l, <4>2, <4>3, <4>5 DEF Lost
    <3>2. CASE ~alive'
      BY <2>2, <2>s, <3>2 DEF OpenStreams
    <3> QED BY <3>1, <3>2
  <2>3. CASE ReadLine(t)
    <3>1. Gotot(t, "answer") /\ tpc[t] = "line" /\ Used' = Used
      BY <2>3 DEF ReadLine, Used
    <3>2. \A u \in Workers : u # t => kind'[u] = kind[u]
      BY <2>3 DEF ReadLine, WebTypeOK
    <3>3. Gets' = Gets
      BY <2>g, <3>1, <3>2 DEF Positions
    <3>4. Cardinality(Held') = Cardinality(Held)
      BY <1>g, <1>i, <3>1 DEF Weight, Positions
    <3> QED BY <1>c, <1>q, <2>l, <3>1, <3>3, <3>4 DEF Lost
  <2>4. CASE Crash(t) BY <2>4, <2>s DEF Crash, worker
  <2>10. CASE Overrun(t)
    <3>1. UNCHANGED <<fd, tpc>> /\ tpc[t] = "answer"
      BY <2>10 DEF Overrun
    <3>2. \A u \in Workers : u # t => kind'[u] = kind[u]
      BY <2>10 DEF Overrun, WebTypeOK
    <3>3. Gets' = Gets
      BY <3>1, <3>2 DEF Gets
    <3> QED BY <1>c, <1>i, <1>h, <1>q, <2>l, <3>1, <3>3 DEF Lost, Used
  <2>5. CASE Refuse(t)
    <3>1. /\ tpc[t] = "answer" /\ kind[t] = "other" /\ kind' = kind /\ Gotot(t, "done")
          /\ fd' = [fd EXCEPT ![sock[t]] = Free, ![wr[t]] = Free]
      BY <2>5 DEF Refuse
    <3>2. /\ sock[t] \in 1..limit /\ wr[t] \in 1..limit /\ sock[t] # wr[t]
          /\ fd[sock[t]] # Free /\ fd[wr[t]] # Free
      BY <1>0, <1>v, <2>o, <3>1 DEF Owns, Reads, Writes
    <3> DEFINE one == [fd EXCEPT ![sock[t]] = Free]
    <3>3. one \in [1..limit -> V] /\ Cardinality(UsedIn(one)) = Cardinality(Used) - 1
      BY <1>0, <1>f, <1>u, <3>2
    <3>4. one[wr[t]] # Free /\ fd' = [one EXCEPT ![wr[t]] = Free]
      BY <1>0, <3>1, <3>2
    <3> HIDE DEF one
    <3>5. Cardinality(Used') = Cardinality(UsedIn(one)) - 1
      BY <1>f, <1>u, <3>2, <3>3, <3>4
    <3>6. Gets' = Gets
      BY <1>p, <3>1 DEF Gets, Gotot
    <3>7. Cardinality(Held') = Cardinality(Held) - 2
      BY <1>g, <1>i, <3>1 DEF Weight, Positions
    <3> QED BY <1>c, <1>i, <1>q, <2>l, <3>3, <3>5, <3>6, <3>7 DEF Lost
  <2>6. CASE CloseRead(t)
    <3>1. /\ tpc[t] = "answer" /\ kind' = kind /\ Gotot(t, "file")
          /\ fd' = [fd EXCEPT ![sock[t]] = Free]
      BY <2>6 DEF CloseRead
    <3>2. sock[t] \in 1..limit /\ fd[sock[t]] # Free
      BY <1>0, <1>v, <2>o, <3>1 DEF Owns, Reads
    <3>3. Cardinality(Used') = Cardinality(Used) - 1
      BY <1>0, <1>f, <1>u, <3>1, <3>2
    <3>4. Gets' = Gets
      BY <2>g, <3>1 DEF Positions
    <3>5. Cardinality(Held') = Cardinality(Held) - 1
      BY <1>g, <1>i, <3>1 DEF Weight, Positions
    <3> QED BY <1>c, <1>i, <1>q, <2>l, <3>3, <3>4, <3>5 DEF Lost
  <2>d. ASSUME Gotot(t, "done"), tpc[t] # "done", kind' = kind, kind[t] \in {"page", "missing"}
        PROVE  Cardinality(Gets') = Cardinality(Gets) + 1
    <3>1. Gets' = Gets \cup {t} /\ t \notin Gets
      BY <1>p, <2>d DEF Gets, Gotot
    <3> QED BY <1>i, <3>1, FS_AddElement
  <2>7. CASE NoFile(t)
    <3>1. /\ tpc[t] = "file" /\ kind' = kind /\ Gotot(t, "done") /\ Used' = Used
          /\ kind[t] \in {"page", "missing"}
      BY <1>o, <2>7 DEF NoFile, Used, ServeInv
    <3>2. Cardinality(Gets') = Cardinality(Gets) + 1
      BY <2>d, <3>1
    <3>3. Cardinality(Held') = Cardinality(Held) - 1
      BY <1>g, <1>i, <3>1 DEF Weight, Positions
    <3> QED BY <1>c, <1>i, <1>q, <2>l, <3>1, <3>2, <3>3 DEF Lost
  <2>8. CASE OpenFile(t)
    <3>1. /\ tpc[t] = "file" /\ kind' = kind /\ Gotot(t, "send") /\ Unused # {}
          /\ fd' = [fd EXCEPT ![Min(Unused)] = File]
      BY <2>8 DEF OpenFile
    <3>2. Cardinality(Used') = Cardinality(Used) + 1
      BY <1>0, <1>t, <1>v, <1>m, <1>u, <3>1
    <3>3. Gets' = Gets
      BY <2>g, <3>1 DEF Positions
    <3>4. Cardinality(Held') = Cardinality(Held) + 1
      BY <1>g, <1>i, <3>1 DEF Weight, Positions
    <3> QED BY <1>c, <1>i, <1>q, <2>l, <3>2, <3>3, <3>4 DEF Lost
  <2>9. CASE SendPage(t)
    <3>1. /\ tpc[t] = "send" /\ kind' = kind /\ Gotot(t, "done") /\ kind[t] = "page"
          /\ fd' = [fd EXCEPT ![wr[t]] = Free]
      BY <1>o, <2>9 DEF SendPage, ServeInv
    <3>2. wr[t] \in 1..limit /\ fd[wr[t]] # Free
      BY <1>0, <1>v, <2>o, <3>1 DEF Owns, Writes
    <3>3. Cardinality(Used') = Cardinality(Used) - 1
      BY <1>0, <1>f, <1>u, <3>1, <3>2
    <3>4. Cardinality(Gets') = Cardinality(Gets) + 1
      BY <2>d, <3>1
    <3>5. Cardinality(Held') = Cardinality(Held) - 2
      BY <1>g, <1>i, <3>1 DEF Weight, Positions
    <3> QED BY <1>c, <1>i, <1>q, <2>l, <3>3, <3>4, <3>5 DEF Lost
  <2> QED BY <1>4, <2>1, <2>2, <2>3, <2>4, <2>5, <2>6, <2>7, <2>8, <2>9, <2>10 DEF Worker
<1>5. CASE UNCHANGED <<fd, tpc, kind, lpc>>
  BY <1>5, <1>c, <1>i, <1>h, <1>q DEF Lost, Used, Gets
<1> QED BY <1>1, <1>2, <1>3, <1>4, <1>5
        DEF WebNext, Listener, Client, webVars, listener, worker

LEMMA WebInvInit == WebInit => WebInv
<1> SUFFICES ASSUME WebInit PROVE WebInv
  OBVIOUS
<1>1. OwnInv /\ ApartInv /\ ServeInv
  BY DEF WebInit, OwnInv, Owns, ApartInv, ServeInv, Works, Reads, Writes
<1>2. QueueInv
  <2>1. \A c \in Clients : c # Free
    BY WebAssumption
  <2> QED BY <2>1 DEF WebInit, QueueInv
<1>3. AnswerInv
  BY DEF WebInit, AnswerInv
<1> QED BY <1>1, <1>2, <1>3, WebTypeInit, LeakInit DEF WebInv

LEMMA WebInvStep == WebInv /\ [WebNext]_webVars => WebInv'
<1> SUFFICES ASSUME WebInv, [WebNext]_webVars PROVE WebInv'
  OBVIOUS
<1>1. WebTypeOK /\ WebTypeOK'
  BY WebTypeStep DEF WebInv
<1>2. CASE raced'
  BY <1>1, <1>2 DEF WebInv
<1>3. CASE ~raced'
  <2>1. ~raced
    BY <1>1, <1>3 DEF WebTypeOK, WebNext, Listener, Accept, AcceptFails, CreateWorker, Worker,
       Start, OpenStreams, ReadLine, Crash, Overrun, Refuse, CloseRead, NoFile, OpenFile, SendPage,
       Client, hist, webVars
  <2>2. WebSafe /\ LeakPerRequest
    BY <2>1 DEF WebInv, WebSafe
  <2> QED BY <1>1, <1>3, <2>2, OwnStep, ApartStep, QueueStep, ServeStep, AnswerStep, LeakStep
          DEF WebInv
<1> QED BY <1>2, <1>3

LEMMA WebInductive == WebSpec => []WebInv
BY WebInvInit, WebInvStep, PTL DEF WebSpec

(* Every variable of the web server keeps its type, whatever a thread reads *)
(* through main's variable.                                                 *)
THEOREM WebTypeCorrect == WebSpec => []WebTypeOK
<1>1. WebInv => WebTypeOK
  BY DEF WebInv
<1> QED BY <1>1, WebInductive, PTL

(* As long as every thread reads main's variable before the next accept, a  *)
(* client gets one answer at most, and the one to what it asked.            *)
THEOREM AnswersFit == WebSpec => []AnswerFits
<1>1. WebInv => AnswerFits
  BY DEF WebInv, AnswerFits, AnswerInv
<1> QED BY <1>1, WebInductive, PTL

(* Every GET costs one descriptor for good, and nothing else does.          *)
THEOREM OneLeakPerGet == WebSpec => []LeakPerRequest
<1>1. WebInv => LeakPerRequest
  BY DEF WebInv, LeakPerRequest
<1> QED BY <1>1, WebInductive, PTL

(* Each client has a thread of its own: no two threads that read their      *)
(* arguments in time ever use the same descriptor.                          *)
OneThreadEach == ~raced => OwnInv /\ ApartInv
THEOREM NobodyShares == WebSpec => []OneThreadEach
<1>1. WebInv => OneThreadEach
  BY DEF WebInv, OneThreadEach
<1> QED BY <1>1, WebInductive, PTL

-----------------------------------------------------------------------------
(* The UDP echo programs.  The network is a bag; Tally says how often a      *)
(* datagram is in it.                                                        *)
Tally(B, x) == IF x \in DOMAIN B THEN B[x] ELSE 0
Counted(B) == \A x \in DOMAIN B : B[x] \in Nat \ {0}

LEMMA TallyNat ==
  ASSUME NEW B, Counted(B)
  PROVE  \A x : Tally(B, x) \in Nat /\ (x \in DOMAIN B <=> Tally(B, x) # 0)
BY DEF Tally, Counted

LEMMA BagTaken ==
  ASSUME NEW B, Counted(B), NEW x \in DOMAIN B
  PROVE  /\ Counted(B (-) SetToBag({x})) /\ DOMAIN (B (-) SetToBag({x})) \subseteq DOMAIN B
         /\ \A y : Tally(B (-) SetToBag({x}), y)
                     = IF y = x THEN Tally(B, x) - 1 ELSE Tally(B, y)
<1> DEFINE S == SetToBag({x})
           E == [e \in DOMAIN B |-> IF e \in DOMAIN S THEN B[e] - S[e] ELSE B[e]]
           C == B (-) S
<1>1. S = [e \in {x} |-> 1]
  BY DEF SetToBag
<1> HIDE DEF S
<1>2. C = [e \in {d \in DOMAIN E : E[d] > 0} |-> E[e]]
  BY DEF (-)
<1>3. DOMAIN S = {x} /\ S[x] = 1
  BY <1>1
<1>4. E = [e \in DOMAIN B |-> IF e = x THEN B[e] - 1 ELSE B[e]]
  BY <1>3
<1> HIDE DEF C, E
<1>5. \A e \in DOMAIN B : B[e] \in Nat \ {0}
  BY DEF Counted
<1>6. /\ DOMAIN E = DOMAIN B /\ \A e \in DOMAIN E : E[e] \in Nat
      /\ \A e \in DOMAIN B : E[e] = IF e = x THEN B[e] - 1 ELSE B[e]
  BY <1>4, <1>5
<1>7. /\ DOMAIN C \subseteq DOMAIN B /\ \A e \in DOMAIN C : C[e] = E[e] /\ E[e] > 0
      /\ \A e \in DOMAIN B \ DOMAIN C : ~(E[e] > 0)
  BY <1>2, <1>6
<1>8. /\ Counted(C) /\ DOMAIN C \subseteq DOMAIN B
      /\ \A y : Tally(C, y) = IF y = x THEN Tally(B, x) - 1 ELSE Tally(B, y)
  BY <1>5, <1>6, <1>7 DEF Counted, Tally
<1> QED BY <1>8 DEF C, S

LEMMA BagSent ==
  ASSUME NEW B, Counted(B), NEW x
  PROVE  /\ Counted(B (+) SetToBag({x})) /\ DOMAIN (B (+) SetToBag({x})) = DOMAIN B \cup {x}
         /\ \A y : Tally(B (+) SetToBag({x}), y)
                     = IF y = x THEN Tally(B, x) + 1 ELSE Tally(B, y)
<1> DEFINE S == SetToBag({x})
           C == B (+) S
<1>1. S = [e \in {x} |-> 1]
  BY DEF SetToBag
<1> HIDE DEF S
<1>2. C = [e \in DOMAIN B \cup DOMAIN S |->
             (IF e \in DOMAIN B THEN B[e] ELSE 0) + (IF e \in DOMAIN S THEN S[e] ELSE 0)]
  BY DEF (+)
<1>3. DOMAIN S = {x} /\ S[x] = 1
  BY <1>1
<1>4. C = [e \in DOMAIN B \cup {x} |->
             (IF e \in DOMAIN B THEN B[e] ELSE 0) + (IF e = x THEN 1 ELSE 0)]
  BY <1>2, <1>3
<1> HIDE DEF C
<1>5. /\ Counted(C) /\ DOMAIN C = DOMAIN B \cup {x}
      /\ \A y : Tally(C, y) = IF y = x THEN Tally(B, x) + 1 ELSE Tally(B, y)
  BY <1>4 DEF Counted, Tally
<1> QED BY <1>5 DEF C, S

(* How often a line was shown, after one more.                               *)
Shows(s, k) == Cardinality({j \in DOMAIN s : s[j] = k})

LEMMA ShowsMore ==
  ASSUME NEW s \in Seq(Int), NEW x \in Int
  PROVE  /\ Append(s, x) \in Seq(Int) /\ Len(Append(s, x)) = Len(s) + 1
         /\ \A j \in 1..Len(s) : Append(s, x)[j] = s[j]
         /\ Append(s, x)[Len(s) + 1] = x
         /\ \A k : Shows(s, k) \in Nat
                   /\ Shows(Append(s, x), k) = IF k = x THEN Shows(s, k) + 1 ELSE Shows(s, k)
<1> DEFINE t == Append(s, x)
<1>1. /\ t \in Seq(Int) /\ Len(t) = Len(s) + 1 /\ t[Len(s) + 1] = x
      /\ \A j \in 1..Len(s) : t[j] = s[j]
  OBVIOUS
<1>2. Len(s) \in Nat /\ DOMAIN s = 1..Len(s) /\ DOMAIN t = 1..Len(s) + 1
  BY <1>1
<1> HIDE DEF t
<1>3. ASSUME NEW k
      PROVE  /\ Shows(s, k) \in Nat
             /\ Shows(t, k) = IF k = x THEN Shows(s, k) + 1 ELSE Shows(s, k)
  <2> DEFINE S == {j \in DOMAIN s : s[j] = k}
             T == {j \in DOMAIN t : t[j] = k}
             l == Len(s)
  <2>1. IsFiniteSet(S) /\ Cardinality(S) \in Nat
    <3>1. 1 \in Int /\ l \in Int /\ S \subseteq 1..l
      BY <1>2
    <3> HIDE DEF S, l
    <3>2. IsFiniteSet(1..l)
      BY <3>1, FS_Interval
    <3> QED BY <3>1, <3>2, FS_Subset, FS_CardinalityType
  <2>2. T = IF k = x THEN S \cup {l + 1} ELSE S
    BY <1>1, <1>2
  <2>3. l + 1 \notin S
    BY <1>2
  <2>4. Cardinality(S \cup {l + 1}) = Cardinality(S) + 1
    <3> DEFINE e == l + 1
    <3> HIDE DEF S, e
    <3> QED BY <2>1, <2>3, FS_AddElement DEF e
  <2> QED BY <2>1, <2>2, <2>4 DEF Shows
<1> QED BY <1>1, <1>3 DEF t

(* What is on its way of a client's, or in the server's hands, are lines it  *)
(* sent or what a stranger sent.  While nothing intruded there is at most    *)
(* one such datagram, and it has to do with the line that the client waits   *)
(* for.                                                                      *)
Datagrams == [of : Hosts, way : {"to", "back"}, data : Int]
AtServer(c) == spc = "send" /\ held.of = c
AtServerOnce(c, k) == IF AtServer(c) /\ held.data = k THEN 1 ELSE 0
InNet(c, k) == Tally(net, Packet(c, "to", k)) + Tally(net, Packet(c, "back", k))

UdpTypeOK ==
  /\ spc \in {"off", "recv", "send"}
  /\ spc = "send" => held \in Datagrams /\ held.way = "to"
  /\ Counted(net) /\ DOMAIN net \subseteq Datagrams
  /\ cpc \in [Hosts -> {"prompt", "wait", "done"}] /\ sent \in [Hosts -> Nat]
  /\ err \in [Hosts -> BOOLEAN] /\ shown \in [Hosts -> Seq(Int)] /\ extra \in [Hosts -> Nat]

Sane(c) ==
  /\ \A p \in DOMAIN net : p.of = c =>
       p.data \in 1..sent[c] \/ (p.way = "back" /\ p.data = Foreign)
  /\ AtServer(c) => held.data \in 1..sent[c]
  /\ err[c] => Connected

Kept(c) ==
  /\ Len(shown[c]) = IF cpc[c] = "wait" THEN sent[c] - 1 ELSE sent[c]
  /\ \A j \in 1..Len(shown[c]) :
       shown[c][j] \in 1..j \cup (IF Connected THEN {Own} ELSE {Foreign})

Single(c) ==
  extra[c] = 0 =>
    /\ \A j \in 1..Len(shown[c]) : shown[c][j] \in {j, Own}
    /\ \A p \in DOMAIN net : p.of = c =>
         /\ cpc[c] = "wait" /\ ~err[c] /\ p.data = sent[c] /\ Tally(net, p) = 1 /\ ~AtServer(c)
         /\ \A q \in DOMAIN net : q.of = c => q = p
    /\ AtServer(c) => cpc[c] = "wait" /\ ~err[c] /\ held.data = sent[c]

Few(c) ==
  \A k \in 1..sent[c] : Shows(shown[c], k) + InNet(c, k) + AtServerOnce(c, k) <= 1 + extra[c]

Awaits(c) == cpc[c] = "wait" => OnItsWay(c) \/ AtServer(c) \/ err[c] \/ c \in lost

UdpOf(c) == Sane(c) /\ Kept(c) /\ Single(c) /\ Few(c) /\ Awaits(c)

UdpAll == UdpTypeOK /\ \A c \in Hosts : UdpOf(c)

UdpInv == program \in EchoPrograms => UdpAll

LEMMA PacketFields ==
  /\ \A c \in Hosts, w \in {"to", "back"}, k \in Int : Packet(c, w, k) \in Datagrams
  /\ \A c, w, k : /\ Packet(c, w, k).of = c /\ Packet(c, w, k).way = w
                  /\ Packet(c, w, k).data = k
  /\ \A p \in Datagrams : /\ p.of \in Hosts /\ p.way \in {"to", "back"} /\ p.data \in Int
                          /\ p = Packet(p.of, p.way, p.data)
BY DEF Packet, Datagrams

(* What happens to the net when a datagram leaves it or comes to it.         *)
LEMMA NetTaken ==
  ASSUME UdpTypeOK, NEW p \in DOMAIN net, net' = net (-) SetToBag({p})
  PROVE  /\ p \in Datagrams /\ Counted(net)' /\ (DOMAIN net)' \subseteq DOMAIN net
         /\ \A q : Tally(net, q)' = IF q = p THEN Tally(net, p) - 1 ELSE Tally(net, q)
         /\ \A c \in Hosts, k \in Int :
              /\ InNet(c, k) \in Nat
              /\ InNet(c, k)' = IF c = p.of /\ k = p.data THEN InNet(c, k) - 1 ELSE InNet(c, k)
<1>1. /\ p \in Datagrams /\ Counted(net)' /\ (DOMAIN net)' \subseteq DOMAIN net
      /\ \A q : Tally(net, q)' = IF q = p THEN Tally(net, p) - 1 ELSE Tally(net, q)
  BY BagTaken DEF UdpTypeOK
<1>2. ASSUME NEW c \in Hosts, NEW k \in Int
      PROVE  /\ InNet(c, k) \in Nat
             /\ InNet(c, k)' = IF c = p.of /\ k = p.data THEN InNet(c, k) - 1 ELSE InNet(c, k)
  <2> DEFINE a == Packet(c, "to", k)
             b == Packet(c, "back", k)
  <2>1. /\ (p = a <=> c = p.of /\ p.way = "to" /\ k = p.data)
        /\ (p = b <=> c = p.of /\ p.way = "back" /\ k = p.data)
        /\ p.way \in {"to", "back"}
    BY <1>1, PacketFields
  <2>2. /\ InNet(c, k) = Tally(net, a) + Tally(net, b)
        /\ InNet(c, k)' = Tally(net, a)' + Tally(net, b)'
    BY DEF InNet
  <2>3. Tally(net, a) \in Nat /\ Tally(net, b) \in Nat
    BY TallyNat DEF UdpTypeOK
  <2>4. /\ Tally(net, a)' = IF a = p THEN Tally(net, a) - 1 ELSE Tally(net, a)
        /\ Tally(net, b)' = IF b = p THEN Tally(net, b) - 1 ELSE Tally(net, b)
    BY <1>1
  <2> HIDE DEF a, b
  <2> QED BY <2>1, <2>2, <2>3, <2>4
<1> QED BY <1>1, <1>2

LEMMA NetGiven ==
  ASSUME UdpTypeOK, NEW p \in Datagrams, net' = net (+) SetToBag({p})
  PROVE  /\ Counted(net)' /\ (DOMAIN net)' = DOMAIN net \cup {p}
         /\ \A q : Tally(net, q)' = IF q = p THEN Tally(net, p) + 1 ELSE Tally(net, q)
         /\ \A c \in Hosts, k \in Int :
              /\ InNet(c, k) \in Nat
              /\ InNet(c, k)' = IF c = p.of /\ k = p.data THEN InNet(c, k) + 1 ELSE InNet(c, k)
<1>0. Counted(net)
  BY DEF UdpTypeOK
<1>1. /\ Counted(net)' /\ (DOMAIN net)' = DOMAIN net \cup {p}
      /\ \A q : Tally(net, q)' = IF q = p THEN Tally(net, p) + 1 ELSE Tally(net, q)
  <2> DEFINE n == net (+) SetToBag({p})
  <2>1. /\ Counted(n) /\ DOMAIN n = DOMAIN net \cup {p}
        /\ \A q : Tally(n, q) = IF q = p THEN Tally(net, p) + 1 ELSE Tally(net, q)
    BY <1>0, BagSent
  <2>2. net' = n
    OBVIOUS
  <2> HIDE DEF n
  <2> QED BY <2>1, <2>2
<1>2. ASSUME NEW c \in Hosts, NEW k \in Int
      PROVE  /\ InNet(c, k) \in Nat
             /\ InNet(c, k)' = IF c = p.of /\ k = p.data THEN InNet(c, k) + 1 ELSE InNet(c, k)
  <2> DEFINE a == Packet(c, "to", k)
             b == Packet(c, "back", k)
  <2>1. /\ (p = a <=> c = p.of /\ p.way = "to" /\ k = p.data)
        /\ (p = b <=> c = p.of /\ p.way = "back" /\ k = p.data)
        /\ p.way \in {"to", "back"}
    BY PacketFields
  <2>2. /\ InNet(c, k) = Tally(net, a) + Tally(net, b)
        /\ InNet(c, k)' = Tally(net, a)' + Tally(net, b)'
    BY DEF InNet
  <2>3. Tally(net, a) \in Nat /\ Tally(net, b) \in Nat
    BY TallyNat DEF UdpTypeOK
  <2>4. /\ Tally(net, a)' = IF a = p THEN Tally(net, a) + 1 ELSE Tally(net, a)
        /\ Tally(net, b)' = IF b = p THEN Tally(net, b) + 1 ELSE Tally(net, b)
    BY <1>1
  <2> HIDE DEF a, b
  <2> QED BY <2>1, <2>2, <2>3, <2>4
<1> QED BY <1>1, <1>2

(* Nothing has happened to c: at most some of what it sent is known as lost. *)
LEMMA UdpFrame ==
  ASSUME UdpTypeOK, UdpTypeOK', NEW c \in Hosts, UdpOf(c), program' = program,
         cpc'[c] = cpc[c], sent'[c] = sent[c], err'[c] = err[c], shown'[c] = shown[c],
         extra'[c] = extra[c], lost \subseteq lost', AtServer(c)' <=> AtServer(c),
         AtServer(c) => held' = held,
         \A q \in Datagrams : q.of = c => Tally(net, q)' = Tally(net, q)
  PROVE  UdpOf(c)'
<1>1. /\ DOMAIN net \subseteq Datagrams /\ (DOMAIN net)' \subseteq Datagrams
      /\ \A q \in Datagrams : q.of = c => (q \in DOMAIN net' <=> q \in DOMAIN net)
  <2>1. Counted(net) /\ Counted(net')
    BY DEF UdpTypeOK
  <2>2. /\ \A x : x \in DOMAIN net <=> Tally(net, x) # 0
        /\ \A x : x \in DOMAIN net' <=> Tally(net', x) # 0
    BY <2>1, TallyNat
  <2> QED BY <2>2 DEF UdpTypeOK
<1>2. Sane(c)' /\ Awaits(c)' /\ Kept(c)'
  BY <1>1 DEF UdpOf, Sane, Awaits, Kept, OnItsWay, Connected
<1>3. Single(c)'
  BY <1>1 DEF UdpOf, Single
<1>4. Few(c)'
  <2>1. SUFFICES ASSUME NEW k \in 1..sent[c]
                 PROVE  InNet(c, k)' = InNet(c, k) /\ AtServerOnce(c, k)' = AtServerOnce(c, k)
    BY DEF UdpOf, Few
  <2>2. k \in Int
    BY DEF UdpTypeOK
  <2> QED BY <2>2, PacketFields DEF InNet, AtServerOnce
<1> QED BY <1>2, <1>3, <1>4 DEF UdpOf

LEMMA UdpStep ==
  ASSUME UdpAll, NEW c \in Hosts, UdpTypeOK', UdpOf(c)', program' = program,
         lost \subseteq lost',
         \A d \in Hosts \ {c} :
           /\ cpc'[d] = cpc[d] /\ sent'[d] = sent[d] /\ err'[d] = err[d]
           /\ shown'[d] = shown[d] /\ extra'[d] = extra[d]
           /\ AtServer(d)' <=> AtServer(d)
           /\ AtServer(d) => held' = held,
         \A q \in Datagrams : q.of # c => Tally(net, q)' = Tally(net, q)
  PROVE  UdpAll'
<1>1. ASSUME NEW d \in Hosts \ {c} PROVE UdpOf(d)'
  BY UdpFrame DEF UdpAll
<1> QED BY <1>1 DEF UdpAll

LEMMA UdpParts ==
  ASSUME UdpAll, NEW c \in Hosts
  PROVE  /\ UdpTypeOK /\ Sane(c) /\ Kept(c) /\ Single(c) /\ Few(c) /\ Awaits(c)
         /\ sent[c] \in Nat /\ extra[c] \in Nat /\ shown[c] \in Seq(Int)
         /\ Counted(net) /\ DOMAIN net \subseteq Datagrams
BY DEF UdpAll, UdpOf, UdpTypeOK

(* If nothing intruded, then with its only datagram nothing is left.         *)
LEMMA NoneLeft ==
  ASSUME UdpAll, NEW p \in DOMAIN net, net' = net (-) SetToBag({p}), extra[p.of] = 0
  PROVE  /\ \A q \in DOMAIN net' : q.of # p.of
         /\ cpc[p.of] = "wait" /\ ~err[p.of] /\ p.data = sent[p.of] /\ ~AtServer(p.of)
<1>1. UdpTypeOK /\ p \in Datagrams /\ p.of \in Hosts
  BY PacketFields DEF UdpAll, UdpTypeOK
<1>2. PICK c \in Hosts : c = p.of
  BY <1>1
<1>3. Single(c)
  BY UdpParts
<1>4. /\ cpc[c] = "wait" /\ ~err[c] /\ p.data = sent[c] /\ Tally(net, p) = 1 /\ ~AtServer(c)
      /\ \A q \in DOMAIN net : q.of = c => q = p
  BY <1>2, <1>3 DEF Single
<1>5. Counted(net') /\ DOMAIN net' \subseteq DOMAIN net /\ Tally(net', p) = 1 - 1
  <2>1. Tally(net', p) = Tally(net, p) - 1
    BY <1>1, NetTaken
  <2> QED BY <1>1, <1>4, <2>1, NetTaken
<1>6. p \notin DOMAIN net'
  BY <1>5, TallyNat
<1> QED BY <1>2, <1>4, <1>5, <1>6

(* A datagram is lost, or comes where no server is.                          *)
LEMMA UdpLost ==
  ASSUME UdpAll, NEW p \in DOMAIN net, net' = net (-) SetToBag({p}), program' = program,
         UNCHANGED <<extra, server, cpc, sent, shown>>, lost \subseteq lost',
         \/ UNCHANGED err /\ p.of \in lost'
         \/ Connected /\ err' = [err EXCEPT ![p.of] = TRUE]
  PROVE  UdpAll'
<1>1. /\ UdpTypeOK /\ p \in Datagrams /\ p.of \in Hosts
  BY PacketFields DEF UdpAll, UdpTypeOK
<1>2. PICK c \in Hosts : c = p.of
  BY <1>1
<1>3. /\ Sane(c) /\ Kept(c) /\ Single(c) /\ Few(c) /\ Awaits(c)
      /\ sent[c] \in Nat /\ extra[c] \in Nat
  BY UdpParts
<1>4. /\ Counted(net)' /\ (DOMAIN net)' \subseteq DOMAIN net
      /\ \A q : q # p => Tally(net, q)' = Tally(net, q)
      /\ \A k \in Int : InNet(c, k) \in Nat /\ InNet(c, k)' \in {InNet(c, k), InNet(c, k) - 1}
  BY <1>1, NetTaken
<1>5. /\ UdpTypeOK' /\ err'[c] \in BOOLEAN /\ (err'[c] => err[c] \/ Connected)
      /\ \A d \in Hosts \ {c} : err'[d] = err[d]
      /\ c \in lost' \/ err'[c]
  BY <1>1, <1>2, <1>4 DEF UdpTypeOK, server
<1>6. AtServer(c)' = AtServer(c) /\ Connected' = Connected
      /\ \A k : AtServerOnce(c, k)' = AtServerOnce(c, k)
  BY DEF AtServer, AtServerOnce, Connected, server
<1>7. Sane(c)' /\ Kept(c)'
  BY <1>3, <1>4, <1>5, <1>6 DEF Sane, Kept, server
<1>8. Single(c)'
  <2>1. SUFFICES ASSUME extra[c] = 0 PROVE Single(c)'
    BY DEF Single
  <2>2. ~AtServer(c) /\ \A q \in DOMAIN net' : q.of # c
    BY <1>2, <2>1, NoneLeft
  <2> QED BY <1>3, <1>6, <2>1, <2>2 DEF Single
<1>9. Few(c)'
  <2>1. SUFFICES ASSUME NEW k \in 1..sent[c]
                 PROVE  Shows(shown[c], k) + InNet(c, k)' + AtServerOnce(c, k) <= 1 + extra[c]
    BY <1>6 DEF Few
  <2>2. /\ Shows(shown[c], k) + InNet(c, k) + AtServerOnce(c, k) <= 1 + extra[c]
        /\ Shows(shown[c], k) \in Nat /\ AtServerOnce(c, k) \in Nat
        /\ InNet(c, k) \in Nat /\ InNet(c, k)' \in {InNet(c, k), InNet(c, k) - 1}
    <3>1. k \in Int /\ shown[c] \in Seq(Int)
      BY <1>3, UdpParts
    <3>2. Shows(shown[c], k) \in Nat
      BY <3>1, ShowsMore
    <3>3. AtServerOnce(c, k) \in Nat
      BY DEF AtServerOnce
    <3> QED BY <1>3, <1>4, <3>1, <3>2, <3>3 DEF Few
  <2> QED BY <1>3, <2>2
<1>10. Awaits(c)'
  BY <1>5 DEF Awaits
<1> QED BY <1>2, <1>4, <1>5, <1>7, <1>8, <1>9, <1>10, UdpStep DEF UdpOf, AtServer, server

(* A datagram intrudes.                                                      *)
LEMMA UdpIntruded ==
  ASSUME UdpAll, NEW c \in Hosts, NEW p \in Datagrams, p.of = c, Intrude(p), UNCHANGED echo,
         p.data \in 1..sent[c] \/ (p.way = "back" /\ p.data = Foreign), program' = program
  PROVE  UdpAll'
<1>1. /\ net' = net (+) SetToBag({p}) /\ extra' = [extra EXCEPT ![c] = extra[c] + 1]
      /\ UNCHANGED <<lost, spc, held, cpc, sent, err, shown>>
  BY DEF Intrude, echo, server, clients
<1>2. /\ UdpTypeOK /\ Sane(c) /\ Kept(c) /\ Single(c) /\ Few(c) /\ Awaits(c)
      /\ sent[c] \in Nat /\ extra[c] \in Nat /\ extra \in [Hosts -> Nat]
  BY UdpParts DEF UdpTypeOK
<1>3. /\ Counted(net)' /\ (DOMAIN net)' = DOMAIN net \cup {p}
      /\ \A q : q # p => Tally(net, q)' = Tally(net, q)
      /\ \A k \in Int : InNet(c, k) \in Nat /\ InNet(c, k)' \in {InNet(c, k), InNet(c, k) + 1}
  BY <1>1, <1>2, NetGiven
<1>4. /\ extra' \in [Hosts -> Nat] /\ extra'[c] = extra[c] + 1
      /\ \A d \in Hosts \ {c} : extra'[d] = extra[d]
  BY <1>1, <1>2
<1>5. UdpTypeOK'
  BY <1>1, <1>2, <1>3, <1>4 DEF UdpTypeOK
<1>6. AtServer(c)' = AtServer(c) /\ Connected' = Connected
      /\ \A k : AtServerOnce(c, k)' = AtServerOnce(c, k)
  BY <1>1 DEF AtServer, AtServerOnce, Connected
<1>7. Sane(c)' /\ Kept(c)' /\ Awaits(c)'
  BY <1>1, <1>2, <1>3, <1>6 DEF Sane, Kept, Awaits, OnItsWay
<1>8. Single(c)'
  BY <1>2, <1>4 DEF Single
<1>9. Few(c)'
  <2>1. SUFFICES ASSUME NEW k \in 1..sent[c]
                 PROVE  Shows(shown[c], k) + InNet(c, k)' + AtServerOnce(c, k) <= 1 + (extra[c] + 1)
    BY <1>1, <1>4, <1>6 DEF Few
  <2>2. /\ Shows(shown[c], k) + InNet(c, k) + AtServerOnce(c, k) <= 1 + extra[c]
        /\ Shows(shown[c], k) \in Nat /\ AtServerOnce(c, k) \in Nat
        /\ InNet(c, k) \in Nat /\ InNet(c, k)' \in {InNet(c, k), InNet(c, k) + 1}
    <3>1. k \in Int /\ shown[c] \in Seq(Int)
      BY <1>2, UdpParts
    <3>2. Shows(shown[c], k) \in Nat
      BY <3>1, ShowsMore
    <3>3. AtServerOnce(c, k) \in Nat
      BY DEF AtServerOnce
    <3> QED BY <1>2, <1>3, <3>1, <3>2, <3>3 DEF Few
  <2> QED BY <1>2, <2>2
<1> QED BY <1>1, <1>3, <1>4, <1>5, <1>7, <1>8, <1>9, UdpStep DEF UdpOf, AtServer

LEMMA UdpRecvFrom ==
  ASSUME UdpAll, RecvFrom, program' = program
  PROVE  UdpAll'
<1>1. PICK p \in DOMAIN net : p.way = "to" /\ Take(p) /\ held' = p
  BY DEF RecvFrom
<1>2. /\ net' = net (-) SetToBag({p}) /\ spc = "recv" /\ spc' = "send"
      /\ UNCHANGED <<lost, extra, cpc, sent, err, shown>>
  BY <1>1 DEF RecvFrom, Take, clients
<1>3. /\ UdpTypeOK /\ p \in Datagrams /\ p.of \in Hosts
  BY PacketFields DEF UdpAll, UdpTypeOK
<1>4. PICK c \in Hosts : c = p.of
  BY <1>3
<1>5. /\ Sane(c) /\ Kept(c) /\ Single(c) /\ Few(c) /\ Awaits(c)
      /\ sent[c] \in Nat /\ extra[c] \in Nat /\ shown[c] \in Seq(Int)
  BY UdpParts
<1>6. /\ Counted(net)' /\ (DOMAIN net)' \subseteq DOMAIN net
      /\ \A q : q # p => Tally(net, q)' = Tally(net, q)
      /\ \A k \in Int : /\ InNet(c, k) \in Nat
                        /\ InNet(c, k)' = IF k = p.data THEN InNet(c, k) - 1 ELSE InNet(c, k)
  BY <1>2, <1>3, <1>4, NetTaken
<1>7. UdpTypeOK'
  BY <1>1, <1>2, <1>3, <1>6 DEF UdpTypeOK
<1>8. /\ ~AtServer(c) /\ AtServer(c)' /\ Connected' = Connected
      /\ \A k : AtServerOnce(c, k) = 0 /\ AtServerOnce(c, k)' = IF k = p.data THEN 1 ELSE 0
  BY <1>1, <1>2, <1>4 DEF AtServer, AtServerOnce, Connected
<1>9. p.data \in 1..sent[c]
  BY <1>1, <1>4, <1>5 DEF Sane
<1>10. Sane(c)' /\ Kept(c)' /\ Awaits(c)'
  BY <1>1, <1>2, <1>5, <1>6, <1>8, <1>9 DEF Sane, Kept, Awaits
<1>11. Single(c)'
  <2>1. SUFFICES ASSUME extra[c] = 0 PROVE Single(c)'
    BY <1>2 DEF Single
  <2>2. /\ \A q \in DOMAIN net' : q.of # c
        /\ cpc[c] = "wait" /\ ~err[c] /\ p.data = sent[c]
    BY <1>2, <1>4, <2>1, NoneLeft
  <2> QED BY <1>1, <1>2, <1>5, <2>1, <2>2 DEF Single
<1>12. Few(c)'
  <2>1. SUFFICES ASSUME NEW k \in 1..sent[c]
                 PROVE  Shows(shown[c], k) + InNet(c, k)' + AtServerOnce(c, k)' <= 1 + extra[c]
    BY <1>2 DEF Few
  <2>2. k \in Int /\ Shows(shown[c], k) \in Nat
    BY <1>5, ShowsMore
  <2>3. Shows(shown[c], k) + InNet(c, k) + 0 <= 1 + extra[c]
    BY <1>5, <1>8 DEF Few
  <2>4. /\ InNet(c, k) \in Nat /\ InNet(c, k)' = IF k = p.data THEN InNet(c, k) - 1 ELSE InNet(c, k)
        /\ AtServerOnce(c, k)' = IF k = p.data THEN 1 ELSE 0
    BY <1>6, <1>8, <2>2
  <2> QED BY <1>5, <2>2, <2>3, <2>4
<1>13. \A d \in Hosts \ {c} : ~AtServer(d) /\ ~AtServer(d)'
  BY <1>1, <1>2, <1>4 DEF AtServer
<1> QED BY <1>2, <1>4, <1>6, <1>7, <1>10, <1>11, <1>12, <1>13, UdpStep DEF UdpOf

LEMMA UdpSendTo ==
  ASSUME UdpAll, SendTo, program' = program
  PROVE  UdpAll'
<1>1. /\ spc = "send" /\ spc' = "recv" /\ net' = net (+) SetToBag({[held EXCEPT !.way = "back"]})
      /\ UNCHANGED <<lost, extra, cpc, sent, err, shown>>
  BY DEF SendTo, Send, clients
<1>2. UdpTypeOK /\ held \in Datagrams
  BY <1>1 DEF UdpAll, UdpTypeOK
<1>3. PICK p \in Datagrams :
        /\ p = [held EXCEPT !.way = "back"] /\ p.of = held.of /\ p.data = held.data
        /\ p.way = "back" /\ held.of \in Hosts /\ held.data \in Int
  <2> DEFINE b == [held EXCEPT !.way = "back"]
  <2>1. /\ b \in Datagrams /\ b.of = held.of /\ b.data = held.data /\ b.way = "back"
        /\ held.of \in Hosts /\ held.data \in Int
    BY <1>2 DEF Datagrams
  <2> HIDE DEF b
  <2> QED BY <2>1 DEF b
<1>4. PICK c \in Hosts : c = p.of
  BY <1>3
<1>5. /\ Sane(c) /\ Kept(c) /\ Single(c) /\ Few(c) /\ Awaits(c)
      /\ sent[c] \in Nat /\ extra[c] \in Nat /\ shown[c] \in Seq(Int)
  BY UdpParts
<1>6. /\ Counted(net)' /\ (DOMAIN net)' = DOMAIN net \cup {p}
      /\ Tally(net, p)' = Tally(net, p) + 1
      /\ \A q : q # p => Tally(net, q)' = Tally(net, q)
      /\ \A k \in Int : /\ InNet(c, k) \in Nat
                        /\ InNet(c, k)' = IF k = p.data THEN InNet(c, k) + 1 ELSE InNet(c, k)
  <2>1. /\ Counted(net)' /\ (DOMAIN net)' = DOMAIN net \cup {p}
        /\ \A q : Tally(net, q)' = IF q = p THEN Tally(net, p) + 1 ELSE Tally(net, q)
    BY <1>1, <1>2, <1>3, NetGiven
  <2>2. \A k \in Int :
          /\ InNet(c, k) \in Nat
          /\ InNet(c, k)' = IF c = p.of /\ k = p.data THEN InNet(c, k) + 1 ELSE InNet(c, k)
    BY <1>1, <1>2, <1>3, NetGiven
  <2> QED BY <1>4, <2>1, <2>2
<1>7. UdpTypeOK'
  BY <1>1, <1>2, <1>3, <1>6 DEF UdpTypeOK
<1>8. /\ AtServer(c) /\ ~AtServer(c)' /\ Connected' = Connected
      /\ \A k : /\ AtServerOnce(c, k) = IF k = p.data THEN 1 ELSE 0
                /\ AtServerOnce(c, k)' = 0
  BY <1>1, <1>3, <1>4 DEF AtServer, AtServerOnce, Connected
<1>9. Sane(c)' /\ Kept(c)' /\ Awaits(c)'
  <2>1. p.data \in 1..sent[c]
    BY <1>3, <1>4, <1>5, <1>8 DEF Sane
  <2>2. Sane(c)'
    BY <1>1, <1>5, <1>6, <1>8, <2>1 DEF Sane
  <2>3. OnItsWay(c)'
    BY <1>4, <1>6 DEF OnItsWay
  <2> QED BY <1>1, <1>5, <1>8, <2>2, <2>3 DEF Kept, Awaits
<1>10. Single(c)'
  <2>1. SUFFICES ASSUME extra[c] = 0 PROVE Single(c)'
    BY <1>1 DEF Single
  <2>2. /\ \A q \in DOMAIN net : q.of # c
        /\ cpc[c] = "wait" /\ ~err[c] /\ p.data = sent[c]
    BY <1>3, <1>5, <1>8, <2>1 DEF Single
  <2>3. Tally(net, p) = 0
    BY <1>4, <2>2 DEF Tally
  <2>4. Tally(net, p)' = 1 /\ \A q \in DOMAIN net' : q.of = c => q = p
    BY <1>6, <2>2, <2>3
  <2>5. ASSUME NEW q \in DOMAIN net', q.of = c
        PROVE  /\ cpc'[c] = "wait" /\ ~err'[c] /\ q.data = sent'[c] /\ Tally(net, q)' = 1
               /\ ~AtServer(c)' /\ \A r \in DOMAIN net' : r.of = c => r = q
    BY <1>1, <1>8, <2>2, <2>4, <2>5
  <2> QED BY <1>1, <1>5, <1>8, <2>1, <2>5 DEF Single
<1>11. Few(c)'
  <2>1. SUFFICES ASSUME NEW k \in 1..sent[c]
                 PROVE  Shows(shown[c], k) + InNet(c, k)' + AtServerOnce(c, k)' <= 1 + extra[c]
    BY <1>1 DEF Few
  <2>2. k \in Int /\ Shows(shown[c], k) \in Nat
    BY <1>5, ShowsMore
  <2>3. Shows(shown[c], k) + InNet(c, k) + AtServerOnce(c, k) <= 1 + extra[c]
    BY <1>5 DEF Few
  <2>4. /\ InNet(c, k) \in Nat /\ InNet(c, k)' = IF k = p.data THEN InNet(c, k) + 1 ELSE InNet(c, k)
        /\ AtServerOnce(c, k) = IF k = p.data THEN 1 ELSE 0
        /\ AtServerOnce(c, k)' = 0
    BY <1>6, <1>8, <2>2
  <2> QED BY <1>5, <2>2, <2>3, <2>4
<1>12. \A d \in Hosts \ {c} : ~AtServer(d) /\ ~AtServer(d)'
  BY <1>1, <1>3, <1>4 DEF AtServer
<1> QED BY <1>1, <1>4, <1>6, <1>7, <1>9, <1>10, <1>11, <1>12, UdpStep DEF UdpOf

LEMMA UdpServerMoves ==
  ASSUME UdpAll, StartServer \/ StopServer, program' = program
  PROVE  UdpAll'
<1>1. /\ UNCHANGED <<net, extra, cpc, sent, err, shown>>
      /\ lost \subseteq lost' /\ spc' # "send" /\ spc' \in {"off", "recv"}
      /\ spc = "send" => held.of \in lost'
  BY DEF StartServer, StopServer, network, clients
<1>2. UdpTypeOK /\ UdpTypeOK'
  BY <1>1 DEF UdpAll, UdpTypeOK
<1>3. ASSUME NEW c \in Hosts PROVE UdpOf(c)'
  <2>1. Sane(c) /\ Kept(c) /\ Single(c) /\ Few(c) /\ Awaits(c) /\ UdpOf(c)
    BY UdpParts DEF UdpAll
  <2>2. CASE ~AtServer(c)
    <3>1. ~AtServer(c)' /\ \A q : Tally(net, q)' = Tally(net, q)
      BY <1>1 DEF AtServer
    <3> QED BY <1>1, <1>2, <2>1, <2>2, <3>1, UdpFrame
  <2>3. CASE AtServer(c)
    <3>1. ~AtServer(c)' /\ c \in lost' /\ Connected' = Connected
      BY <1>1, <2>3 DEF AtServer, Connected
    <3>2. Sane(c)' /\ Kept(c)' /\ Awaits(c)'
      BY <1>1, <2>1, <3>1 DEF Sane, Kept, Awaits
    <3>3. Single(c)'
      BY <1>1, <2>1, <3>1 DEF Single
    <3>4. Few(c)'
      <4>1. SUFFICES ASSUME NEW k \in 1..sent[c]
                     PROVE  Shows(shown[c], k) + InNet(c, k) + AtServerOnce(c, k)' <= 1 + extra[c]
        BY <1>1 DEF Few, InNet
      <4>2. /\ k \in Int /\ Shows(shown[c], k) \in Nat /\ extra[c] \in Nat
            /\ InNet(c, k) \in Int
        <5>1. Tally(net, Packet(c, "to", k)) \in Nat /\ Tally(net, Packet(c, "back", k)) \in Nat
          BY <1>2, TallyNat DEF UdpTypeOK
        <5> QED BY <5>1, UdpParts, ShowsMore DEF InNet
      <4>3. Shows(shown[c], k) + InNet(c, k) + AtServerOnce(c, k) <= 1 + extra[c]
        BY <2>1 DEF Few
      <4>4. AtServerOnce(c, k)' = 0 /\ AtServerOnce(c, k) \in {0, 1}
        BY <3>1 DEF AtServerOnce
      <4> QED BY <4>2, <4>3, <4>4
    <3> QED BY <3>2, <3>3, <3>4 DEF UdpOf
  <2> QED BY <2>2, <2>3
<1> QED BY <1>2, <1>3 DEF UdpAll

(* A client types a line.                                                    *)
LEMMA UdpSendLine ==
  ASSUME UdpAll, NEW c \in Hosts, SendLine(c), program' = program
  PROVE  UdpAll'
<1> DEFINE n == sent[c] + 1
<1>1. /\ cpc[c] = "prompt" /\ sent' = [sent EXCEPT ![c] = n]
      /\ err' = [err EXCEPT ![c] = FALSE] /\ cpc' = [cpc EXCEPT ![c] = "wait"]
      /\ UNCHANGED <<spc, held, shown>>
  BY DEF SendLine, server
<1>2. /\ UdpTypeOK /\ Sane(c) /\ Kept(c) /\ Single(c) /\ Few(c) /\ Awaits(c)
      /\ sent[c] \in Nat /\ extra[c] \in Nat /\ shown[c] \in Seq(Int)
  BY UdpParts
<1>3. /\ n \in Nat /\ sent'[c] = n /\ cpc'[c] = "wait" /\ ~err'[c]
      /\ \A d \in Hosts \ {c} : sent'[d] = sent[d] /\ cpc'[d] = cpc[d] /\ err'[d] = err[d]
      /\ 1..n = 1..sent[c] \cup {n} /\ n \notin 1..sent[c] /\ sent[c] = n - 1
  <2>1. n \in Nat /\ 1..n = 1..sent[c] \cup {n} /\ n \notin 1..sent[c] /\ sent[c] = n - 1
    BY <1>2
  <2> HIDE DEF n
  <2> QED BY <1>1, <1>2, <2>1 DEF UdpTypeOK
<1>4. /\ sent' \in [Hosts -> Nat] /\ cpc' \in [Hosts -> {"prompt", "wait", "done"}]
      /\ err' \in [Hosts -> BOOLEAN]
  BY <1>1, <1>2, <1>3 DEF UdpTypeOK
<1>5. AtServer(c)' = AtServer(c) /\ Connected' = Connected
      /\ \A k : AtServerOnce(c, k)' = AtServerOnce(c, k)
  BY <1>1 DEF AtServer, AtServerOnce, Connected
<1>6. Len(shown[c]) = sent[c]
  BY <1>1, <1>2 DEF Kept
<1>7. Shows(shown[c], n) = 0 /\ InNet(c, n) = 0 /\ AtServerOnce(c, n) = 0
  <2>1. Shows(shown[c], n) = 0
    <3>1. \A j \in DOMAIN shown[c] : shown[c][j] # n
      <4>0. DOMAIN shown[c] = 1..Len(shown[c])
        BY <1>2
      <4>1. SUFFICES ASSUME NEW j \in 1..Len(shown[c]) PROVE shown[c][j] # n
        BY <4>0
      <4>2. shown[c][j] \in 1..j \/ shown[c][j] \in {-1, 0}
        BY <1>2 DEF Kept, Own, Foreign
      <4>3. j <= sent[c] /\ j \in Int
        BY <1>2, <1>6
      <4> QED BY <1>2, <4>2, <4>3
    <3>2. {j \in DOMAIN shown[c] : shown[c][j] = n} = {}
      BY <3>1
    <3> QED BY <3>2, FS_EmptySet DEF Shows
  <2>2. n # Foreign
    BY <1>2 DEF Foreign
  <2>3. \A p \in DOMAIN net : p.of = c => p.data # n
    BY <1>2, <1>3, <2>2 DEF Sane
  <2>4. Packet(c, "to", n) \notin DOMAIN net /\ Packet(c, "back", n) \notin DOMAIN net
    BY <2>3, PacketFields
  <2>5. InNet(c, n) = 0
    BY <2>4 DEF InNet, Tally
  <2>6. AtServerOnce(c, n) = 0
    BY <1>2, <1>3 DEF AtServerOnce, Sane
  <2> QED BY <2>1, <2>5, <2>6
<1>8. ASSUME NEW k \in 1..n,
             NEW x \in {0, 1}, InNet(c, k)' = InNet(c, k) + x, x = 1 => k = n, extra' = extra
      PROVE  Shows(shown[c], k)' + InNet(c, k)' + AtServerOnce(c, k)' <= 1 + extra'[c]
  <2>1. CASE k = n
    BY <1>1, <1>2, <1>5, <1>7, <1>8, <2>1
  <2>2. CASE k # n
    <3>1. k \in 1..sent[c] /\ x = 0
      BY <1>3, <1>8, <2>2
    <3>2. InNet(c, k) \in Int
      <4>1. Tally(net, Packet(c, "to", k)) \in Nat /\ Tally(net, Packet(c, "back", k)) \in Nat
        BY <1>2, TallyNat DEF UdpTypeOK
      <4> QED BY <4>1 DEF InNet
    <3>3. InNet(c, k)' = InNet(c, k)
      BY <1>8, <3>1, <3>2
    <3> QED BY <1>1, <1>2, <1>5, <1>8, <3>1, <3>3 DEF Few
  <2> QED BY <2>1, <2>2
<1> HIDE DEF n
<1>9. CASE err[c]
  <2>1. c \in lost' /\ lost \subseteq lost' /\ UNCHANGED <<net, extra>>
    BY <1>9 DEF SendLine
  <2>2. UdpTypeOK'
    BY <1>1, <1>2, <1>4, <2>1 DEF UdpTypeOK
  <2>3. Sane(c)'
    BY <1>1, <1>2, <1>3, <1>5, <2>1 DEF Sane
  <2>4. Kept(c)'
    BY <1>1, <1>2, <1>3, <1>5, <1>6 DEF Kept
  <2>5. Single(c)'
    BY <1>1, <1>2, <1>5, <1>9, <2>1 DEF Single
  <2>6. Few(c)'
    <3>1. ASSUME NEW k \in 1..n
          PROVE  Shows(shown[c], k)' + InNet(c, k)' + AtServerOnce(c, k)' <= 1 + extra'[c]
      <4>1. Tally(net, Packet(c, "to", k)) \in Nat /\ Tally(net, Packet(c, "back", k)) \in Nat
        BY <1>2, TallyNat DEF UdpTypeOK
      <4>2. InNet(c, k)' = InNet(c, k) + 0
        BY <2>1, <4>1 DEF InNet
      <4> QED BY <1>8, <2>1, <4>2
    <3> QED BY <1>3, <3>1 DEF Few
  <2>7. Awaits(c)'
    BY <2>1 DEF Awaits
  <2> QED BY <1>1, <1>3, <2>1, <2>2, <2>3, <2>4, <2>5, <2>6, <2>7, UdpStep DEF UdpOf, AtServer
<1>10. CASE ~err[c]
  <2>1. PICK p \in Datagrams : p = Packet(c, "to", n) /\ p.of = c /\ p.data = n
    BY <1>3, PacketFields
  <2>2. net' = net (+) SetToBag({p}) /\ UNCHANGED <<lost, extra>>
    BY <1>10, <2>1 DEF SendLine, Send, n
  <2>3. /\ Counted(net)' /\ (DOMAIN net)' = DOMAIN net \cup {p}
        /\ \A q : Tally(net, q)' = IF q = p THEN Tally(net, p) + 1 ELSE Tally(net, q)
    BY <1>2, <2>2, NetGiven
  <2>4. \A k \in Int : InNet(c, k)' = IF k = n THEN InNet(c, k) + 1 ELSE InNet(c, k) + 0
    <3>1. \A k \in Int : /\ InNet(c, k) \in Nat
                         /\ InNet(c, k)' = IF c = p.of /\ k = p.data THEN InNet(c, k) + 1
                                           ELSE InNet(c, k)
      BY <1>2, <2>2, NetGiven
    <3> QED BY <2>1, <3>1
  <2>5. UdpTypeOK'
    BY <1>1, <1>2, <1>4, <2>2, <2>3 DEF UdpTypeOK
  <2>6. Sane(c)'
    BY <1>1, <1>2, <1>3, <1>5, <2>1, <2>3 DEF Sane
  <2>7. Kept(c)'
    BY <1>1, <1>2, <1>3, <1>5, <1>6 DEF Kept
  <2>8. Single(c)'
    <3>1. SUFFICES ASSUME extra[c] = 0 PROVE Single(c)'
      BY <2>2 DEF Single
    <3>2. ~AtServer(c) /\ \A q \in DOMAIN net : q.of # c
      BY <1>1, <1>2, <3>1 DEF Single
    <3>3. Tally(net, p) = 0
      BY <2>1, <3>2 DEF Tally
    <3>4. Tally(net, p)' = 1 /\ \A q \in DOMAIN net' : q.of = c => q = p
      BY <2>3, <3>2, <3>3
    <3>5. ASSUME NEW q \in DOMAIN net', q.of = c
          PROVE  /\ cpc'[c] = "wait" /\ ~err'[c] /\ q.data = sent'[c] /\ Tally(net, q)' = 1
                 /\ ~AtServer(c)' /\ \A r \in DOMAIN net' : r.of = c => r = q
      BY <1>3, <1>5, <2>1, <3>2, <3>4, <3>5
    <3> QED BY <1>1, <1>2, <1>5, <3>1, <3>2, <3>5 DEF Single
  <2>9. Few(c)'
    <3>1. ASSUME NEW k \in 1..n
          PROVE  Shows(shown[c], k)' + InNet(c, k)' + AtServerOnce(c, k)' <= 1 + extra'[c]
      <4>1. k \in Int
        BY <1>3
      <4>2. CASE k = n
        <5>1. InNet(c, k)' = InNet(c, k) + 1
          BY <2>4, <4>1, <4>2
        <5> QED BY <1>8, <2>2, <4>2, <5>1
      <4>3. CASE k # n
        <5>1. InNet(c, k)' = InNet(c, k) + 0
          BY <2>4, <4>1, <4>3
        <5> QED BY <1>8, <2>2, <4>3, <5>1
      <4> QED BY <4>2, <4>3
    <3> QED BY <1>3, <3>1 DEF Few
  <2>10. Awaits(c)'
    BY <2>1, <2>3 DEF Awaits, OnItsWay
  <2> QED BY <1>1, <1>3, <2>1, <2>2, <2>3, <2>5, <2>6, <2>7, <2>8, <2>9, <2>10, UdpStep
          DEF UdpOf, AtServer
<1> QED BY <1>9, <1>10

LEMMA UdpLeave ==
  ASSUME UdpAll, NEW c \in Hosts, Leave(c), program' = program
  PROVE  UdpAll'
<1>1. /\ cpc[c] = "prompt" /\ cpc' = [cpc EXCEPT ![c] = "done"]
      /\ UNCHANGED <<net, lost, extra, spc, held, sent, err, shown>>
  BY DEF Leave, network, server
<1>2. /\ UdpTypeOK /\ Sane(c) /\ Kept(c) /\ Single(c) /\ Few(c) /\ Awaits(c)
  BY UdpParts
<1>3. /\ UdpTypeOK' /\ cpc'[c] = "done" /\ \A d \in Hosts \ {c} : cpc'[d] = cpc[d]
  BY <1>1, <1>2 DEF UdpTypeOK
<1>4. AtServer(c)' = AtServer(c) /\ Connected' = Connected
      /\ \A k : AtServerOnce(c, k)' = AtServerOnce(c, k) /\ InNet(c, k)' = InNet(c, k)
      /\ \A q : Tally(net, q)' = Tally(net, q)
  BY <1>1 DEF AtServer, AtServerOnce, Connected, InNet
<1>5. Sane(c)' /\ Kept(c)' /\ Awaits(c)'
  BY <1>1, <1>2, <1>3, <1>4 DEF Sane, Kept, Awaits
<1>6. Single(c)' /\ Few(c)'
  BY <1>1, <1>2, <1>3, <1>4 DEF Single, Few
<1> QED BY <1>1, <1>3, <1>4, <1>5, <1>6, UdpStep DEF UdpOf, AtServer

(* A client prints x as the server's message.                                *)
LEMMA UdpShow ==
  ASSUME UdpAll, NEW c \in Hosts, NEW x \in Int, cpc[c] = "wait", Show(c, x),
         x \in 1..sent[c] \cup (IF Connected THEN {Own} ELSE {Foreign}),
         extra[c] = 0 => x \in {sent[c], Own}, program' = program
  PROVE  /\ shown' \in [Hosts -> Seq(Int)] /\ Kept(c)'
         /\ cpc' \in [Hosts -> {"prompt", "wait", "done"}] /\ cpc'[c] = "prompt"
         /\ UNCHANGED <<spc, held, sent>>
         /\ \A d \in Hosts \ {c} : shown'[d] = shown[d] /\ cpc'[d] = cpc[d]
         /\ \A k : /\ Shows(shown[c], k) \in Nat
                   /\ Shows(shown[c], k)'
                        = IF k = x THEN Shows(shown[c], k) + 1 ELSE Shows(shown[c], k)
         /\ extra[c] = 0 => \A j \in 1..Len(shown'[c]) : shown'[c][j] \in {j, Own}
<1> DEFINE s == shown[c]
           t == Append(s, x)
<1>1. /\ shown' = [shown EXCEPT ![c] = t] /\ cpc' = [cpc EXCEPT ![c] = "prompt"]
      /\ UNCHANGED <<spc, held, sent>>
  BY DEF Show, server
<1>2. /\ UdpTypeOK /\ Kept(c) /\ Single(c) /\ sent[c] \in Nat /\ s \in Seq(Int)
  BY UdpParts
<1>3. /\ t \in Seq(Int) /\ Len(t) = Len(s) + 1 /\ t[Len(s) + 1] = x
      /\ \A j \in 1..Len(s) : t[j] = s[j]
      /\ \A k : Shows(s, k) \in Nat
                /\ Shows(t, k) = IF k = x THEN Shows(s, k) + 1 ELSE Shows(s, k)
  BY <1>2, ShowsMore
<1>4. Len(s) = sent[c] - 1 /\ Len(s) \in Nat
  BY <1>2 DEF Kept
<1> HIDE DEF t
<1>5. /\ shown' \in [Hosts -> Seq(Int)] /\ shown'[c] = t
      /\ cpc' \in [Hosts -> {"prompt", "wait", "done"}] /\ cpc'[c] = "prompt"
      /\ \A d \in Hosts \ {c} : shown'[d] = shown[d] /\ cpc'[d] = cpc[d]
  BY <1>1, <1>2, <1>3 DEF UdpTypeOK
<1>6. Len(t) = sent[c]
  BY <1>2, <1>3, <1>4
<1>7. ASSUME NEW j \in 1..Len(t)
      PROVE  /\ t[j] \in 1..j \cup (IF Connected THEN {Own} ELSE {Foreign})
             /\ extra[c] = 0 => t[j] \in {j, Own}
  <2>1. CASE j \in 1..Len(s)
    BY <1>2, <1>3, <2>1 DEF Kept, Single
  <2>2. CASE j \notin 1..Len(s)
    <3>1. j = Len(s) + 1 /\ j = sent[c]
      BY <1>2, <1>3, <1>4, <2>2
    <3> QED BY <1>3, <3>1
  <2> QED BY <2>1, <2>2
<1>8. Kept(c)'
  <2>1. Connected' = Connected
    BY DEF Connected
  <2> QED BY <1>1, <1>5, <1>6, <1>7, <2>1 DEF Kept
<1>9. \A k : Shows(shown[c], k)' = Shows(t, k)
  BY <1>5 DEF Shows
<1> QED BY <1>1, <1>3, <1>5, <1>7, <1>8, <1>9

LEMMA UdpReceive ==
  ASSUME UdpAll, NEW c \in Hosts, Receive(c), program' = program
  PROVE  UdpAll'
<1>1. PICK p \in DOMAIN net :
        /\ p.of = c /\ p.way = "back" /\ (Connected => p.data # Foreign)
        /\ Take(p) /\ Show(c, p.data)
  BY DEF Receive, Accepted
<1>2. /\ cpc[c] = "wait" /\ net' = net (-) SetToBag({p})
      /\ UNCHANGED <<lost, extra, err>>
  BY <1>1 DEF Receive, Take
<1>3. /\ UdpTypeOK /\ Sane(c) /\ Kept(c) /\ Single(c) /\ Few(c)
      /\ sent[c] \in Nat /\ extra[c] \in Nat /\ p \in Datagrams /\ p.data \in Int
  BY UdpParts, PacketFields
<1>4. p.data \in 1..sent[c] \cup (IF Connected THEN {Own} ELSE {Foreign})
  BY <1>1, <1>3 DEF Sane
<1>5. extra[c] = 0 => /\ ~AtServer(c) /\ p.data = sent[c]
                      /\ \A q \in DOMAIN net' : q.of # c
  BY <1>1, <1>2, NoneLeft
<1>6. /\ shown' \in [Hosts -> Seq(Int)] /\ Kept(c)'
      /\ cpc' \in [Hosts -> {"prompt", "wait", "done"}] /\ cpc'[c] = "prompt"
      /\ UNCHANGED <<spc, held, sent>>
      /\ \A d \in Hosts \ {c} : shown'[d] = shown[d] /\ cpc'[d] = cpc[d]
      /\ \A k : /\ Shows(shown[c], k) \in Nat
                /\ Shows(shown[c], k)'
                     = IF k = p.data THEN Shows(shown[c], k) + 1 ELSE Shows(shown[c], k)
      /\ extra[c] = 0 => \A j \in 1..Len(shown'[c]) : shown'[c][j] \in {j, Own}
  BY <1>1, <1>2, <1>3, <1>4, <1>5, UdpShow
<1>7. /\ Counted(net)' /\ (DOMAIN net)' \subseteq DOMAIN net
      /\ \A q : q # p => Tally(net, q)' = Tally(net, q)
      /\ \A k \in Int : /\ InNet(c, k) \in Nat
                        /\ InNet(c, k)' = IF k = p.data THEN InNet(c, k) - 1 ELSE InNet(c, k)
  BY <1>1, <1>2, <1>3, NetTaken
<1>8. UdpTypeOK'
  BY <1>2, <1>3, <1>6, <1>7 DEF UdpTypeOK
<1>9. AtServer(c)' = AtServer(c) /\ Connected' = Connected
      /\ \A k : AtServerOnce(c, k)' = AtServerOnce(c, k)
  BY <1>6 DEF AtServer, AtServerOnce, Connected
<1>10. Sane(c)' /\ Awaits(c)'
  BY <1>2, <1>3, <1>6, <1>7, <1>9 DEF Sane, Awaits
<1>11. Single(c)'
  BY <1>2, <1>5, <1>6, <1>9 DEF Single
<1>12. Few(c)'
  <2>1. SUFFICES ASSUME NEW k \in 1..sent[c]
                 PROVE  Shows(shown[c], k)' + InNet(c, k)' + AtServerOnce(c, k) <= 1 + extra[c]
    BY <1>2, <1>6, <1>9 DEF Few
  <2>2. k \in Int /\ AtServerOnce(c, k) \in {0, 1}
    BY <1>3 DEF AtServerOnce
  <2>3. Shows(shown[c], k) + InNet(c, k) + AtServerOnce(c, k) <= 1 + extra[c]
    BY <1>3 DEF Few
  <2>4. /\ InNet(c, k) \in Nat /\ InNet(c, k)' = IF k = p.data THEN InNet(c, k) - 1 ELSE InNet(c, k)
        /\ Shows(shown[c], k) \in Nat
        /\ Shows(shown[c], k)' = IF k = p.data THEN Shows(shown[c], k) + 1 ELSE Shows(shown[c], k)
    BY <1>6, <1>7, <2>2
  <2> QED BY <1>3, <2>2, <2>3, <2>4
<1> QED BY <1>1, <1>2, <1>6, <1>7, <1>8, <1>9, <1>10, <1>11, <1>12, UdpStep DEF UdpOf, AtServer

LEMMA UdpReadFails ==
  ASSUME UdpAll, NEW c \in Hosts, ReadFails(c), program' = program
  PROVE  UdpAll'
<1>1. /\ cpc[c] = "wait" /\ err[c] /\ err' = [err EXCEPT ![c] = FALSE] /\ Show(c, Own)
      /\ UNCHANGED <<net, lost, extra>>
  BY DEF ReadFails, network
<1>2. /\ UdpTypeOK /\ Sane(c) /\ Kept(c) /\ Single(c) /\ Few(c) /\ Own \in Int /\ Connected
      /\ sent[c] \in Nat /\ Own < 1
  BY <1>1, UdpParts DEF Sane, Own
<1>3. /\ shown' \in [Hosts -> Seq(Int)] /\ Kept(c)'
      /\ cpc' \in [Hosts -> {"prompt", "wait", "done"}] /\ cpc'[c] = "prompt"
      /\ UNCHANGED <<spc, held, sent>>
      /\ \A d \in Hosts \ {c} : shown'[d] = shown[d] /\ cpc'[d] = cpc[d]
      /\ \A k : /\ Shows(shown[c], k) \in Nat
                /\ Shows(shown[c], k)'
                     = IF k = Own THEN Shows(shown[c], k) + 1 ELSE Shows(shown[c], k)
      /\ extra[c] = 0 => \A j \in 1..Len(shown'[c]) : shown'[c][j] \in {j, Own}
  BY <1>1, <1>2, UdpShow
<1>4. /\ err' \in [Hosts -> BOOLEAN] /\ ~err'[c] /\ \A d \in Hosts \ {c} : err'[d] = err[d]
  BY <1>1, <1>2 DEF UdpTypeOK
<1>5. UdpTypeOK'
  BY <1>1, <1>2, <1>3, <1>4 DEF UdpTypeOK
<1>6. AtServer(c)' = AtServer(c) /\ Connected' = Connected
      /\ \A k : AtServerOnce(c, k)' = AtServerOnce(c, k) /\ InNet(c, k)' = InNet(c, k)
      /\ \A q : Tally(net, q)' = Tally(net, q)
  BY <1>1, <1>3 DEF AtServer, AtServerOnce, Connected, InNet
<1>7. Sane(c)' /\ Awaits(c)'
  BY <1>1, <1>2, <1>3, <1>4, <1>6 DEF Sane, Awaits
<1>8. Single(c)'
  <2>1. SUFFICES ASSUME extra[c] = 0 PROVE Single(c)'
    BY <1>1 DEF Single
  <2>2. ~AtServer(c) /\ \A q \in DOMAIN net : q.of # c
    BY <1>1, <1>2, <2>1 DEF Single
  <2> QED BY <1>1, <1>3, <1>6, <2>1, <2>2 DEF Single
<1>9. Few(c)'
  <2>1. ASSUME NEW k \in 1..sent[c] PROVE Shows(shown[c], k)' = Shows(shown[c], k)
    BY <1>2, <1>3
  <2> QED BY <1>1, <1>2, <1>3, <1>6, <2>1 DEF Few
<1> QED BY <1>1, <1>3, <1>4, <1>5, <1>6, <1>7, <1>8, <1>9, UdpStep DEF UdpOf, AtServer

LEMMA UdpInit ==
  ASSUME Init
  PROVE  UdpInv
<1>1. SUFFICES ASSUME DatagramInit, EchoInit PROVE UdpAll
  BY DEF UdpInv, Init
<1>2. /\ DOMAIN net = {} /\ spc = "off" /\ lost = {}
  BY <1>1 DEF DatagramInit, EchoInit, EmptyBag, SetToBag
<1>3. /\ cpc = [c \in Hosts |-> "prompt"] /\ sent = [c \in Hosts |-> 0]
      /\ err = [c \in Hosts |-> FALSE] /\ shown = [c \in Hosts |-> <<>>]
      /\ extra = [c \in Hosts |-> 0]
  BY <1>1 DEF DatagramInit, EchoInit
<1>4. UdpTypeOK
  BY <1>2, <1>3 DEF UdpTypeOK, Counted
<1>5. ASSUME NEW c \in Hosts PROVE UdpOf(c)
  <2>1. /\ cpc[c] = "prompt" /\ sent[c] = 0 /\ ~err[c] /\ shown[c] = <<>> /\ Len(shown[c]) = 0
        /\ ~AtServer(c)
    BY <1>2, <1>3 DEF AtServer
  <2> QED BY <1>2, <2>1 DEF UdpOf, Sane, Kept, Single, Few, Awaits
<1> QED BY <1>4, <1>5 DEF UdpAll

LEMMA UdpNext ==
  ASSUME UdpInv, [Next]_<<program, network, echo, news>>
  PROVE  UdpInv'
<1>1. CASE UNCHANGED <<program, network, echo, news>>
  <2>1. /\ UNCHANGED <<program, net, lost, extra, spc, held, cpc, sent, err, shown>>
    BY <1>1 DEF network, echo, server, clients
  <2>2. UdpAll => UdpAll'
    <3>1. SUFFICES ASSUME UdpAll PROVE UdpAll'
      OBVIOUS
    <3>2. UdpTypeOK /\ UdpTypeOK'
      BY <2>1, <3>1 DEF UdpAll, UdpTypeOK
    <3>3. ASSUME NEW c \in Hosts PROVE UdpOf(c)'
      <4>1. UdpOf(c) /\ AtServer(c)' = AtServer(c)
        BY <2>1, <3>1 DEF UdpAll, AtServer
      <4> QED BY <2>1, <3>2, <4>1, UdpFrame
    <3> QED BY <3>2, <3>3 DEF UdpAll
  <2> QED BY <2>1, <2>2 DEF UdpInv
<1>2. CASE Next
  <2>1. program' = program
    BY <1>2 DEF Next
  <2>2. SUFFICES ASSUME program \in EchoPrograms, UdpAll PROVE UdpAll'
    BY <2>1 DEF UdpInv
  <2>3. EchoNext
    BY <1>2, <2>2 DEF Next, EchoPrograms, NewsPrograms
  <2>4. CASE StartServer \/ StopServer \/ RecvFrom \/ SendTo
    BY <2>1, <2>2, <2>4, UdpServerMoves, UdpRecvFrom, UdpSendTo
  <2>5. CASE Unreachable
    <3>1. PICK p \in DOMAIN net :
            \/ Connected /\ Take(p) /\ err' = [err EXCEPT ![p.of] = TRUE]
            \/ Lose(p) /\ UNCHANGED err
      BY <2>5 DEF Unreachable
    <3>2. UNCHANGED <<server, cpc, sent, shown>>
      BY <2>5 DEF Unreachable
    <3>3. CASE Connected /\ Take(p) /\ err' = [err EXCEPT ![p.of] = TRUE]
      <4>1. net' = net (-) SetToBag({p}) /\ UNCHANGED <<lost, extra>>
        BY <3>3 DEF Take
      <4> QED BY <2>1, <2>2, <3>2, <3>3, <4>1, UdpLost
    <3>4. CASE Lose(p) /\ UNCHANGED err
      <4>1. net' = net (-) SetToBag({p}) /\ lost' = lost \cup {p.of} /\ UNCHANGED extra
        BY <3>4 DEF Lose
      <4> QED BY <2>1, <2>2, <3>2, <3>4, <4>1, UdpLost
    <3> QED BY <3>1, <3>3, <3>4
  <2>6. ASSUME NEW c \in Hosts,
               SendLine(c) \/ Leave(c) \/ Receive(c) \/ ReadFails(c) \/ Stray(c)
        PROVE  UdpAll'
    <3>1. CASE Stray(c)
      <4>1. PICK p \in Datagrams : /\ p = Packet(c, "back", Foreign) /\ p.of = c
                                   /\ p.way = "back" /\ p.data = Foreign
        BY PacketFields DEF Foreign
      <4>2. Intrude(p) /\ UNCHANGED echo
        BY <3>1, <4>1 DEF Stray
      <4> QED BY <2>1, <2>2, <4>1, <4>2, UdpIntruded
    <3> QED BY <2>1, <2>2, <2>6, <3>1, UdpSendLine, UdpLeave, UdpReceive, UdpReadFails
  <2>7. CASE Trouble /\ UNCHANGED echo
    <3>1. PICK p \in DOMAIN net : Lose(p) \/ Intrude(p)
      BY <2>7 DEF Trouble
    <3>2. p \in Datagrams /\ p.of \in Hosts
      BY <2>2, UdpParts, PacketFields DEF UdpAll, UdpTypeOK
    <3>3. CASE Lose(p)
      <4>1. /\ net' = net (-) SetToBag({p}) /\ lost' = lost \cup {p.of}
            /\ UNCHANGED <<extra, server, cpc, sent, shown, err>>
        BY <2>7, <3>3 DEF Lose, echo, clients
      <4> QED BY <2>1, <2>2, <4>1, UdpLost
    <3>4. CASE Intrude(p)
      <4>1. PICK c \in Hosts : c = p.of
        BY <3>2
      <4>2. Sane(c)
        BY <2>2, UdpParts
      <4>3. p.data \in 1..sent[c] \/ (p.way = "back" /\ p.data = Foreign)
        BY <4>1, <4>2 DEF Sane
      <4> QED BY <2>1, <2>2, <2>7, <3>2, <3>4, <4>1, <4>3, UdpIntruded
    <3> QED BY <3>1, <3>3, <3>4
  <2> QED BY <2>3, <2>4, <2>5, <2>6, <2>7 DEF EchoNext
<1> QED BY <1>1, <1>2

(* What a client shows as the server's message answers the line it has just  *)
(* typed, if nothing intruded; no line is shown more often than once and as  *)
(* many times as datagrams intruded; and a client waits in vain only for     *)
(* what was lost.                                                            *)
THEOREM AnswersAreOwn == Spec => []AnswersOwn
<1>1. UdpInv => AnswersOwn
  <2>1. SUFFICES ASSUME program \in EchoPrograms, UdpAll, NEW c \in Hosts
                 PROVE  /\ \A j \in DOMAIN shown[c] :
                             shown[c][j] \in 1..j \cup (IF Connected THEN {Own} ELSE {Foreign})
                        /\ extra[c] = 0 => \A j \in DOMAIN shown[c] : shown[c][j] \in {j, Own}
                        /\ \A k \in 1..sent[c] : Times(c, k) <= 1 + extra[c]
                        /\ cpc[c] = "wait" =>
                             OnItsWay(c) \/ held.of = c \/ err[c] \/ c \in lost
    BY DEF UdpInv, AnswersOwn
  <2>2. /\ UdpTypeOK /\ Kept(c) /\ Single(c) /\ Few(c) /\ Awaits(c) /\ shown[c] \in Seq(Int)
        /\ DOMAIN shown[c] = 1..Len(shown[c]) /\ sent[c] \in Nat /\ extra[c] \in Nat
    BY <2>1, UdpParts
  <2>3. ASSUME NEW k \in 1..sent[c] PROVE Times(c, k) <= 1 + extra[c]
    <3>1. Shows(shown[c], k) + InNet(c, k) + AtServerOnce(c, k) <= 1 + extra[c]
      BY <2>2 DEF Few
    <3>2. Tally(net, Packet(c, "to", k)) \in Nat /\ Tally(net, Packet(c, "back", k)) \in Nat
      BY <2>2, TallyNat DEF UdpTypeOK
    <3>3. InNet(c, k) \in Nat /\ AtServerOnce(c, k) \in Nat
      BY <3>2 DEF InNet, AtServerOnce
    <3>4. Shows(shown[c], k) \in Nat /\ Shows(shown[c], k) = Times(c, k)
      <4>1. Shows(shown[c], k) \in Nat
        BY <2>2, ShowsMore
      <4> QED BY <4>1 DEF Shows, Times
    <3> QED BY <2>2, <3>1, <3>3, <3>4
  <2> QED BY <2>2, <2>3 DEF Kept, Single, Awaits, AtServer
<1> QED BY <1>1, UdpInit, UdpNext, PTL DEF Spec

-----------------------------------------------------------------------------
(* ch14/news_*.cpp and ch6/bound_host2.cpp: what the receivers print, for    *)
(* any texts, any size of the buffers and any hosts.  A datagram that is in  *)
(* a bag n times counts as n units, so that copies are elements of a set.    *)
Size(bag, D) == Cardinality(Units(bag, D))

(* Of a bag: what is under way to a receiver, what of it shows a character,  *)
(* what was printed with that character.                                     *)
ToHost(bag, r)  == {p \in DOMAIN bag : p.of = r}
With(bag, r, x) == {p \in DOMAIN bag : p.of = r /\ x \in Range(Cut(p.data))}
Holding(bag, x) == {d \in DOMAIN bag : x \in Range(d)}

OnPage(r, x) == Size(seen[r], Holding(seen[r], x)) + Size(net, With(net, r, x))
Total(r)     == Size(seen[r], DOMAIN seen[r]) + Size(net, ToHost(net, r))

(* How often the sender has sent the character at a place.                   *)
Sent(ch) == IF ch > pos THEN 0
            ELSE IF more /\ program = "news_sender" THEN 1 ELSE Copies(ch)

Chars == {ch \in DOMAIN file : file[ch] # NL}

NewsTypeOK ==
  /\ program \in NewsPrograms
  /\ file \in Seq(Nat) /\ file # <<>> /\ \A ch \in DOMAIN file : file[ch] \in {ch, NL}
  /\ program = "bound_host2" => file = <<1, NL, 3, NL, 5, NL>>
  /\ pos \in 0..Len(file) /\ last \in Seq(Nat) /\ more \in BOOLEAN
  /\ joined \subseteq Receivers /\ early \subseteq Receivers
  /\ extra \in [Hosts -> Nat] /\ Counted(net)
  /\ \A p \in DOMAIN net : p.of \in Receivers /\ p.data \in Seq(Nat)
  /\ DOMAIN seen = Receivers
  /\ \A r \in Receivers :
       /\ Counted(seen[r]) /\ IsFiniteSet(Units(seen[r], DOMAIN seen[r]))
       /\ IsFiniteSet(Units(net, ToHost(net, r)))

(* Where the walk through the file is.                                       *)
Chunk == BUF_SIZE - 1
LineStart(text, ch) == Max({0} \cup {k \in 1..ch : text[k] = NL})

Walk ==
  /\ ~more => pos = Len(file)
  /\ program = "news_sender" /\ more =>
       IF pos < Len(file) THEN \E k \in Nat : pos = LineStart(file, pos) + k * Chunk
       ELSE /\ Len(last) <= Chunk
            /\ \E q \in 0..Len(file) - 1 :
                 /\ last = SubSeq(file, q + 1, Len(file))
                 /\ \A ch \in Chars : SentTwice(ch) <=> ch > q
  /\ program = "news_sender_brd" => pos \in {0, Len(file)} \/ file[pos] = NL
  /\ program = "bound_host2" => pos \in {0, 2, 4, 6}

ReceiverOf(r) ==
  /\ r \in early /\ r \notin joined => program = "bound_host2" /\ (extra[r] > 0 \/ pos = Len(file))
  /\ program = "bound_host2" => 2 * (Total(r) - extra[r]) <= pos
  /\ \A ch \in Chars :
       /\ OnPage(r, ch) <= Sent(ch) + extra[r]
       /\ r \in early \ lost /\ extra[r] = 0 => OnPage(r, ch) = Sent(ch)

NewsAll == NewsTypeOK /\ Walk /\ \A r \in Receivers : ReceiverOf(r)

(* What stands in the buffer of news_receiver_brd, or was printed from behind *)
(* the NUL, is where a text that was printed had it.                         *)
Shown(r, j, x) ==
  /\ program = "news_sender_brd"
  /\ \E d \in DOMAIN seen[r] : j \in DOMAIN d /\ d[j] = x

PageOf(r) ==
  /\ \A j \in 1..BUF_SIZE : str[r][j] # NUL => Shown(r, j, str[r][j])
  /\ \A e \in again[r] : LeftOver(r, e)

PageInv ==
  /\ DOMAIN str = Receivers /\ DOMAIN again = Receivers
  /\ \A r \in Receivers : PageOf(r)

NewsInv == program \in NewsPrograms => NewsAll /\ PageInv

(* One copy more of every element of S.                                      *)
LEMMA BagSentAll ==
  ASSUME NEW B, Counted(B), NEW S
  PROVE  /\ Counted(B (+) SetToBag(S)) /\ DOMAIN (B (+) SetToBag(S)) = DOMAIN B \cup S
         /\ \A y : Tally(B (+) SetToBag(S), y)
                     = IF y \in S THEN Tally(B, y) + 1 ELSE Tally(B, y)
<1> DEFINE O == SetToBag(S)
           C == B (+) O
<1>1. O = [e \in S |-> 1]
  BY DEF SetToBag
<1> HIDE DEF O
<1>2. C = [e \in DOMAIN B \cup DOMAIN O |->
             (IF e \in DOMAIN B THEN B[e] ELSE 0) + (IF e \in DOMAIN O THEN O[e] ELSE 0)]
  BY DEF (+)
<1>3. DOMAIN O = S /\ \A e \in S : O[e] = 1
  BY <1>1
<1>4. C = [e \in DOMAIN B \cup S |->
             (IF e \in DOMAIN B THEN B[e] ELSE 0) + (IF e \in S THEN 1 ELSE 0)]
  BY <1>2, <1>3
<1> HIDE DEF C
<1>5. /\ Counted(C) /\ DOMAIN C = DOMAIN B \cup S
      /\ \A y : Tally(C, y) = IF y \in S THEN Tally(B, y) + 1 ELSE Tally(B, y)
  BY <1>4 DEF Counted, Tally
<1> QED BY <1>5 DEF C, O

(* The news programs.  A datagram that is in a bag n times has n units.      *)
LEMMA UnitsOf ==
  ASSUME NEW B, Counted(B), NEW D
  PROVE  \A u : u \in Units(B, D) <=> \E d \in D : \E k \in 1..Tally(B, d) : u = <<d, k>>
<1>1. ASSUME NEW u, u \in Units(B, D)
      PROVE  \E d \in D : \E k \in 1..Tally(B, d) : u = <<d, k>>
  <2>1. PICK d \in D \cap DOMAIN B : u \in {d} \X (1..B[d])
    BY <1>1 DEF Units
  <2>2. PICK k \in 1..B[d] : u = <<d, k>>
    BY <2>1
  <2> QED BY <2>1, <2>2 DEF Tally
<1>2. ASSUME NEW d \in D, NEW k \in 1..Tally(B, d)
      PROVE  <<d, k>> \in Units(B, D)
  <2>1. d \in DOMAIN B /\ k \in 1..B[d]
    BY <1>2 DEF Tally
  <2> QED BY <2>1 DEF Units
<1> QED BY <1>1, <1>2

(* Which set of datagrams is meant depends only on those that are there.     *)
LEMMA UnitsWithin ==
  ASSUME NEW B, NEW D, NEW E, D \cap DOMAIN B = E \cap DOMAIN B
  PROVE  Units(B, D) = Units(B, E)
BY DEF Units

LEMMA UnitsFewer ==
  ASSUME NEW B, Counted(B), NEW E, NEW D, D \subseteq E, IsFiniteSet(Units(B, E))
  PROVE  /\ Units(B, D) \subseteq Units(B, E) /\ IsFiniteSet(Units(B, D))
         /\ Size(B, D) \in Nat /\ Size(B, D) <= Size(B, E) /\ Size(B, E) \in Nat
<1>1. Units(B, D) \subseteq Units(B, E)
  BY DEF Units
<1> QED BY <1>1, FS_Subset, FS_CardinalityType DEF Size

(* One more of a datagram in D, and of others that are not.                  *)
LEMMA UnitsMore ==
  ASSUME NEW B, Counted(B), NEW S, NEW D, IsFiniteSet(Units(B, D)),
         NEW e \in D, D \cap S = {e}
  PROVE  /\ IsFiniteSet(Units(B (+) SetToBag(S), D))
         /\ Size(B (+) SetToBag(S), D) = Size(B, D) + 1
<1> DEFINE C == B (+) SetToBag(S)
           u == <<e, Tally(B, e) + 1>>
<1>1. Counted(C) /\ \A y : Tally(C, y) = IF y \in S THEN Tally(B, y) + 1 ELSE Tally(B, y)
  BY BagSentAll
<1> HIDE DEF C
<1>2. Tally(B, e) \in Nat
  BY TallyNat
<1>3. u \notin Units(B, D)
  <2>1. SUFFICES ASSUME u \in Units(B, D) PROVE FALSE
    OBVIOUS
  <2>2. PICK d \in D : \E k \in 1..Tally(B, d) : u = <<d, k>>
    BY <2>1, UnitsOf
  <2>3. PICK k \in 1..Tally(B, d) : u = <<d, k>>
    BY <2>2
  <2> QED BY <1>2, <2>3
<1>4. ASSUME NEW v PROVE v \in Units(C, D) <=> v \in Units(B, D) \cup {u}
  <2>1. ASSUME NEW d \in D, NEW k \in 1..Tally(C, d), v = <<d, k>>
        PROVE  v \in Units(B, D) \cup {u}
    <3>1. CASE d # e
      <4>1. k \in 1..Tally(B, d)
        BY <1>1, <2>1, <3>1
      <4> QED BY <4>1, <2>1, UnitsOf
    <3>2. CASE d = e
      <4>1. k \in 1..Tally(B, e) + 1
        BY <1>1, <2>1, <3>2
      <4>2. k \in 1..Tally(B, e) \/ k = Tally(B, e) + 1
        BY <4>1, <1>2
      <4> QED BY <4>2, <2>1, <3>2, UnitsOf
    <3> QED BY <3>1, <3>2
  <2>2. ASSUME NEW d \in D, NEW k \in 1..Tally(B, d), v = <<d, k>>
        PROVE  v \in Units(C, D)
    <3>1. k \in 1..Tally(C, d)
      <4>1. Tally(B, d) \in Nat
        BY TallyNat
      <4>2. Tally(C, d) \in {Tally(B, d), Tally(B, d) + 1}
        BY <1>1
      <4> QED BY <4>1, <4>2
    <3> QED BY <3>1, <2>2, <1>1, UnitsOf
  <2>3. u \in Units(C, D)
    <3>1. Tally(B, e) + 1 \in 1..Tally(C, e)
      BY <1>1, <1>2
    <3> QED BY <3>1, <1>1, UnitsOf
  <2> QED BY <2>1, <2>2, <2>3, <1>1, UnitsOf
<1>5. Units(C, D) = Units(B, D) \cup {u}
  BY <1>4
<1>6. IsFiniteSet(Units(C, D)) /\ Size(C, D) = Size(B, D) + 1
  BY <1>3, <1>5, FS_AddElement DEF Size
<1> QED BY <1>6 DEF C

LEMMA UnitsSame ==
  ASSUME NEW B, Counted(B), NEW S, NEW D, D \cap S = {}
  PROVE  Units(B (+) SetToBag(S), D) = Units(B, D)
<1> DEFINE C == B (+) SetToBag(S)
<1>1. Counted(C) /\ \A y : Tally(C, y) = IF y \in S THEN Tally(B, y) + 1 ELSE Tally(B, y)
  BY BagSentAll
<1> HIDE DEF C
<1>2. \A d \in D : Tally(C, d) = Tally(B, d)
  BY <1>1
<1>3. \A u : u \in Units(C, D) <=> u \in Units(B, D)
  BY <1>1, <1>2, UnitsOf
<1>4. Units(C, D) = Units(B, D)
  BY <1>3
<1> QED BY <1>4 DEF C

(* One less.                                                                 *)
LEMMA UnitsLess ==
  ASSUME NEW B, Counted(B), NEW D, NEW e \in DOMAIN B
  PROVE  /\ Units(B (-) SetToBag({e}), D) \subseteq Units(B, D)
         /\ e \notin D => Units(B (-) SetToBag({e}), D) = Units(B, D)
         /\ e \in D /\ IsFiniteSet(Units(B, D)) =>
              Size(B (-) SetToBag({e}), D) = Size(B, D) - 1
<1> DEFINE C == B (-) SetToBag({e})
           u == <<e, Tally(B, e)>>
<1>1. Counted(C) /\ \A y : Tally(C, y) = IF y = e THEN Tally(B, e) - 1 ELSE Tally(B, y)
  BY BagTaken
<1> HIDE DEF C
<1>2. Tally(B, e) \in Nat \ {0}
  BY TallyNat
<1>3. \A v : v \in Units(C, D) <=> v \in Units(B, D) /\ v # u
  <2>1. ASSUME NEW d \in D, NEW k
        PROVE  k \in 1..Tally(C, d) <=> k \in 1..Tally(B, d) /\ <<d, k>> # u
    <3>1. CASE d # e
      BY <1>1, <3>1
    <3>2. CASE d = e
      <4>1. k \in 1..Tally(B, e) - 1 <=> k \in 1..Tally(B, e) /\ k # Tally(B, e)
        BY <1>2
      <4> QED BY <4>1, <3>2, <1>1
    <3> QED BY <3>1, <3>2
  <2> QED BY <2>1, <1>1, UnitsOf
<1>4. Units(C, D) = Units(B, D) \ {u}
  BY <1>3
<1>5. e \notin D => u \notin Units(B, D)
  BY UnitsOf
<1>6. e \in D => u \in Units(B, D)
  <2>1. Tally(B, e) \in 1..Tally(B, e)
    BY <1>2
  <2> QED BY <2>1, UnitsOf
<1>7. e \in D /\ IsFiniteSet(Units(B, D)) => Size(C, D) = Size(B, D) - 1
  BY <1>4, <1>6, FS_RemoveElement DEF Size
<1> QED BY <1>4, <1>5, <1>7 DEF C

LEMMA NetMore ==
  ASSUME NEW B, Counted(B), NEW r, IsFiniteSet(Units(B, ToHost(B, r))),
         NEW S, NEW p \in S, p.of = r, \A q \in S : q.of = r => q = p,
         NEW C, C = B (+) SetToBag(S)
  PROVE  /\ IsFiniteSet(Units(C, ToHost(C, r)))
         /\ Size(C, ToHost(C, r)) = Size(B, ToHost(B, r)) + 1
         /\ \A x : Size(C, With(C, r, x))
                     = Size(B, With(B, r, x)) + (IF x \in Range(Cut(p.data)) THEN 1 ELSE 0)
<1>1. DOMAIN C = DOMAIN B \cup S
  BY BagSentAll
<1>2. /\ IsFiniteSet(Units(C, ToHost(C, r)))
      /\ Size(C, ToHost(C, r)) = Size(B, ToHost(B, r)) + 1
  <2> DEFINE D == ToHost(C, r)
  <2>1. Units(B, D) = Units(B, ToHost(B, r))
    BY <1>1, UnitsWithin DEF ToHost
  <2>2. p \in D /\ D \cap S = {p}
    BY <1>1 DEF ToHost
  <2> HIDE DEF D
  <2>3. IsFiniteSet(Units(C, D)) /\ Size(C, D) = Size(B, D) + 1
    BY <2>1, <2>2, UnitsMore
  <2> QED BY <2>1, <2>3 DEF D, Size
<1>3. ASSUME NEW x
      PROVE  Size(C, With(C, r, x))
               = Size(B, With(B, r, x)) + (IF x \in Range(Cut(p.data)) THEN 1 ELSE 0)
  <2> DEFINE D == With(C, r, x)
  <2>1. Units(B, D) = Units(B, With(B, r, x))
    BY <1>1, UnitsWithin DEF With
  <2>2. IsFiniteSet(Units(B, With(B, r, x))) /\ Size(B, With(B, r, x)) \in Nat
    <3>1. With(B, r, x) \subseteq ToHost(B, r)
      BY DEF With, ToHost
    <3> QED BY <3>1, UnitsFewer
  <2>3. IF x \in Range(Cut(p.data)) THEN p \in D /\ D \cap S = {p} ELSE D \cap S = {}
    BY <1>1 DEF With
  <2> HIDE DEF D
  <2>4. Size(C, D) = Size(B, D) + (IF x \in Range(Cut(p.data)) THEN 1 ELSE 0)
    <3>1. CASE x \in Range(Cut(p.data))
      BY <2>1, <2>2, <2>3, <3>1, UnitsMore
    <3>2. CASE x \notin Range(Cut(p.data))
      <4>1. Units(C, D) = Units(B, D)
        BY <2>3, <3>2, UnitsSame
      <4> QED BY <4>1, <2>1, <2>2, <3>2 DEF Size
    <3> QED BY <3>1, <3>2
  <2> QED BY <2>1, <2>4 DEF D, Size
<1> QED BY <1>2, <1>3

LEMMA NetElse ==
  ASSUME NEW B, Counted(B), NEW r, NEW S, \A q \in S : q.of # r,
         NEW C, C = B (+) SetToBag(S)
  PROVE  /\ Units(C, ToHost(C, r)) = Units(B, ToHost(B, r))
         /\ \A x : Units(C, With(C, r, x)) = Units(B, With(B, r, x))
<1>1. DOMAIN C = DOMAIN B \cup S
  BY BagSentAll
<1>2. Units(C, ToHost(C, r)) = Units(B, ToHost(B, r))
  <2>1. ToHost(C, r) \cap S = {} /\ ToHost(C, r) = ToHost(B, r)
    BY <1>1 DEF ToHost
  <2> QED BY <2>1, UnitsSame
<1>3. ASSUME NEW x PROVE Units(C, With(C, r, x)) = Units(B, With(B, r, x))
  <2>1. With(C, r, x) \cap S = {} /\ With(C, r, x) = With(B, r, x)
    BY <1>1 DEF With
  <2> QED BY <2>1, UnitsSame
<1> QED BY <1>2, <1>3

LEMMA NetLess ==
  ASSUME NEW B, Counted(B), NEW r, IsFiniteSet(Units(B, ToHost(B, r))),
         NEW p \in DOMAIN B, NEW C, C = B (-) SetToBag({p})
  PROVE  /\ IsFiniteSet(Units(C, ToHost(C, r)))
         /\ p.of = r =>
              /\ Size(C, ToHost(C, r)) = Size(B, ToHost(B, r)) - 1
              /\ \A x : Size(C, With(C, r, x))
                   = Size(B, With(B, r, x)) - (IF x \in Range(Cut(p.data)) THEN 1 ELSE 0)
         /\ p.of # r =>
              /\ Size(C, ToHost(C, r)) = Size(B, ToHost(B, r))
              /\ \A x : Size(C, With(C, r, x)) = Size(B, With(B, r, x))
<1>1. Counted(C) /\ DOMAIN C \subseteq DOMAIN B
  BY BagTaken
<1>2. \A D : /\ Units(C, D) \subseteq Units(B, D)
             /\ p \notin D => Units(C, D) = Units(B, D)
             /\ p \in D /\ IsFiniteSet(Units(B, D)) => Size(C, D) = Size(B, D) - 1
  BY UnitsLess
<1>3. Units(C, ToHost(C, r)) = Units(C, ToHost(B, r))
  <2>1. ToHost(C, r) \cap DOMAIN C = ToHost(B, r) \cap DOMAIN C
    BY <1>1 DEF ToHost
  <2> QED BY <2>1, UnitsWithin
<1>4. \A x : Units(C, With(C, r, x)) = Units(C, With(B, r, x))
  <2>1. SUFFICES ASSUME NEW x PROVE Units(C, With(C, r, x)) = Units(C, With(B, r, x))
    OBVIOUS
  <2>2. With(C, r, x) \cap DOMAIN C = With(B, r, x) \cap DOMAIN C
    BY <1>1 DEF With
  <2> QED BY <2>2, UnitsWithin
<1>5. IsFiniteSet(Units(C, ToHost(C, r)))
  BY <1>2, <1>3, FS_Subset
<1>6. /\ p.of = r => Size(C, ToHost(C, r)) = Size(B, ToHost(B, r)) - 1
      /\ p.of # r => Size(C, ToHost(C, r)) = Size(B, ToHost(B, r))
  <2>1. p \in ToHost(B, r) <=> p.of = r
    BY DEF ToHost
  <2>2. p.of # r => Units(C, ToHost(B, r)) = Units(B, ToHost(B, r))
    BY <1>2, <2>1
  <2>3. p.of = r => Size(C, ToHost(B, r)) = Size(B, ToHost(B, r)) - 1
    BY <1>2, <2>1
  <2> QED BY <1>3, <2>2, <2>3 DEF Size
<1>7. ASSUME NEW x
      PROVE  Size(C, With(C, r, x)) = Size(B, With(B, r, x))
               - (IF p.of = r /\ x \in Range(Cut(p.data)) THEN 1 ELSE 0)
  <2>1. p \in With(B, r, x) <=> p.of = r /\ x \in Range(Cut(p.data))
    BY DEF With
  <2>2. IsFiniteSet(Units(B, With(B, r, x))) /\ Size(B, With(B, r, x)) \in Nat
    <3>1. With(B, r, x) \subseteq ToHost(B, r)
      BY DEF With, ToHost
    <3> QED BY <3>1, UnitsFewer
  <2>3. CASE p \in With(B, r, x)
    <3>1. Size(C, With(B, r, x)) = Size(B, With(B, r, x)) - 1
      BY <1>2, <2>2, <2>3
    <3> QED BY <3>1, <1>4, <2>1, <2>3 DEF Size
  <2>4. CASE p \notin With(B, r, x)
    <3>1. Units(C, With(B, r, x)) = Units(B, With(B, r, x))
      BY <1>2, <2>4
    <3>2. Size(C, With(C, r, x)) = Size(B, With(B, r, x))
      BY <3>1, <1>4 DEF Size
    <3> QED BY <3>2, <2>1, <2>2, <2>4
  <2> QED BY <2>3, <2>4
<1>8. \A x : Size(B, With(B, r, x)) \in Nat
  <2>1. \A x : With(B, r, x) \subseteq ToHost(B, r)
    BY DEF With, ToHost
  <2> QED BY <2>1, UnitsFewer
<1> QED BY <1>5, <1>6, <1>7, <1>8

LEMMA PageMore ==
  ASSUME NEW B, Counted(B), IsFiniteSet(Units(B, DOMAIN B)), NEW d,
         NEW C, C = B (+) SetToBag({d})
  PROVE  /\ Counted(C) /\ IsFiniteSet(Units(C, DOMAIN C))
         /\ Size(C, DOMAIN C) = Size(B, DOMAIN B) + 1
         /\ \A x : Size(C, Holding(C, x))
                     = Size(B, Holding(B, x)) + (IF x \in Range(d) THEN 1 ELSE 0)
<1>1. Counted(C) /\ DOMAIN C = DOMAIN B \cup {d}
  BY BagSentAll
<1>2. IsFiniteSet(Units(C, DOMAIN C)) /\ Size(C, DOMAIN C) = Size(B, DOMAIN B) + 1
  <2> DEFINE D == DOMAIN C
  <2>1. Units(B, D) = Units(B, DOMAIN B)
    BY <1>1, UnitsWithin
  <2>2. d \in D /\ D \cap {d} = {d}
    BY <1>1
  <2> HIDE DEF D
  <2>3. IsFiniteSet(Units(C, D)) /\ Size(C, D) = Size(B, D) + 1
    BY <2>1, <2>2, UnitsMore
  <2> QED BY <2>1, <2>3 DEF D, Size
<1>3. ASSUME NEW x
      PROVE  Size(C, Holding(C, x)) = Size(B, Holding(B, x)) + (IF x \in Range(d) THEN 1 ELSE 0)
  <2> DEFINE D == Holding(C, x)
  <2>1. Units(B, D) = Units(B, Holding(B, x))
    BY <1>1, UnitsWithin DEF Holding
  <2>2. IsFiniteSet(Units(B, Holding(B, x))) /\ Size(B, Holding(B, x)) \in Nat
    <3>1. Holding(B, x) \subseteq DOMAIN B
      BY DEF Holding
    <3> QED BY <3>1, UnitsFewer
  <2>3. IF x \in Range(d) THEN d \in D /\ D \cap {d} = {d} ELSE D \cap {d} = {}
    BY <1>1 DEF Holding
  <2> HIDE DEF D
  <2>4. Size(C, D) = Size(B, D) + (IF x \in Range(d) THEN 1 ELSE 0)
    <3>1. CASE x \in Range(d)
      BY <2>1, <2>2, <2>3, <3>1, UnitsMore
    <3>2. CASE x \notin Range(d)
      <4>1. Units(C, D) = Units(B, D)
        BY <2>3, <3>2, UnitsSame
      <4> QED BY <4>1, <2>1, <2>2, <3>2 DEF Size
    <3> QED BY <3>1, <3>2
  <2> QED BY <2>1, <2>4 DEF D, Size
<1> QED BY <1>1, <1>2, <1>3

LEMMA MinOf ==
  ASSUME NEW S \in SUBSET Nat, S # {}
  PROVE  Min(S) \in S /\ \A y \in S : Min(S) <= y
<1>1. PICK x \in S : \A y \in S : ~(<<y, x>> \in OpToRel(<, Nat))
  BY NatLessThanWellFounded, WFMin
<1>2. \A y \in S : ~(y < x)
  BY <1>1 DEF OpToRel
<1>3. \A y \in S : x =< y
  BY <1>2
<1> QED BY <1>3 DEF Min

LEMMA MaxOf ==
  ASSUME NEW n \in Nat, NEW S \in SUBSET (0..n), S # {}
  PROVE  Max(S) \in S /\ \A y \in S : y <= Max(S)
<1> DEFINE T == {n - x : x \in S}
<1>1. T \in SUBSET Nat /\ T # {}
  <2>1. \A x \in S : x \in 0..n /\ n - x \in Nat
    OBVIOUS
  <2> QED BY <2>1
<1>2. Min(T) \in T /\ \A y \in T : Min(T) <= y
  BY <1>1, MinOf
<1>3. PICK x \in S : Min(T) = n - x
  BY <1>2
<1>4. \A y \in S : x >= y
  <2>1. ASSUME NEW y \in S PROVE x >= y
    <3>1. n - y \in T
      OBVIOUS
    <3>2. n - x <= n - y
      BY <1>2, <1>3, <3>1
    <3> QED BY <3>2
  <2> QED BY <2>1
<1> QED BY <1>4 DEF Max

LEMMA LeastOf ==
  ASSUME NEW m \in Nat, NEW n \in Nat
  PROVE  Least(m, n) = IF m <= n THEN m ELSE n
<1>1. Min({m, n}) \in {m, n} /\ \A y \in {m, n} : Min({m, n}) <= y
  BY MinOf
<1> QED BY <1>1 DEF Least

(* The last NL before a place, or the beginning.                             *)
LEMMA LineStarts ==
  ASSUME NEW f \in Seq(Nat), NEW ch \in 0..Len(f)
  PROVE  /\ LineStart(f, ch) \in 0..ch
         /\ LineStart(f, ch) # 0 => f[LineStart(f, ch)] = NL
         /\ \A k \in LineStart(f, ch) + 1..ch : f[k] # NL
<1> DEFINE S == {0} \cup {k \in 1..ch : f[k] = NL}
<1>1. S \in SUBSET (0..ch) /\ S # {} /\ ch \in Nat
  OBVIOUS
<1> HIDE DEF S
<1>2. Max(S) \in S /\ \A y \in S : y <= Max(S)
  BY <1>1, MaxOf
<1>3. LineStart(f, ch) = Max(S)
  BY DEF LineStart, S
<1>4. LineStart(f, ch) \in S /\ \A y \in S : y <= LineStart(f, ch)
  BY <1>2, <1>3
<1> QED BY <1>4 DEF S

LEMMA LineStartIs ==
  ASSUME NEW f \in Seq(Nat), NEW ch \in 0..Len(f), NEW s \in 0..ch,
         s = 0 \/ f[s] = NL, \A k \in s + 1..ch : f[k] # NL
  PROVE  LineStart(f, ch) = s
<1> DEFINE t == LineStart(f, ch)
<1>1. t \in 0..ch /\ (t # 0 => f[t] = NL) /\ \A k \in t + 1..ch : f[k] # NL
  BY LineStarts
<1> HIDE DEF t
<1>2. t = s
  BY <1>1
<1> QED BY <1>2 DEF t

LEMMA Division ==
  ASSUME NEW w \in Nat \ {0}, NEW k \in Nat, NEW m \in 0..w - 1
  PROVE  (k * w + m) \div w = k /\ (k * w + m) % w = m
<1> DEFINE a == k * w + m
           q == a \div w
           r == a % w
<1>1. a \in Nat /\ k * w \in Nat
  OBVIOUS
<1> HIDE DEF a
<1>2. q \in Nat /\ r \in 0..w - 1 /\ a = w * q + r
  BY <1>1
<1> HIDE DEF q, r
<1>3. k * w + m = w * q + r
  BY <1>2 DEF a
<1>4. q = k
  <2>1. CASE q < k
    <3>1. PICK d \in Nat : k = q + 1 + d
      <4>1. k = q + 1 + (k - q - 1) /\ k - q - 1 \in Nat
        BY <2>1, <1>2
      <4> QED BY <4>1
    <3>2. k * w = w * q + w + d * w /\ d * w \in Nat /\ w * q \in Nat
      BY <3>1, <1>2
    <3> QED BY <3>2, <1>2, <1>3
  <2>2. CASE q > k
    <3>1. PICK d \in Nat : q = k + 1 + d
      <4>1. q = k + 1 + (q - k - 1) /\ q - k - 1 \in Nat
        BY <2>2, <1>2
      <4> QED BY <4>1
    <3>2. w * q = k * w + w + d * w /\ d * w \in Nat
      BY <3>1, <1>2
    <3> QED BY <3>2, <1>1, <1>2, <1>3
  <2> QED BY <2>1, <2>2, <1>2
<1>5. r = m
  <2>1. k * w = w * q /\ w * q \in Nat
    BY <1>4
  <2> QED BY <2>1, <1>3, <1>2
<1> QED BY <1>4, <1>5 DEF q, r, a

LEMMA EndIs ==
  ASSUME NewsTypeOK, NEW ch \in DOMAIN file
  PROVE  /\ EndOf(ch) \in ch..Len(file) /\ (EndOf(ch) = Len(file) \/ file[EndOf(ch)] = NL)
         /\ \A k \in ch..EndOf(ch) - 1 : file[k] # NL
<1> DEFINE S == {Len(file)} \cup {k \in ch..Len(file) : file[k] = NL}
<1>0. Len(file) \in Nat /\ ch \in 1..Len(file)
  BY DEF NewsTypeOK
<1>1. S \in SUBSET Nat /\ S # {} /\ \A k \in S : k \in ch..Len(file)
  BY <1>0
<1>2. EndOf(ch) = Min(S)
  BY DEF EndOf
<1> HIDE DEF S
<1>3. EndOf(ch) \in S /\ \A y \in S : EndOf(ch) <= y
  BY <1>1, <1>2, MinOf
<1>4. EndOf(ch) \in ch..Len(file)
  BY <1>1, <1>3
<1> QED BY <1>0, <1>3, <1>4 DEF S

LEMMA StartIs == \A ch : StartOf(ch) = LineStart(file, ch)
BY DEF StartOf, LineStart

(* The line that is the last, which starts behind s.                         *)
LEMMA LastLine ==
  ASSUME NewsTypeOK, NEW s \in 0..Len(file) - 1, s = 0 \/ file[s] = NL,
         \A k \in s + 1..Len(file) - 1 : file[k] # NL, NEW ch \in Chars
  PROVE  /\ ch > s => StartOf(ch) = s /\ EndOf(ch) = Len(file)
         /\ ch <= s => EndOf(ch) # Len(file)
<1>1. /\ EndOf(ch) \in ch..Len(file) /\ (EndOf(ch) = Len(file) \/ file[EndOf(ch)] = NL)
      /\ \A k \in ch..EndOf(ch) - 1 : file[k] # NL
  BY EndIs DEF Chars
<1>2. file \in Seq(Nat) /\ ch \in 1..Len(file) /\ file[ch] # NL
  BY DEF NewsTypeOK, Chars
<1>3. CASE ch > s
  <2>1. EndOf(ch) = Len(file)
    <3>1. SUFFICES ASSUME EndOf(ch) # Len(file) PROVE FALSE
      OBVIOUS
    <3>2. EndOf(ch) \in s + 1..Len(file) - 1 /\ file[EndOf(ch)] = NL
      BY <1>1, <1>2, <1>3, <3>1
    <3> QED BY <3>2
  <2>2. \A k \in s + 1..ch : file[k] # NL
    BY <1>2
  <2>3. StartOf(ch) = s
    <3>1. ch \in 0..Len(file) /\ s \in 0..ch
      BY <1>2, <1>3
    <3>2. LineStart(file, ch) = s
      BY <1>2, <3>1, <2>2, LineStartIs
    <3> QED BY <3>2, StartIs
  <2> QED BY <1>2, <1>3, <2>1, <2>3
<1>4. CASE ch <= s
  <2>1. file[s] = NL /\ ch # s
    BY <1>2, <1>4
  <2>2. ~(s \in ch..EndOf(ch) - 1)
    BY <1>1, <2>1
  <2> QED BY <1>1, <1>2, <1>4, <2>1, <2>2
<1> QED BY <1>2, <1>3, <1>4

(* The last piece of the last line is the one that may be sent twice.        *)
LEMMA LastPiece ==
  ASSUME NewsTypeOK, program = "news_sender",
         NEW s \in 0..Len(file) - 1, s = 0 \/ file[s] = NL,
         \A k \in s + 1..Len(file) - 1 : file[k] # NL,
         NEW k \in Nat, NEW n \in 1..Chunk, Len(file) = s + k * Chunk + n, NEW ch \in Chars
  PROVE  SentTwice(ch) <=> ch > s + k * Chunk /\ (file[Len(file)] = NL \/ n = Chunk)
<1>1. /\ ch > s => StartOf(ch) = s /\ EndOf(ch) = Len(file)
      /\ ch <= s => EndOf(ch) # Len(file)
  BY LastLine
<1>2. ch \in 1..Len(file) /\ Len(file) \in Nat
  BY DEF NewsTypeOK, Chars
<1>3. Chunk \in Nat \ {0}
  BY DatagramAssumption DEF Chunk
<1>4. k * Chunk \in Nat
  BY <1>3
<1>5. CASE ch <= s
  BY <1>1, <1>2, <1>4, <1>5 DEF SentTwice
<1>6. CASE ch > s
  <2> DEFINE size == k * Chunk + n
             m == ch - s - 1
  <2>1. size = Len(file) - s /\ Column(ch) - 1 = m /\ StartOf(ch) = s /\ EndOf(ch) = Len(file)
    BY <1>1, <1>2, <1>4, <1>6 DEF Column
  <2>2. size - 1 = k * Chunk + (n - 1) /\ n - 1 \in 0..Chunk - 1
    BY <1>3, <1>4
  <2>3. Piece(size) = k
    BY ZenonT(30), <2>2, <1>3, Division DEF Piece, Chunk
  <2>4. size % Chunk = 0 <=> n = Chunk
    <3>1. CASE n = Chunk
      <4>1. size = (k + 1) * Chunk + 0 /\ 0 \in 0..Chunk - 1 /\ k + 1 \in Nat
        BY <3>1, <1>3
      <4> HIDE DEF size
      <4> QED BY <4>1, <3>1, <1>3, Division
    <3>2. CASE n # Chunk
      <4>1. n \in 0..Chunk - 1
        BY <3>2, <1>3
      <4>2. size % Chunk = n
        BY <4>1, <1>3, Division
      <4> QED BY <4>2, <3>2
    <3> QED BY <3>1, <3>2
  <2>5. m \in Nat /\ m < size
    BY <1>2, <1>4, <1>6, <2>1
  <2>6. m \div Chunk = k <=> m >= k * Chunk
    <3>1. CASE m >= k * Chunk
      <4>1. PICK d \in 0..Chunk - 1 : m = k * Chunk + d
        <5>1. m - k * Chunk \in 0..Chunk - 1 /\ m = k * Chunk + (m - k * Chunk)
          BY <3>1, <1>3, <1>4, <2>5
        <5> QED BY <5>1
      <4> HIDE DEF m
      <4> QED BY <4>1, <3>1, <1>3, Division
    <3>2. CASE m < k * Chunk
      <4>1. PICK q \in Nat, r \in 0..Chunk - 1 : m = q * Chunk + r
        <5>1. ASSUME NEW a \in Nat, NEW c \in Nat \ {0}
              PROVE  a \div c \in Nat /\ a % c \in 0..c - 1 /\ a = (a \div c) * c + (a % c)
          <6>1. a \div c \in Nat
            OBVIOUS
          <6>2. a % c \in 0..c - 1
            OBVIOUS
          <6>3. a = c * (a \div c) + (a % c)
            OBVIOUS
          <6>4. c * (a \div c) = (a \div c) * c
            BY <6>1
          <6> QED BY <6>1, <6>2, <6>3, <6>4
        <5> HIDE DEF m
        <5>2. m \in Nat
          BY <2>5
        <5>3. m \div Chunk \in Nat /\ m % Chunk \in 0..Chunk - 1
              /\ m = (m \div Chunk) * Chunk + (m % Chunk)
          BY <5>1, <5>2, <1>3
        <5> QED BY <5>3
      <4>2. m \div Chunk = q
        BY <4>1, <1>3, Division
      <4>3. q # k
        BY <4>1, <3>2, <1>3, <1>4
      <4> QED BY <4>2, <4>3, <3>2, <2>5, <1>4
    <3> QED BY <3>1, <3>2, <2>5, <1>4
  <2>7. Piece(Column(ch)) = m \div Chunk
    BY <2>1 DEF Piece, Chunk
  <2>8. m >= k * Chunk <=> ch > s + k * Chunk
    BY <1>2, <1>4
  <2> HIDE DEF size, m
  <2>9. SentTwice(ch) <=> m \div Chunk = k /\ (file[Len(file)] = NL \/ size % Chunk = 0)
    BY <2>1, <2>3, <2>7 DEF SentTwice, Chunk
  <2> QED BY <2>4, <2>6, <2>8, <2>9
<1> QED BY <1>2, <1>5, <1>6

LEMMA SubSub ==
  ASSUME NEW s \in Seq(Nat), NEW a \in 0..Len(s), NEW b \in a..Len(s), NEW n \in 0..b - a
  PROVE  /\ SubSeq(SubSeq(s, a + 1, b), 1, n) = SubSeq(s, a + 1, a + n)
         /\ SubSeq(s, a + 1, b) \in Seq(Nat) /\ Len(SubSeq(s, a + 1, b)) = b - a
         /\ \A j \in 1..b - a : SubSeq(s, a + 1, b)[j] = s[a + j]
<1>0. ASSUME NEW c \in a..Len(s)
      PROVE  /\ SubSeq(s, a + 1, c) \in Seq(Nat) /\ Len(SubSeq(s, a + 1, c)) = c - a
             /\ \A j \in 1..c - a : SubSeq(s, a + 1, c)[j] = s[a + j]
  <2>1. a \in Nat /\ c \in Nat /\ a <= c /\ c <= Len(s) /\ Len(s) \in Nat
    OBVIOUS
  <2>2. a + 1 \in Int /\ c \in Int /\ c - (a + 1) + 1 = c - a
    BY <2>1
  <2>3. \A ch \in a + 1..c : s[ch] \in Nat
    BY <2>1
  <2>4. /\ SubSeq(s, a + 1, c) \in Seq(Nat)
        /\ Len(SubSeq(s, a + 1, c)) = (IF a + 1 <= c THEN c - (a + 1) + 1 ELSE 0)
        /\ \A j \in 1..c - (a + 1) + 1 : SubSeq(s, a + 1, c)[j] = s[a + 1 + j - 1]
    <3>1. PICK m \in Int : m = a + 1
      BY <2>2
    <3>2. \A ch \in m..c : s[ch] \in Nat
      BY <2>3, <3>1
    <3>3. /\ SubSeq(s, m, c) \in Seq(Nat)
          /\ Len(SubSeq(s, m, c)) = (IF m <= c THEN c - m + 1 ELSE 0)
          /\ \A j \in 1..c - m + 1 : SubSeq(s, m, c)[j] = s[m + j - 1]
      BY <2>2, <3>2, SubSeqProperties
    <3> QED BY <3>1, <3>3
  <2>5. \A j \in 1..c - a : a + 1 + j - 1 = a + j
    BY <2>1
  <2>6. (IF a + 1 <= c THEN c - (a + 1) + 1 ELSE 0) = c - a
    BY <2>1
  <2> QED BY <2>2, <2>4, <2>5, <2>6
<1>1. /\ SubSeq(s, a + 1, b) \in Seq(Nat) /\ Len(SubSeq(s, a + 1, b)) = b - a
      /\ \A j \in 1..b - a : SubSeq(s, a + 1, b)[j] = s[a + j]
  BY <1>0
<1> DEFINE t == SubSeq(s, a + 1, b)
           u == SubSeq(s, a + 1, a + n)
<1>2. u \in Seq(Nat) /\ Len(u) = n /\ \A j \in 1..n : u[j] = s[a + j]
  <2>1. a + n \in a..Len(s) /\ (a + n) - a = n
    OBVIOUS
  <2> QED BY <2>1, <1>0
<1> HIDE DEF t
<1>3. t \in Seq(Nat) /\ Len(t) = b - a /\ \A j \in 1..b - a : t[j] = s[a + j]
  BY <1>1 DEF t
<1> DEFINE v == SubSeq(t, 1, n)
<1>4. v \in Seq(Nat) /\ Len(v) = n /\ \A j \in 1..n : v[j] = t[j]
  BY SMTT(20), <1>3
<1> HIDE DEF u, v
<1>5. u = v
  <2>1. \A j \in 1..n : j \in 1..b - a
    OBVIOUS
  <2>2. \A j \in 1..n : u[j] = v[j]
    BY <2>1, <1>2, <1>3, <1>4
  <2> QED BY <2>2, <1>2, <1>4, SeqEqual
<1> QED BY <1>1, <1>5 DEF t, u, v

(* The characters of a part of the file.                                     *)
LEMMA CharsOf ==
  ASSUME NewsTypeOK, NEW a \in 0..Len(file), NEW b \in a..Len(file), NEW ch \in Chars
  PROVE  ch \in Range(SubSeq(file, a + 1, b)) <=> a < ch /\ ch <= b
<1> DEFINE s == SubSeq(file, a + 1, b)
<1>1. /\ file \in Seq(Nat) /\ \A j \in DOMAIN file : file[j] \in {j, NL}
      /\ ch \in 1..Len(file) /\ file[ch] # NL
  BY DEF NewsTypeOK, Chars
<1>2. s \in Seq(Nat) /\ Len(s) = b - a /\ \A j \in 1..b - a : s[j] = file[a + j]
  BY <1>1, SubSub
<1> HIDE DEF s
<1>3. ASSUME ch \in Range(s) PROVE a < ch /\ ch <= b
  <2>1. PICK j \in 1..b - a : s[j] = ch
    BY <1>2, <1>3 DEF Range
  <2>0. a + j \in 1..Len(file) /\ a + j <= b /\ a < a + j
    BY <1>1, <2>1
  <2>2. file[a + j] = ch /\ a + j \in DOMAIN file
    <3>1. s[j] = file[a + j]
      BY <1>2
    <3>2. DOMAIN file = 1..Len(file)
      BY <1>1
    <3> QED BY <2>0, <2>1, <3>1, <3>2
  <2>3. ch # NL
    BY <1>1 DEF NL
  <2>4. a + j = ch
    BY <1>1, <2>2, <2>3
  <2> QED BY <2>0, <2>4
<1>4. ASSUME a < ch, ch <= b PROVE ch \in Range(s)
  <2>1. ch - a \in 1..b - a /\ a + (ch - a) = ch
    BY <1>1, <1>4
  <2>2. s[ch - a] = ch
    BY <1>1, <1>2, <2>1
  <2> QED BY <1>2, <2>1, <2>2 DEF Range
<1> QED BY <1>3, <1>4 DEF s

LEMMA RestOf ==
  ASSUME NewsTypeOK
  PROVE  /\ Rest \in Seq(Nat) /\ Len(Rest) = Len(file) - pos
         /\ \A j \in 1..Len(file) - pos : Rest[j] = file[pos + j]
         /\ Rest = <<>> <=> pos = Len(file)
         /\ \A n \in 0..Len(file) - pos : SubSeq(Rest, 1, n) = SubSeq(file, pos + 1, pos + n)
<1>1. file \in Seq(Nat) /\ pos \in 0..Len(file) /\ Len(file) \in pos..Len(file)
  BY DEF NewsTypeOK
<1>2. /\ Rest \in Seq(Nat) /\ Len(Rest) = Len(file) - pos
      /\ \A j \in 1..Len(file) - pos : Rest[j] = file[pos + j]
      /\ \A n \in 0..Len(file) - pos : SubSeq(Rest, 1, n) = SubSeq(file, pos + 1, pos + n)
  <2>1. 0 \in 0..Len(file) - pos
    BY <1>1
  <2>2. /\ Rest \in Seq(Nat) /\ Len(Rest) = Len(file) - pos
        /\ \A j \in 1..Len(file) - pos : Rest[j] = file[pos + j]
    BY <1>1, <2>1, SubSub DEF Rest
  <2>3. \A n \in 0..Len(file) - pos : SubSeq(Rest, 1, n) = SubSeq(file, pos + 1, pos + n)
    BY <1>1, SubSub DEF Rest
  <2> QED BY <2>2, <2>3
<1>3. Rest = <<>> <=> Len(Rest) = 0
  BY <1>2
<1>4. Len(file) - pos = 0 <=> pos = Len(file)
  BY <1>1
<1> QED BY <1>2, <1>3, <1>4

LEMMA LineEndOf ==
  ASSUME NewsTypeOK, pos # Len(file)
  PROVE  /\ LineEnd \in 1..Len(file) - pos
         /\ \A k \in pos + 1..pos + LineEnd - 1 : file[k] # NL
         /\ IF Breaks = {} THEN LineEnd = Len(file) - pos /\ file[pos + LineEnd] # NL
            ELSE file[pos + LineEnd] = NL
<1>1. /\ file \in Seq(Nat) /\ pos \in 0..Len(file) - 1
      /\ Rest \in Seq(Nat) /\ Len(Rest) = Len(file) - pos
      /\ \A j \in 1..Len(file) - pos : Rest[j] = file[pos + j]
  BY RestOf DEF NewsTypeOK
<1>0. /\ Len(file) \in Nat /\ pos \in Nat /\ pos < Len(file)
      /\ DOMAIN Rest = 1..Len(file) - pos
  BY <1>1
<1>2. /\ \A j \in Breaks : j \in 1..Len(file) - pos /\ Rest[j] = NL
      /\ \A j \in 1..Len(file) - pos : Rest[j] = NL => j \in Breaks
  BY <1>0, <1>1 DEF Breaks
<1>3. \A k \in pos + 1..Len(file) : k - pos \in 1..Len(file) - pos /\ Rest[k - pos] = file[k]
  <2>1. \A k \in pos + 1..Len(file) : k - pos \in 1..Len(file) - pos /\ pos + (k - pos) = k
    BY <1>0
  <2> QED BY <2>1, <1>1
<1>4. CASE Breaks = {}
  <2>1. LineEnd = Len(file) - pos
    BY <1>1, <1>4 DEF LineEnd
  <2>2. \A k \in pos + 1..Len(file) : file[k] # NL
    BY <1>2, <1>3, <1>4
  <2>3. /\ LineEnd \in 1..Len(file) - pos /\ pos + LineEnd = Len(file)
        /\ Len(file) \in pos + 1..Len(file)
    BY <1>0, <2>1
  <2> QED BY <1>0, <1>4, <2>1, <2>2, <2>3
<1>5. CASE Breaks # {}
  <2>1. Breaks \in SUBSET Nat
    BY <1>1, <1>2
  <2>2. LineEnd \in Breaks /\ \A y \in Breaks : LineEnd <= y
    BY <1>5, <2>1, MinOf DEF LineEnd
  <2>3. LineEnd \in 1..Len(file) - pos /\ file[pos + LineEnd] = NL
    BY <1>1, <1>2, <2>2
  <2>4. ASSUME NEW k \in pos + 1..pos + LineEnd - 1 PROVE file[k] # NL
    <3>0. k \in pos + 1..Len(file) /\ ~(LineEnd <= k - pos)
      BY <1>0, <2>3
    <3>1. k - pos \in 1..Len(file) - pos /\ Rest[k - pos] = file[k] /\ ~(LineEnd <= k - pos)
      BY <1>3, <3>0
    <3> QED BY <1>2, <2>2, <3>1
  <2> QED BY <1>5, <2>3, <2>4
<1> QED BY <1>4, <1>5

LEMMA CutOf ==
  ASSUME NEW d \in Seq(Nat)
  PROVE  /\ Cut(d) = SubSeq(d, 1, IF Len(d) <= Chunk THEN Len(d) ELSE Chunk)
         /\ Len(d) <= Chunk => Cut(d) = d
<1>1. Chunk \in Nat \ {0} /\ Chunk = BUF_SIZE - 1
  BY DatagramAssumption DEF Chunk
<1>2. Cut(d) = SubSeq(d, 1, IF Len(d) <= Chunk THEN Len(d) ELSE Chunk)
  BY <1>1, LeastOf DEF Cut
<1>3. SubSeq(d, 1, Len(d)) = d
  OBVIOUS
<1> QED BY <1>2, <1>3

LEMMA CopiesKept ==
  ASSUME file' = file, program' = program
  PROVE  /\ \A ch : Copies(ch)' = Copies(ch) /\ SentTwice(ch)' = SentTwice(ch)
         /\ Chars' = Chars
BY DEF Copies, SentTwice, StartOf, EndOf, Column, Chars

LEMMA CopiesOf ==
  ASSUME NEW ch
  PROVE  /\ program = "news_sender" => Copies(ch) = IF SentTwice(ch) THEN 2 ELSE 1
         /\ program = "news_sender_brd" => Copies(ch) = IF Column(ch) >= BUF_SIZE THEN 0 ELSE 1
         /\ program = "bound_host2" => Copies(ch) = 1
BY DEF Copies, SentTwice

LEMMA SentNat == \A ch : Sent(ch) \in Nat /\ Copies(ch) \in Nat
BY DEF Sent, Copies

LEMMA ChunkRead ==
  ASSUME NewsTypeOK, SendChunk, pos # Len(file)
  PROVE  \E n \in 1..Chunk :
           /\ pos + n \in 1..Len(file) /\ pos' = pos + n
           /\ last' = SubSeq(file, pos + 1, pos + n)
           /\ more' = (n = Chunk \/ file[pos + n] = NL)
           /\ \A k \in pos + 1..pos + n - 1 : file[k] # NL
           /\ ~more' => pos + n = Len(file)
<1> DEFINE n == Least(LineEnd, Chunk)
<1>0. /\ SendToAll(IF Rest = <<>> THEN last ELSE SubSeq(Rest, 1, n))
      /\ pos' = pos + n
      /\ more' = (Rest # <<>> /\ (n = Chunk \/ Rest[n] = NL))
  BY DEF SendChunk, Chunk
<1>1. /\ file \in Seq(Nat) /\ pos \in 0..Len(file) - 1 /\ Len(file) \in Nat /\ pos \in Nat
      /\ pos < Len(file)
  BY DEF NewsTypeOK
<1>2. Chunk \in Nat \ {0}
  BY DatagramAssumption DEF Chunk
<1>3. /\ LineEnd \in 1..Len(file) - pos
      /\ \A k \in pos + 1..pos + LineEnd - 1 : file[k] # NL
      /\ IF Breaks = {} THEN LineEnd = Len(file) - pos /\ file[pos + LineEnd] # NL
         ELSE file[pos + LineEnd] = NL
  BY LineEndOf
<1>4. n = IF LineEnd <= Chunk THEN LineEnd ELSE Chunk
  BY <1>2, <1>3, LeastOf
<1> HIDE DEF n
<1>5. /\ n \in 1..Chunk /\ n \in 1..Len(file) - pos /\ n <= LineEnd
      /\ pos + n \in 1..Len(file) /\ n \in 0..Len(file) - pos
  BY <1>1, <1>2, <1>3, <1>4
<1>6. /\ Rest # <<>> /\ Rest[n] = file[pos + n]
      /\ SubSeq(Rest, 1, n) = SubSeq(file, pos + 1, pos + n)
  BY <1>5, RestOf
<1>7. more' = (n = Chunk \/ file[pos + n] = NL) /\ last' = SubSeq(file, pos + 1, pos + n)
  BY <1>0, <1>6 DEF SendToAll
<1>8. \A k \in pos + 1..pos + n - 1 : file[k] # NL
  <2>1. \A k \in pos + 1..pos + n - 1 : k \in pos + 1..pos + LineEnd - 1
    BY <1>1, <1>3, <1>5
  <2> QED BY <2>1, <1>3
<1>9. ASSUME ~more' PROVE pos + n = Len(file)
  <2>1. n # Chunk /\ file[pos + n] # NL
    BY <1>7, <1>9
  <2>2. n = LineEnd
    BY <1>4, <2>1
  <2> QED BY <1>1, <1>3, <2>1, <2>2
<1> QED BY <1>0, <1>5, <1>7, <1>8, <1>9

LEMMA ChunkStep ==
  ASSUME NewsTypeOK, Walk, SendChunk, program' = program
  PROVE  /\ Walk' /\ pos' \in pos..Len(file) /\ SendToAll(last') /\ last' \in Seq(Nat)
         /\ more' \in BOOLEAN
         /\ \A ch \in Chars : Sent(ch)' = Sent(ch) + (IF ch \in Range(Cut(last')) THEN 1 ELSE 0)
<1>0. program = "news_sender" /\ more /\ file' = file
  BY DEF SendChunk, SendToAll
<1>1. /\ file \in Seq(Nat) /\ pos \in 0..Len(file) /\ Len(file) \in Nat /\ pos \in Nat
      /\ last \in Seq(Nat)
  BY DEF NewsTypeOK
<1>2. Chunk \in Nat \ {0}
  BY DatagramAssumption DEF Chunk
<1>3. /\ Chars' = Chars /\ \A ch : Copies(ch)' = Copies(ch) /\ SentTwice(ch)' = SentTwice(ch)
      /\ \A ch : Copies(ch) = IF SentTwice(ch) THEN 2 ELSE 1
  BY <1>0, CopiesKept, CopiesOf
<1>4. \A ch \in Chars : ch \in 1..Len(file)
  BY <1>1 DEF Chars
<1>5. \A ch : Sent(ch) = IF ch > pos THEN 0 ELSE 1
  BY <1>0 DEF Sent
<1>6. CASE pos # Len(file)
  <2>1. PICK n \in 1..Chunk :
           /\ pos + n \in 1..Len(file) /\ pos' = pos + n
           /\ last' = SubSeq(file, pos + 1, pos + n)
           /\ more' = (n = Chunk \/ file[pos + n] = NL)
           /\ \A k \in pos + 1..pos + n - 1 : file[k] # NL
           /\ ~more' => pos + n = Len(file)
    BY <1>6, ChunkRead
  <2>2. PICK k \in Nat : pos = LineStart(file, pos) + k * Chunk
    BY <1>0, <1>1, <1>6 DEF Walk
  <2> DEFINE s == LineStart(file, pos)
  <2>3. s \in 0..pos /\ (s # 0 => file[s] = NL) /\ \A j \in s + 1..pos : file[j] # NL
    BY <1>1, LineStarts
  <2> HIDE DEF s
  <2>4. pos = s + k * Chunk /\ k * Chunk \in Nat /\ n \in Nat
    BY <2>2, <1>2 DEF s
  <2>5. \A j \in s + 1..pos + n - 1 : file[j] # NL
    <3>1. \A j \in s + 1..pos + n - 1 : j \in s + 1..pos \/ j \in pos + 1..pos + n - 1
      BY <1>1, <2>3, <2>4
    <3> QED BY <3>1, <2>1, <2>3
  <2>6. pos + n = Len(file) =>
          \A ch \in Chars : SentTwice(ch) <=> ch > pos /\ (file[Len(file)] = NL \/ n = Chunk)
    <3>1. SUFFICES ASSUME pos + n = Len(file), NEW ch \in Chars
                   PROVE  SentTwice(ch) <=> ch > pos /\ (file[Len(file)] = NL \/ n = Chunk)
      OBVIOUS
    <3>2. s \in 0..Len(file) - 1 /\ Len(file) = s + k * Chunk + n
      BY <1>1, <2>3, <2>4, <3>1
    <3>0. pos + n - 1 = Len(file) - 1
      BY <3>1, <1>1, <2>4
    <3>3. \A j \in s + 1..Len(file) - 1 : file[j] # NL
      BY <2>5, <3>0
    <3>4. s = 0 \/ file[s] = NL
      BY <2>3
    <3>5. SentTwice(ch) <=> ch > s + k * Chunk /\ (file[Len(file)] = NL \/ n = Chunk)
      BY <1>0, <3>2, <3>3, <3>4, LastPiece
    <3> QED BY <3>5, <2>4
  <2>7. /\ last' \in Seq(Nat) /\ Len(last') = n /\ Cut(last') = last'
        /\ \A ch \in Chars : ch \in Range(last') <=> pos < ch /\ ch <= pos + n
    <3>1. pos + n \in pos..Len(file)
      BY <1>1, <2>1, <2>4
    <3>2. last' \in Seq(Nat) /\ Len(last') = pos + n - pos
      BY SMTT(20), <1>1, <2>1, <3>1, SubSub
    <3>3. Len(last') = n /\ n <= Chunk
      BY <1>1, <1>2, <2>4, <3>2
    <3>4. Cut(last') = last'
      BY <3>2, <3>3, CutOf
    <3>5. \A ch \in Chars :
            ch \in Range(SubSeq(file, pos + 1, pos + n)) <=> pos < ch /\ ch <= pos + n
      BY <1>1, <3>1, CharsOf
    <3> QED BY <2>1, <3>2, <3>3, <3>4, <3>5
  <2>8. ~more' => \A ch \in Chars : ~SentTwice(ch)
    <3>1. ~more' => pos + n = Len(file) /\ n # Chunk /\ file[Len(file)] # NL
      BY <2>1
    <3> QED BY <3>1, <2>6
  <2>9. Walk'
    <3>1. ~more' => pos' = Len(file')
      BY <2>1, <1>0
    <3>2. ASSUME more', pos' < Len(file)
          PROVE  \E m \in Nat : pos' = LineStart(file, pos') + m * Chunk
      <4>1. pos' \in 1..Len(file) /\ pos' = pos + n
        BY <2>1
      <4>2. CASE file[pos'] = NL
        <5>1. pos' \in 0..Len(file) /\ pos' \in 0..pos' /\ \A j \in pos' + 1..pos' : file[j] # NL
          BY <1>1, <4>1
        <5>2. LineStart(file, pos') = pos'
          BY <1>1, <4>2, <5>1, LineStartIs
        <5>3. pos' = pos' + 0 * Chunk
          BY <1>2, <4>1
        <5> QED BY <5>2, <5>3
      <4>3. CASE file[pos'] # NL
        <5>1. n = Chunk
          BY <2>1, <3>2, <4>3
        <5>2. pos' \in 0..Len(file) /\ s \in 0..pos' /\ (s = 0 \/ file[s] = NL)
          BY SMTT(20), <1>1, <2>3, <2>4, <4>1
        <5>3. \A j \in s + 1..pos' : file[j] # NL
          <6>1. \A j \in s + 1..pos' : j \in s + 1..pos + n - 1 \/ j = pos'
            BY SMTT(20), <1>1, <2>3, <2>4, <4>1
          <6> QED BY <6>1, <2>5, <4>3
        <5>4. LineStart(file, pos') = s
          BY <1>1, <5>2, <5>3, LineStartIs
        <5>5. pos' = s + (k + 1) * Chunk
          BY <1>1, <1>2, <2>3, <2>4, <4>1, <5>1
        <5> QED BY <5>4, <5>5
      <4> QED BY <4>2, <4>3
    <3>3. ASSUME more', ~(pos' < Len(file))
          PROVE  /\ Len(last') <= Chunk
                 /\ \E q \in 0..Len(file) - 1 :
                      /\ last' = SubSeq(file, q + 1, Len(file))
                      /\ \A ch \in Chars : SentTwice(ch) <=> ch > q
      <4>1. pos + n = Len(file)
        BY <1>1, <2>1, <3>3
      <4>2. file[Len(file)] = NL \/ n = Chunk
        BY <2>1, <3>3, <4>1
      <4>3. pos \in 0..Len(file) - 1 /\ last' = SubSeq(file, pos + 1, Len(file))
        <5>1. pos \in 0..Len(file) - 1
          BY <1>1, <1>6
        <5> QED BY <5>1, <2>1, <4>1
      <4>4. Len(last') <= Chunk
        BY <2>7, <1>2
      <4> QED BY <2>6, <4>1, <4>2, <4>3, <4>4
    <3> QED BY <1>0, <1>3, <3>1, <3>2, <3>3 DEF Walk
  <2>10. \A ch \in Chars : Sent(ch)' = Sent(ch) + (IF ch \in Range(Cut(last')) THEN 1 ELSE 0)
    <3>1. \A ch \in Chars : Sent(ch)' = IF ch > pos + n THEN 0 ELSE 1
      BY <1>0, <1>3, <2>1, <2>8 DEF Sent
    <3> QED BY <1>1, <1>4, <1>5, <2>4, <2>7, <3>1
  <2>11. SendToAll(last') /\ pos' \in pos..Len(file) /\ more' \in BOOLEAN
    <3>1. SendToAll(last')
      BY DEF SendChunk, SendToAll
    <3> QED BY <3>1, <1>1, <2>1, <2>4
  <2> QED BY <2>7, <2>9, <2>10, <2>11
<1>7. CASE pos = Len(file)
  <2>1. Rest = <<>> /\ Len(Rest) = 0 /\ Breaks = {}
    BY <1>1, <1>7, RestOf DEF Breaks
  <2>2. LineEnd = 0
    BY <2>1 DEF LineEnd
  <2>3. Least(LineEnd, Chunk) = 0
    BY <2>2, <1>2, LeastOf
  <2>4. pos' = pos /\ ~more' /\ more' \in BOOLEAN /\ SendToAll(last) /\ last' = last
    <3>1. /\ SendToAll(IF Rest = <<>> THEN last ELSE SubSeq(Rest, 1, Least(LineEnd, Chunk)))
          /\ pos' = pos + Least(LineEnd, Chunk)
          /\ more' = (Rest # <<>> /\ (Least(LineEnd, Chunk) = Chunk
                                      \/ Rest[Least(LineEnd, Chunk)] = NL))
      BY DEF SendChunk, Chunk
    <3>2. SendToAll(last)
      BY <3>1, <2>1 DEF SendToAll
    <3>4. more' = FALSE
      BY <3>1, <2>1
    <3>5. pos' = pos
      BY <3>1, <2>3, <1>1
    <3>3. last' = last
      BY <3>2 DEF SendToAll
    <3> QED BY <3>2, <3>3, <3>4, <3>5
  <2>5. Len(last) <= Chunk /\ \E q \in 0..Len(file) - 1 :
          /\ last = SubSeq(file, q + 1, Len(file))
          /\ \A ch \in Chars : SentTwice(ch) <=> ch > q
    <3>1. ~(pos < Len(file))
      BY <1>1, <1>7
    <3> QED BY <1>0, <3>1 DEF Walk
  <2>6. PICK q \in 0..Len(file) - 1 :
          /\ last = SubSeq(file, q + 1, Len(file))
          /\ \A ch \in Chars : SentTwice(ch) <=> ch > q
    BY <2>5
  <2>7. q \in 0..Len(file) /\ Len(file) \in q..Len(file)
    BY <1>1
  <2>8. Cut(last) = last /\ \A ch \in Chars : ch \in Range(last) <=> q < ch /\ ch <= Len(file)
    BY <1>1, <2>5, <2>6, <2>7, CutOf, CharsOf
  <2>9. \A ch \in Chars : Sent(ch)' = IF SentTwice(ch) THEN 2 ELSE 1
    BY <1>0, <1>1, <1>3, <1>4, <1>7, <2>4 DEF Sent
  <2>10. \A ch \in Chars : Sent(ch)' = Sent(ch) + (IF ch \in Range(Cut(last')) THEN 1 ELSE 0)
    <3>1. ASSUME NEW ch \in Chars
          PROVE  Sent(ch) = 1 /\ (SentTwice(ch) <=> ch \in Range(Cut(last)))
      <4>1. ch \in 1..Len(file) /\ ~(ch > pos)
        BY <1>1, <1>4, <1>7
      <4>2. ch > q <=> q < ch /\ ch <= Len(file)
        BY <4>1, <1>1
      <4> QED BY <4>1, <4>2, <1>5, <2>6, <2>8
    <3> QED BY <2>4, <2>9, <3>1
  <2>11. Walk'
    BY <1>0, <1>7, <2>4 DEF Walk
  <2> QED BY <1>1, <1>7, <2>4, <2>10, <2>11
<1> QED BY <1>6, <1>7

(* Where a whole line starts and ends that getline reads.                    *)
LEMMA WholeRead ==
  ASSUME NewsTypeOK, Walk, SendWhole
  PROVE  \E n \in 1..Len(file), m \in Nat :
           /\ pos + n \in 1..Len(file) /\ pos' = pos + n
           /\ m <= n /\ last' = SubSeq(file, pos + 1, pos + m)
           /\ last' \in Seq(Nat) /\ Len(last') = m
           /\ \A k \in pos + 1..pos + n - 1 : file[k] # NL
           /\ pos + n = Len(file) \/ file[pos + n] = NL
           /\ \A ch \in Chars : pos < ch /\ ch <= pos + n => ch <= pos + m
           /\ pos # Len(file)
<1>1. /\ file \in Seq(Nat) /\ pos \in 0..Len(file) /\ Len(file) \in Nat /\ pos \in Nat
  BY DEF NewsTypeOK
<1>2. /\ Rest # <<>> /\ pos' = pos + LineEnd
      /\ last' = SubSeq(Rest, 1, IF Breaks = {} THEN LineEnd ELSE LineEnd - 1)
  BY DEF SendWhole, SendToAll
<1>3. pos # Len(file)
  BY <1>2, RestOf
<1>4. /\ LineEnd \in 1..Len(file) - pos
      /\ \A k \in pos + 1..pos + LineEnd - 1 : file[k] # NL
      /\ IF Breaks = {} THEN LineEnd = Len(file) - pos /\ file[pos + LineEnd] # NL
         ELSE file[pos + LineEnd] = NL
  BY <1>3, LineEndOf
<1> DEFINE m == IF Breaks = {} THEN LineEnd ELSE LineEnd - 1
<1>5. /\ m \in Nat /\ m <= LineEnd /\ m \in 0..Len(file) - pos
      /\ LineEnd \in 1..Len(file) /\ pos + LineEnd \in 1..Len(file)
  BY <1>1, <1>4
<1>6. last' = SubSeq(file, pos + 1, pos + m)
  BY <1>2, <1>5, RestOf
<1>7. pos + m \in pos..Len(file) /\ pos + m - pos = m
  BY <1>1, <1>5
<1>8. last' \in Seq(Nat) /\ Len(last') = m
  <2> HIDE DEF m
  <2>1. /\ SubSeq(file, pos + 1, pos + m) \in Seq(Nat)
        /\ Len(SubSeq(file, pos + 1, pos + m)) = pos + m - pos
    <3>1. ASSUME NEW b \in pos..Len(file)
          PROVE  /\ SubSeq(file, pos + 1, b) \in Seq(Nat)
                 /\ Len(SubSeq(file, pos + 1, b)) = b - pos
      <4>1. 0 \in 0..b - pos
        BY <1>1
      <4> QED BY <1>1, <4>1, SubSub
    <3>2. PICK b \in pos..Len(file) : b = pos + m
      BY <1>7
    <3> QED BY <1>1, <1>5, <3>1, <3>2
  <2> QED BY <1>6, <1>7, <2>1
<1>9. pos + LineEnd = Len(file) \/ file[pos + LineEnd] = NL
  BY <1>1, <1>4
<1>10. ASSUME NEW ch \in Chars, pos < ch, ch <= pos + LineEnd PROVE ch <= pos + m
  <2>1. ch \in 1..Len(file) /\ file[ch] # NL
    BY <1>1 DEF Chars
  <2>2. Breaks # {} => ch # pos + LineEnd
    BY <1>4, <2>1
  <2> QED BY <1>1, <1>4, <1>10, <2>1, <2>2
<1> HIDE DEF m
<1> QED BY <1>2, <1>3, <1>4, <1>5, <1>6, <1>8, <1>9, <1>10

LEMMA WholeStep ==
  ASSUME NewsTypeOK, Walk, SendWhole, program' = program
  PROVE  /\ Walk' /\ pos' \in pos..Len(file) /\ SendToAll(last') /\ last' \in Seq(Nat)
         /\ more' \in BOOLEAN /\ pos # Len(file)
         /\ program = "bound_host2" => pos' = pos + 2
         /\ \A ch \in Chars : Sent(ch)' = Sent(ch) + (IF ch \in Range(Cut(last')) THEN 1 ELSE 0)
<1>0. /\ program # "news_sender" /\ more /\ more' = more /\ file' = file /\ SendToAll(last')
      /\ program \in {"news_sender_brd", "bound_host2"} /\ more \in BOOLEAN
  BY DEF SendWhole, SendToAll, NewsTypeOK, NewsPrograms
<1>1. /\ file \in Seq(Nat) /\ pos \in 0..Len(file) /\ Len(file) \in Nat /\ pos \in Nat
  BY DEF NewsTypeOK
<1>2. Chunk \in Nat \ {0} /\ BUF_SIZE = Chunk + 1
  BY DatagramAssumption DEF Chunk
<1>3. PICK n \in 1..Len(file), m \in Nat :
         /\ pos + n \in 1..Len(file) /\ pos' = pos + n
         /\ m <= n /\ last' = SubSeq(file, pos + 1, pos + m) /\ last' \in Seq(Nat) /\ Len(last') = m
         /\ \A k \in pos + 1..pos + n - 1 : file[k] # NL
         /\ pos + n = Len(file) \/ file[pos + n] = NL
         /\ \A ch \in Chars : pos < ch /\ ch <= pos + n => ch <= pos + m
         /\ pos # Len(file)
  BY WholeRead
<1>4. Chars' = Chars /\ \A ch : Copies(ch)' = Copies(ch)
  BY <1>0, CopiesKept
<1>5. \A ch \in Chars : ch \in 1..Len(file)
  BY <1>1 DEF Chars
<1>6. /\ \A ch : Sent(ch) = IF ch > pos THEN 0 ELSE Copies(ch)
      /\ \A ch : Sent(ch)' = IF ch > pos + n THEN 0 ELSE Copies(ch)
  BY <1>0, <1>3, <1>4 DEF Sent
<1> DEFINE l == IF m <= Chunk THEN m ELSE Chunk
<1>7. l \in Nat /\ l <= m /\ l <= Chunk /\ pos + l \in pos..Len(file) /\ pos + m \in pos..Len(file)
  BY <1>1, <1>2, <1>3
<1>8. Cut(last') = SubSeq(file, pos + 1, pos + l)
  <2>1. Cut(last') = SubSeq(last', 1, l)
    BY <1>3, CutOf
  <2>2. l \in 0..pos + m - pos
    BY <1>1, <1>3, <1>7
  <2> HIDE DEF l
  <2> QED BY <1>1, <1>3, <1>7, <2>1, <2>2, SubSub
<1>9. \A ch \in Chars : ch \in Range(Cut(last')) <=> pos < ch /\ ch <= pos + l
  <2> HIDE DEF l
  <2> QED BY <1>1, <1>7, <1>8, CharsOf
<1>10. program = "bound_host2" => n = 2 /\ pos \in {0, 2, 4}
  <2>1. SUFFICES ASSUME program = "bound_host2" PROVE n = 2 /\ pos \in {0, 2, 4}
    OBVIOUS
  <2>2. file = <<1, NL, 3, NL, 5, NL>> /\ pos \in {0, 2, 4, 6}
    BY <2>1 DEF NewsTypeOK, Walk
  <2>3. /\ Len(file) = 6 /\ file[1] = 1 /\ file[2] = NL /\ file[3] = 3 /\ file[4] = NL
        /\ file[5] = 5 /\ file[6] = NL /\ NL = 0
    BY <2>2 DEF NL
  <2>4. pos \in {0, 2, 4}
    BY <1>3, <2>2, <2>3
  <2>5. file[pos + 1] # NL /\ file[pos + 2] = NL
    BY <2>3, <2>4
  <2>6. n # 1
    BY <1>3, <2>3, <2>4, <2>5
  <2>7. ~(n > 2)
    <3>1. n > 2 => pos + 2 \in pos + 1..pos + n - 1
      BY <1>1
    <3> QED BY <1>3, <2>5, <3>1
  <2> QED BY <2>4, <2>6, <2>7
<1>11. ASSUME NEW ch \in Chars, pos < ch, ch <= pos + n
       PROVE  Copies(ch) = IF ch <= pos + l THEN 1 ELSE 0
  <2>1. ch \in 1..Len(file) /\ ch <= pos + m
    BY <1>3, <1>5, <1>11
  <2>2. CASE program = "bound_host2"
    <3>1. n = 2 /\ pos \in {0, 2, 4} /\ file = <<1, NL, 3, NL, 5, NL>>
      BY <1>10, <2>2 DEF NewsTypeOK
    <3>2. file[pos + 2] = NL /\ file[ch] # NL
      BY <3>1 DEF Chars, NL
    <3>3. ch = pos + 1
      BY <1>1, <1>11, <2>1, <3>1, <3>2
    <3>4. ch <= pos + l
      BY <1>1, <1>2, <2>1, <3>3
    <3> QED BY <2>2, <3>4, CopiesOf
  <2>3. CASE program = "news_sender_brd"
    <3>1. pos = 0 \/ file[pos] = NL
      BY <1>3, <2>3 DEF Walk
    <3>2. \A k \in pos + 1..ch : file[k] # NL
      <4>1. file[ch] # NL
        BY DEF Chars
      <4>2. \A k \in pos + 1..ch : k \in pos + 1..pos + n - 1 \/ k = ch
        BY <1>1, <1>11, <2>1
      <4> QED BY <1>3, <4>1, <4>2
    <3>3. StartOf(ch) = pos
      <4>1. ch \in 0..Len(file) /\ pos \in 0..ch
        BY <1>1, <1>11, <2>1
      <4>2. LineStart(file, ch) = pos
        BY <1>1, <3>1, <3>2, <4>1, LineStartIs
      <4> QED BY <4>2, StartIs
    <3>4. Copies(ch) = IF ch - pos >= BUF_SIZE THEN 0 ELSE 1
      BY <2>3, <3>3, CopiesOf DEF Column
    <3>5. ch - pos >= BUF_SIZE <=> ~(ch <= pos + l)
      BY <1>1, <1>2, <2>1
    <3> QED BY <3>4, <3>5
  <2> QED BY <1>0, <2>2, <2>3
<1>12. \A ch \in Chars : Sent(ch)' = Sent(ch) + (IF ch \in Range(Cut(last')) THEN 1 ELSE 0)
  <2>1. SUFFICES ASSUME NEW ch \in Chars
                 PROVE  Sent(ch)' = Sent(ch) + (IF ch \in Range(Cut(last')) THEN 1 ELSE 0)
    OBVIOUS
  <2>2. ch \in 1..Len(file) /\ Copies(ch) \in Nat /\ pos + l <= pos + n
    BY SMTT(20), <1>1, <1>3, <1>5, <1>7, SentNat
  <2> HIDE DEF l
  <2>3. CASE pos < ch /\ ch <= pos + n
    BY <1>1, <1>6, <1>9, <1>11, <2>2, <2>3
  <2>4. CASE ch <= pos
    BY <1>1, <1>3, <1>6, <1>7, <1>9, <2>2, <2>4
  <2>5. CASE ch > pos + n
    BY SMTT(20), <1>1, <1>3, <1>6, <1>7, <1>9, <2>2, <2>5
  <2> QED BY <2>2, <2>3, <2>4, <2>5, <1>1, <1>3
<1>13. Walk'
  BY <1>0, <1>1, <1>3, <1>10 DEF Walk
<1>14. pos' \in pos..Len(file)
  BY <1>1, <1>3
<1> QED BY <1>0, <1>3, <1>10, <1>12, <1>13, <1>14

(* Each way a datagram is sent, comes, is lost or comes again moves what a   *)
(* receiver has on its page or under way by one at most.                     *)
LEMMA PageNat ==
  ASSUME NewsTypeOK, NEW r \in Receivers
  PROVE  /\ Total(r) \in Nat /\ Size(net, ToHost(net, r)) \in Nat
         /\ Size(seen[r], DOMAIN seen[r]) \in Nat
         /\ \A x : /\ OnPage(r, x) \in Nat /\ Size(net, With(net, r, x)) \in Nat
                   /\ Size(seen[r], Holding(seen[r], x)) \in Nat
                   /\ ToHost(net, r) = {} => Size(net, With(net, r, x)) = 0
<1>1. /\ Counted(net) /\ IsFiniteSet(Units(net, ToHost(net, r)))
      /\ Counted(seen[r]) /\ IsFiniteSet(Units(seen[r], DOMAIN seen[r]))
  BY DEF NewsTypeOK
<1>2. ASSUME NEW x PROVE With(net, r, x) \subseteq ToHost(net, r)
  BY DEF With, ToHost
<1>3. ASSUME NEW x PROVE Holding(seen[r], x) \subseteq DOMAIN seen[r]
  BY DEF Holding
<1>4. Size(net, ToHost(net, r)) \in Nat /\ \A x : Size(net, With(net, r, x)) \in Nat
  BY <1>1, <1>2, UnitsFewer
<1>5. /\ Size(seen[r], DOMAIN seen[r]) \in Nat
      /\ \A x : Size(seen[r], Holding(seen[r], x)) \in Nat
  BY <1>1, <1>3, UnitsFewer
<1>6. ASSUME ToHost(net, r) = {}, NEW x PROVE Size(net, With(net, r, x)) = 0
  <2>1. With(net, r, x) = {}
    BY <1>2, <1>6
  <2>2. Units(net, {}) = {}
    BY DEF Units
  <2> QED BY <2>1, <2>2, FS_EmptySet DEF Size
<1> QED BY <1>4, <1>5, <1>6 DEF Total, OnPage

LEMMA SentOnPage ==
  ASSUME NewsTypeOK, NEW d \in Seq(Nat), SendToAll(d), NEW r \in Receivers
  PROVE  /\ Counted(net') /\ \A p \in DOMAIN net' : p.of \in Receivers /\ p.data \in Seq(Nat)
         /\ IsFiniteSet(Units(net', ToHost(net', r)))
         /\ Total(r)' = Total(r) + (IF r \in joined THEN 1 ELSE 0)
         /\ \A x : OnPage(r, x)' = OnPage(r, x)
                     + (IF r \in joined /\ x \in Range(Cut(d)) THEN 1 ELSE 0)
<1> DEFINE S == {Packet(h, "to", d) : h \in joined}
<1>1. /\ net' = net (+) SetToBag(S) /\ seen' = seen
  BY DEF SendToAll, Send, page
<1>2. \A q \in S : q.of \in joined /\ q.data = d /\ q = Packet(q.of, "to", d)
  BY DEF Packet
<1>3. r \in joined => Packet(r, "to", d) \in S /\ Packet(r, "to", d).of = r
                        /\ Packet(r, "to", d).data = d
  BY DEF Packet
<1> HIDE DEF S
<1>4. Counted(net) /\ joined \subseteq Receivers /\ IsFiniteSet(Units(net, ToHost(net, r)))
      /\ \A p \in DOMAIN net : p.of \in Receivers /\ p.data \in Seq(Nat)
  BY DEF NewsTypeOK
<1>5. Counted(net') /\ DOMAIN net' = DOMAIN net \cup S
  BY <1>1, <1>4, BagSentAll
<1>6. \A p \in DOMAIN net' : p.of \in Receivers /\ p.data \in Seq(Nat)
  BY <1>2, <1>4, <1>5
<1>7. /\ Total(r) = Size(seen[r], DOMAIN seen[r]) + Size(net, ToHost(net, r))
      /\ Total(r)' = Size(seen[r], DOMAIN seen[r]) + Size(net', ToHost(net', r))
      /\ \A x : OnPage(r, x) = Size(seen[r], Holding(seen[r], x)) + Size(net, With(net, r, x))
      /\ \A x : OnPage(r, x)' = Size(seen[r], Holding(seen[r], x)) + Size(net', With(net', r, x))
  BY <1>1 DEF Total, OnPage
<1>8. /\ Size(net, ToHost(net, r)) \in Nat /\ Size(seen[r], DOMAIN seen[r]) \in Nat
      /\ \A x : /\ Size(net, With(net, r, x)) \in Nat
                /\ Size(seen[r], Holding(seen[r], x)) \in Nat
  BY PageNat
<1>9. CASE r \in joined
  <2>1. \A q \in S : q.of = r => q = Packet(r, "to", d)
    BY <1>2
  <2>2. PICK p \in S : p = Packet(r, "to", d)
    BY <1>3, <1>9
  <2>3. p.of = r /\ p.data = d /\ \A q \in S : q.of = r => q = p
    BY <1>3, <1>9, <2>1, <2>2
  <2>4. /\ IsFiniteSet(Units(net', ToHost(net', r)))
        /\ Size(net', ToHost(net', r)) = Size(net, ToHost(net, r)) + 1
        /\ \A x : Size(net', With(net', r, x))
                    = Size(net, With(net, r, x)) + (IF x \in Range(Cut(d)) THEN 1 ELSE 0)
    BY <1>1, <1>4, <2>3, NetMore
  <2>5. Total(r)' = Total(r) + 1
    BY <1>7, <1>8, <2>4
  <2>6. \A x : OnPage(r, x)' = OnPage(r, x) + (IF x \in Range(Cut(d)) THEN 1 ELSE 0)
    BY <1>7, <1>8, <2>4
  <2> QED BY <1>5, <1>6, <1>9, <2>4, <2>5, <2>6
<1>10. CASE r \notin joined
  <2>1. \A q \in S : q.of # r
    BY <1>2, <1>10
  <2>2. /\ Units(net', ToHost(net', r)) = Units(net, ToHost(net, r))
        /\ \A x : Units(net', With(net', r, x)) = Units(net, With(net, r, x))
    BY <1>1, <1>4, <2>1, NetElse
  <2>3. /\ Size(net', ToHost(net', r)) = Size(net, ToHost(net, r))
        /\ \A x : Size(net', With(net', r, x)) = Size(net, With(net, r, x))
    BY <2>2 DEF Size
  <2> QED BY <1>4, <1>5, <1>6, <1>7, <1>8, <1>10, <2>2, <2>3
<1> QED BY <1>9, <1>10

LEMMA NewsSenderStep ==
  ASSUME NewsAll, SendChunk \/ SendWhole, program' = program
  PROVE  NewsAll'
<1>1. NewsTypeOK /\ Walk /\ \A r \in Receivers : ReceiverOf(r)
  BY DEF NewsAll
<1>2. /\ Walk' /\ pos' \in pos..Len(file) /\ SendToAll(last') /\ last' \in Seq(Nat)
      /\ more' \in BOOLEAN
      /\ program = "bound_host2" => pos' = pos + 2 /\ pos # Len(file)
      /\ \A ch \in Chars : Sent(ch)' = Sent(ch) + (IF ch \in Range(Cut(last')) THEN 1 ELSE 0)
  <2>1. CASE SendChunk
    <3>1. program = "news_sender"
      BY <2>1 DEF SendChunk
    <3> QED BY <1>1, <2>1, <3>1, ChunkStep
  <2>2. CASE SendWhole
    BY <1>1, <2>2, WholeStep
  <2> QED BY <2>1, <2>2
<1>3. PICK d \in Seq(Nat) : d = last'
  BY <1>2
<1>4. /\ SendToAll(d) /\ file' = file /\ joined' = joined /\ seen' = seen /\ early' = early
      /\ extra' = extra /\ lost' = lost
  BY <1>2, <1>3 DEF SendToAll, Send, page
<1>5. /\ file \in Seq(Nat) /\ pos \in 0..Len(file) /\ Len(file) \in Nat /\ pos \in Nat
      /\ joined \subseteq Receivers /\ extra \in [Hosts -> Nat] /\ DOMAIN seen = Receivers
  BY <1>1 DEF NewsTypeOK
<1>6. Chars' = Chars
  BY <1>4 DEF Chars
<1>7. \A r \in Receivers :
        /\ Counted(net') /\ \A p \in DOMAIN net' : p.of \in Receivers /\ p.data \in Seq(Nat)
        /\ IsFiniteSet(Units(net', ToHost(net', r)))
        /\ Total(r)' = Total(r) + (IF r \in joined THEN 1 ELSE 0)
        /\ \A x : OnPage(r, x)' = OnPage(r, x)
                    + (IF r \in joined /\ x \in Range(Cut(d)) THEN 1 ELSE 0)
  BY <1>1, <1>4, SentOnPage
<1>8. NewsTypeOK'
  <2>1. pos' \in 0..Len(file)
    BY <1>2, <1>5
  <2>2. Counted(net') /\ \A p \in DOMAIN net' : p.of \in Receivers /\ p.data \in Seq(Nat)
    <3>1. CASE Receivers = {}
      <4>1. {Packet(h, "to", d) : h \in joined} = {}
        BY <1>5, <3>1
      <4>2. Counted(net') /\ DOMAIN net' = DOMAIN net \cup {}
        BY <1>1, <1>4, <4>1, BagSentAll DEF SendToAll, Send, NewsTypeOK
      <4> QED BY <1>1, <4>2 DEF NewsTypeOK
    <3>2. CASE Receivers # {}
      BY <1>7, <3>2
    <3> QED BY <3>1, <3>2
  <2> QED BY <1>1, <1>2, <1>4, <1>7, <2>1, <2>2 DEF NewsTypeOK
<1>9. ASSUME NEW r \in Receivers PROVE ReceiverOf(r)'
  <2>1. ReceiverOf(r) /\ extra[r] \in Nat /\ Total(r) \in Nat /\ \A x : OnPage(r, x) \in Nat
    BY <1>1, <1>5, PageNat, NewsAssumption
  <2>2. Total(r)' = Total(r) + (IF r \in joined THEN 1 ELSE 0)
    BY <1>7
  <2>3. \A x : OnPage(r, x)' = OnPage(r, x)
                 + (IF r \in joined /\ x \in Range(Cut(d)) THEN 1 ELSE 0)
    BY <1>7
  <2>4. r \in early' /\ r \notin joined' =>
          program = "bound_host2" /\ (extra[r] > 0 \/ pos' = Len(file))
    <3>1. r \in early /\ r \notin joined =>
            program = "bound_host2" /\ (extra[r] > 0 \/ pos = Len(file))
      BY <2>1 DEF ReceiverOf
    <3>2. pos = Len(file) => pos' = Len(file)
      BY <1>2, <1>5
    <3> QED BY <1>4, <3>1, <3>2
  <2>5. program = "bound_host2" => 2 * (Total(r)' - extra[r]) <= pos'
    <3>1. program = "bound_host2" => 2 * (Total(r) - extra[r]) <= pos /\ pos' = pos + 2
      BY <1>2, <2>1 DEF ReceiverOf
    <3> QED BY <1>5, <2>1, <2>2, <3>1
  <2>6. ASSUME NEW ch \in Chars
        PROVE  /\ OnPage(r, ch)' <= Sent(ch)' + extra[r]
               /\ r \in early \ lost /\ extra[r] = 0 => OnPage(r, ch)' = Sent(ch)'
    <3>1. /\ OnPage(r, ch) <= Sent(ch) + extra[r]
          /\ r \in early \ lost /\ extra[r] = 0 => OnPage(r, ch) = Sent(ch)
      BY <2>1 DEF ReceiverOf
    <3>2. Sent(ch) \in Nat /\ Sent(ch)' = Sent(ch) + (IF ch \in Range(Cut(d)) THEN 1 ELSE 0)
      BY <1>2, <1>3, SentNat
    <3>3. CASE r \in joined
      BY <2>1, <2>3, <3>1, <3>2, <3>3
    <3>4. CASE r \notin joined
      <4>1. r \in early /\ extra[r] = 0 => FALSE
        <5>1. r \in early /\ r \notin joined =>
                program = "bound_host2" /\ (extra[r] > 0 \/ pos = Len(file))
          BY <2>1 DEF ReceiverOf
        <5> QED BY <5>1, <1>2, <3>4
      <4> QED BY <2>1, <2>3, <3>1, <3>2, <3>4, <4>1
    <3> QED BY <3>3, <3>4
  <2> QED BY <1>4, <1>6, <2>4, <2>5, <2>6 DEF ReceiverOf
<1> QED BY <1>2, <1>8, <1>9 DEF NewsAll

(* What only the sender decides stays while it does nothing.                 *)
LEMMA SenderKept ==
  ASSUME sender' = sender, program' = program
  PROVE  Chars' = Chars /\ (\A ch : Sent(ch)' = Sent(ch)) /\ (Walk => Walk')
<1>1. file' = file /\ pos' = pos /\ last' = last /\ more' = more
  BY DEF sender
<1>2. Chars' = Chars /\ \A ch : Copies(ch)' = Copies(ch)
  BY <1>1, CopiesKept
<1>3. \A ch : SentTwice(ch)' = SentTwice(ch)
  BY <1>1 DEF SentTwice, StartOf, EndOf, Column, Piece
<1>4. \A ch : Sent(ch)' = Sent(ch)
  BY <1>1, <1>2 DEF Sent
<1>5. Walk => Walk'
  BY <1>1, <1>2, <1>3 DEF Walk
<1> QED BY <1>2, <1>4, <1>5

LEMMA NewsSendEnd ==
  ASSUME NewsAll, SendEnd, program' = program
  PROVE  NewsAll'
<1>1. /\ program # "news_sender" /\ Rest = <<>> /\ more' = FALSE
      /\ file' = file /\ pos' = pos /\ last' = last /\ joined' = joined /\ seen' = seen
      /\ early' = early /\ net' = net /\ lost' = lost /\ extra' = extra
  BY DEF SendEnd, network, page
<1>2. NewsTypeOK /\ Walk /\ \A r \in Receivers : ReceiverOf(r)
  BY DEF NewsAll
<1>3. pos = Len(file)
  BY <1>1, <1>2, RestOf
<1>4. Chars' = Chars /\ \A ch : Copies(ch)' = Copies(ch)
  BY <1>1, CopiesKept
<1>5. \A ch : Sent(ch)' = Sent(ch)
  BY <1>1, <1>4 DEF Sent
<1>6. NewsTypeOK'
  BY <1>1, <1>2 DEF NewsTypeOK
<1>7. Walk'
  BY <1>1, <1>2, <1>3 DEF Walk
<1>8. \A r \in Receivers : ReceiverOf(r)'
  BY <1>1, <1>2, <1>4, <1>5 DEF ReceiverOf, Total, OnPage
<1> QED BY <1>6, <1>7, <1>8 DEF NewsAll

LEMMA NewsBind ==
  ASSUME NewsAll, NEW r \in Receivers, Bind(r), program' = program
  PROVE  NewsAll'
<1>1. /\ sender' = sender /\ seen' = seen /\ net' = net /\ lost' = lost /\ extra' = extra
      /\ joined' = joined \cup {r} /\ early' = IF pos = 0 THEN early \cup {r} ELSE early
  BY DEF Bind, network, page
<1>2. NewsTypeOK /\ Walk /\ \A h \in Receivers : ReceiverOf(h)
  BY DEF NewsAll
<1>3. Chars' = Chars /\ (\A ch : Sent(ch)' = Sent(ch)) /\ Walk'
  BY <1>1, <1>2, SenderKept
<1>4. file' = file /\ pos' = pos /\ last' = last /\ more' = more
  BY <1>1 DEF sender
<1>5. NewsTypeOK'
  BY <1>1, <1>2, <1>4 DEF NewsTypeOK
<1>6. ASSUME NEW h \in Receivers PROVE ReceiverOf(h)'
  <2>1. ReceiverOf(h)
    BY <1>2
  <2>2. Total(h)' = Total(h) /\ \A x : OnPage(h, x)' = OnPage(h, x)
    BY <1>1 DEF Total, OnPage
  <2>3. ASSUME h \notin early, h \in early', NEW ch \in Chars
        PROVE  Sent(ch) = 0
    <3>1. pos = 0 /\ ch \in 1..Len(file)
      BY <1>1, <1>2, <2>3 DEF Chars, NewsTypeOK
    <3> QED BY <3>1 DEF Sent
  <2>4. \A ch \in Chars : OnPage(h, ch) \in Nat /\ Sent(ch) \in Nat
    BY <1>2, PageNat, SentNat
  <2>5. ASSUME NEW ch \in Chars
        PROVE  /\ OnPage(h, ch)' <= Sent(ch)' + extra'[h]
               /\ h \in early' \ lost' /\ extra'[h] = 0 => OnPage(h, ch)' = Sent(ch)'
    <3>1. /\ OnPage(h, ch) <= Sent(ch) + extra[h]
          /\ h \in early \ lost /\ extra[h] = 0 => OnPage(h, ch) = Sent(ch)
      BY <2>1 DEF ReceiverOf
    <3>2. CASE h \in early \/ h \notin early'
      BY <1>1, <1>3, <2>2, <3>1, <3>2
    <3>3. CASE h \notin early /\ h \in early'
      <4>1. Sent(ch) = 0 /\ OnPage(h, ch) \in Nat
        BY <2>3, <2>4, <3>3
      <4> QED BY <1>1, <1>3, <2>2, <3>1, <4>1
    <3> QED BY <3>2, <3>3
  <2>6. h \in early' /\ h \notin joined' => h \in early /\ h \notin joined
    BY <1>1
  <2> QED BY <1>1, <1>3, <1>4, <2>1, <2>2, <2>5, <2>6 DEF ReceiverOf
<1> QED BY <1>3, <1>5, <1>6 DEF NewsAll

(* The network has one datagram less, of p's receiver.                       *)
LEMMA NewsTaken ==
  ASSUME NewsTypeOK, NEW p \in DOMAIN net, net' = net (-) SetToBag({p})
  PROVE  /\ Counted(net') /\ \A q \in DOMAIN net' : q.of \in Receivers /\ q.data \in Seq(Nat)
         /\ \A r \in Receivers :
              /\ IsFiniteSet(Units(net', ToHost(net', r)))
              /\ p.of = r =>
                   /\ Size(net', ToHost(net', r)) = Size(net, ToHost(net, r)) - 1
                   /\ \A x : Size(net', With(net', r, x))
                        = Size(net, With(net, r, x)) - (IF x \in Range(Cut(p.data)) THEN 1 ELSE 0)
              /\ p.of # r =>
                   /\ Size(net', ToHost(net', r)) = Size(net, ToHost(net, r))
                   /\ \A x : Size(net', With(net', r, x)) = Size(net, With(net, r, x))
<1>1. /\ Counted(net) /\ \A q \in DOMAIN net : q.of \in Receivers /\ q.data \in Seq(Nat)
      /\ \A r \in Receivers : IsFiniteSet(Units(net, ToHost(net, r)))
  BY DEF NewsTypeOK
<1>2. Counted(net') /\ DOMAIN net' \subseteq DOMAIN net
  BY <1>1, BagTaken
<1>3. ASSUME NEW r \in Receivers
      PROVE  /\ IsFiniteSet(Units(net', ToHost(net', r)))
             /\ p.of = r =>
                  /\ Size(net', ToHost(net', r)) = Size(net, ToHost(net, r)) - 1
                  /\ \A x : Size(net', With(net', r, x))
                       = Size(net, With(net, r, x)) - (IF x \in Range(Cut(p.data)) THEN 1 ELSE 0)
             /\ p.of # r =>
                  /\ Size(net', ToHost(net', r)) = Size(net, ToHost(net, r))
                  /\ \A x : Size(net', With(net', r, x)) = Size(net, With(net, r, x))
  BY <1>1, NetLess
<1> QED BY <1>1, <1>2, <1>3

LEMMA NewsLose ==
  ASSUME NewsAll, NEW p \in DOMAIN net, Lose(p), news' = news, program' = program
  PROVE  NewsAll'
<1>1. /\ sender' = sender /\ seen' = seen /\ joined' = joined /\ early' = early
      /\ net' = net (-) SetToBag({p}) /\ lost' = lost \cup {p.of} /\ extra' = extra
  BY DEF Lose, news, page
<1>2. NewsTypeOK /\ Walk /\ \A h \in Receivers : ReceiverOf(h)
  BY DEF NewsAll
<1>3. Chars' = Chars /\ (\A ch : Sent(ch)' = Sent(ch)) /\ Walk'
  BY <1>1, <1>2, SenderKept
<1>4. file' = file /\ pos' = pos /\ last' = last /\ more' = more
  BY <1>1 DEF sender
<1>5. /\ Counted(net') /\ \A q \in DOMAIN net' : q.of \in Receivers /\ q.data \in Seq(Nat)
      /\ \A r \in Receivers :
           /\ IsFiniteSet(Units(net', ToHost(net', r)))
           /\ p.of = r =>
                /\ Size(net', ToHost(net', r)) = Size(net, ToHost(net, r)) - 1
                /\ \A x : Size(net', With(net', r, x))
                     = Size(net, With(net, r, x)) - (IF x \in Range(Cut(p.data)) THEN 1 ELSE 0)
           /\ p.of # r =>
                /\ Size(net', ToHost(net', r)) = Size(net, ToHost(net, r))
                /\ \A x : Size(net', With(net', r, x)) = Size(net, With(net, r, x))
  BY <1>1, <1>2, NewsTaken
<1>6. NewsTypeOK'
  BY <1>1, <1>2, <1>4, <1>5 DEF NewsTypeOK
<1>7. ASSUME NEW h \in Receivers PROVE ReceiverOf(h)'
  <2>1. ReceiverOf(h) /\ extra[h] \in Nat /\ pos \in Nat
    BY <1>2, NewsAssumption DEF NewsTypeOK
  <2>2. /\ Size(net, ToHost(net, h)) \in Nat /\ Size(seen[h], DOMAIN seen[h]) \in Nat
        /\ \A x : Size(net, With(net, h, x)) \in Nat /\ Size(seen[h], Holding(seen[h], x)) \in Nat
    BY <1>2, PageNat
  <2>3. /\ Total(h)' = Size(seen[h], DOMAIN seen[h]) + Size(net', ToHost(net', h))
        /\ \A x : OnPage(h, x)' = Size(seen[h], Holding(seen[h], x)) + Size(net', With(net', h, x))
        /\ Total(h) = Size(seen[h], DOMAIN seen[h]) + Size(net, ToHost(net, h))
        /\ \A x : OnPage(h, x) = Size(seen[h], Holding(seen[h], x)) + Size(net, With(net, h, x))
    BY <1>1 DEF Total, OnPage
  <2>4. CASE p.of = h
    <3>1. /\ Total(h)' = Total(h) - 1 /\ Total(h) \in Nat
          /\ \A x : OnPage(h, x) \in Nat /\ OnPage(h, x)' \in {OnPage(h, x), OnPage(h, x) - 1}
      BY <1>5, <2>2, <2>3, <2>4
    <3>2. program = "bound_host2" => 2 * (Total(h)' - extra[h]) <= pos
      <4>1. program = "bound_host2" => 2 * (Total(h) - extra[h]) <= pos
        BY <2>1 DEF ReceiverOf
      <4> QED BY <2>1, <3>1, <4>1
    <3>3. ASSUME NEW ch \in Chars PROVE OnPage(h, ch)' <= Sent(ch) + extra[h]
      <4>1. OnPage(h, ch) <= Sent(ch) + extra[h] /\ Sent(ch) \in Nat
        BY <2>1, SentNat DEF ReceiverOf
      <4> QED BY <2>1, <3>1, <4>1
    <3>4. h \in lost'
      BY <1>1, <2>4
    <3> QED BY <1>1, <1>3, <1>4, <2>1, <3>2, <3>3, <3>4 DEF ReceiverOf
  <2>5. CASE p.of # h
    <3>1. Total(h)' = Total(h) /\ \A x : OnPage(h, x)' = OnPage(h, x)
      BY <1>5, <2>3, <2>5
    <3>2. h \in early' \ lost' => h \in early \ lost
      BY <1>1
    <3> QED BY <1>1, <1>3, <1>4, <2>1, <3>1, <3>2 DEF ReceiverOf
  <2> QED BY <2>4, <2>5
<1> QED BY <1>3, <1>6, <1>7 DEF NewsAll

LEMMA NewsIntrude ==
  ASSUME NewsAll, NEW p \in DOMAIN net, Intrude(p), news' = news, program' = program
  PROVE  NewsAll'
<1>1. /\ sender' = sender /\ seen' = seen /\ joined' = joined /\ early' = early
      /\ net' = net (+) SetToBag({p}) /\ lost' = lost
      /\ extra' = [extra EXCEPT ![p.of] = @ + 1]
  BY DEF Intrude, news, page
<1>2. NewsTypeOK /\ Walk /\ \A h \in Receivers : ReceiverOf(h)
  BY DEF NewsAll
<1>3. Chars' = Chars /\ (\A ch : Sent(ch)' = Sent(ch)) /\ Walk'
  BY <1>1, <1>2, SenderKept
<1>4. file' = file /\ pos' = pos /\ last' = last /\ more' = more
  BY <1>1 DEF sender
<1>5. /\ p.of \in Receivers /\ p.of \in Hosts /\ extra \in [Hosts -> Nat]
      /\ Receivers \subseteq Hosts
      /\ Counted(net)
  BY <1>2, NewsAssumption DEF NewsTypeOK
<1>6. /\ extra' \in [Hosts -> Nat]
      /\ \A h \in Hosts : extra'[h] = IF h = p.of THEN extra[h] + 1 ELSE extra[h]
  BY <1>1, <1>5
<1>7. Counted(net') /\ DOMAIN net' = DOMAIN net
  <2>1. Counted(net') /\ DOMAIN net' = DOMAIN net \cup {p}
    BY <1>1, <1>5, BagSentAll
  <2> QED BY <2>1
<1>8. ASSUME NEW r \in Receivers
      PROVE  /\ IsFiniteSet(Units(net', ToHost(net', r)))
             /\ p.of = r =>
                  /\ Size(net', ToHost(net', r)) = Size(net, ToHost(net, r)) + 1
                  /\ \A x : Size(net', With(net', r, x))
                       = Size(net, With(net, r, x)) + (IF x \in Range(Cut(p.data)) THEN 1 ELSE 0)
             /\ p.of # r =>
                  /\ Size(net', ToHost(net', r)) = Size(net, ToHost(net, r))
                  /\ \A x : Size(net', With(net', r, x)) = Size(net, With(net, r, x))
  <2>1. IsFiniteSet(Units(net, ToHost(net, r)))
    BY <1>2 DEF NewsTypeOK
  <2> DEFINE S == {p}
  <2>4. p \in S /\ (\A q \in S : q = p) /\ net' = net (+) SetToBag(S) /\ Counted(net)
    BY <1>1, <1>5
  <2> HIDE DEF S
  <2>2. CASE p.of = r
    <3>1. \A q \in S : q.of = r => q = p
      BY <2>4
    <3>2. /\ IsFiniteSet(Units(net', ToHost(net', r)))
          /\ Size(net', ToHost(net', r)) = Size(net, ToHost(net, r)) + 1
          /\ \A x : Size(net', With(net', r, x))
               = Size(net, With(net, r, x)) + (IF x \in Range(Cut(p.data)) THEN 1 ELSE 0)
      BY <2>1, <2>2, <2>4, <3>1, NetMore
    <3> QED BY <2>2, <3>2
  <2>3. CASE p.of # r
    <3>2. \A q \in S : q.of # r
      BY <2>3, <2>4
    <3>1. /\ Units(net', ToHost(net', r)) = Units(net, ToHost(net, r))
          /\ \A x : Units(net', With(net', r, x)) = Units(net, With(net, r, x))
      BY <2>4, <3>2, NetElse
    <3> QED BY <2>1, <2>3, <3>1 DEF Size
  <2> QED BY <2>2, <2>3
<1>9. NewsTypeOK'
  BY <1>1, <1>2, <1>4, <1>6, <1>7, <1>8 DEF NewsTypeOK
<1>10. ASSUME NEW h \in Receivers PROVE ReceiverOf(h)'
  <2>1. ReceiverOf(h) /\ extra[h] \in Nat /\ pos \in Nat /\ h \in Hosts
    BY <1>2, <1>5 DEF NewsTypeOK
  <2>2. /\ Size(net, ToHost(net, h)) \in Nat /\ Size(seen[h], DOMAIN seen[h]) \in Nat
        /\ \A x : Size(net, With(net, h, x)) \in Nat /\ Size(seen[h], Holding(seen[h], x)) \in Nat
    BY <1>2, PageNat
  <2>3. /\ Total(h)' = Size(seen[h], DOMAIN seen[h]) + Size(net', ToHost(net', h))
        /\ \A x : OnPage(h, x)' = Size(seen[h], Holding(seen[h], x)) + Size(net', With(net', h, x))
        /\ Total(h) = Size(seen[h], DOMAIN seen[h]) + Size(net, ToHost(net, h))
        /\ \A x : OnPage(h, x) = Size(seen[h], Holding(seen[h], x)) + Size(net, With(net, h, x))
    BY <1>1 DEF Total, OnPage
  <2>4. CASE p.of = h
    <3>1. /\ Total(h)' = Total(h) + 1 /\ Total(h) \in Nat /\ extra'[h] = extra[h] + 1
          /\ \A x : OnPage(h, x) \in Nat /\ OnPage(h, x)' \in {OnPage(h, x), OnPage(h, x) + 1}
      BY <1>6, <1>8, <2>1, <2>2, <2>3, <2>4
    <3>2. program = "bound_host2" => 2 * (Total(h)' - extra'[h]) <= pos
      <4>1. program = "bound_host2" => 2 * (Total(h) - extra[h]) <= pos
        BY <2>1 DEF ReceiverOf
      <4>2. Total(h)' - extra'[h] = Total(h) - extra[h]
        BY <2>1, <3>1
      <4> QED BY <4>1, <4>2
    <3>3. ASSUME NEW ch \in Chars PROVE OnPage(h, ch)' <= Sent(ch) + extra'[h]
      <4>1. OnPage(h, ch) <= Sent(ch) + extra[h] /\ Sent(ch) \in Nat
        BY <2>1, SentNat DEF ReceiverOf
      <4> QED BY <2>1, <3>1, <4>1
    <3>4. extra'[h] # 0 /\ extra'[h] > 0
      BY <2>1, <3>1
    <3> QED BY <1>1, <1>3, <1>4, <2>1, <3>2, <3>3, <3>4 DEF ReceiverOf
  <2>5. CASE p.of # h
    <3>1. Total(h)' = Total(h) /\ (\A x : OnPage(h, x)' = OnPage(h, x)) /\ extra'[h] = extra[h]
      BY <1>6, <1>8, <2>1, <2>3, <2>5
    <3> QED BY <1>1, <1>3, <1>4, <2>1, <3>1 DEF ReceiverOf
  <2> QED BY <2>4, <2>5
<1> QED BY <1>3, <1>9, <1>10 DEF NewsAll

(* What was under way and now is printed was on the page before.  That       *)
(* bound_host1 leaves after the third shows that all were sent, if none of   *)
(* the three intruded.                                                       *)
LEMMA NewsPrinted ==
  ASSUME NewsAll, NEW r \in Receivers, PrintNews(r), program' = program
  PROVE  NewsAll'
<1>1. /\ sender' = sender /\ early' = early /\ lost' = lost /\ extra' = extra /\ r \in joined
      /\ joined' = IF program = "bound_host2" /\ Size(seen'[r], DOMAIN seen'[r]) = 3
                   THEN joined \ {r} ELSE joined
  BY DEF PrintNews, Take, Size
<1>2. NewsTypeOK /\ Walk /\ \A h \in Receivers : ReceiverOf(h)
  BY DEF NewsAll
<1>3. PICK p \in DOMAIN net :
        /\ p.of = r /\ net' = net (-) SetToBag({p})
        /\ seen' = [seen EXCEPT ![r] = @ (+) SetToBag({Cut(p.data)})]
  BY DEF PrintNews, PrintText, Take
<1>4. Chars' = Chars /\ (\A ch : Sent(ch)' = Sent(ch)) /\ Walk'
  BY <1>1, <1>2, SenderKept
<1>5. file' = file /\ pos' = pos /\ last' = last /\ more' = more
  BY <1>1 DEF sender
<1>6. /\ Counted(net') /\ \A q \in DOMAIN net' : q.of \in Receivers /\ q.data \in Seq(Nat)
      /\ \A h \in Receivers :
           /\ IsFiniteSet(Units(net', ToHost(net', h)))
           /\ p.of = h =>
                /\ Size(net', ToHost(net', h)) = Size(net, ToHost(net, h)) - 1
                /\ \A x : Size(net', With(net', h, x))
                     = Size(net, With(net, h, x)) - (IF x \in Range(Cut(p.data)) THEN 1 ELSE 0)
           /\ p.of # h =>
                /\ Size(net', ToHost(net', h)) = Size(net, ToHost(net, h))
                /\ \A x : Size(net', With(net', h, x)) = Size(net, With(net, h, x))
  BY <1>2, <1>3, NewsTaken
<1>7. /\ DOMAIN seen = Receivers /\ DOMAIN seen' = Receivers
      /\ Counted(seen[r]) /\ IsFiniteSet(Units(seen[r], DOMAIN seen[r]))
      /\ seen'[r] = seen[r] (+) SetToBag({Cut(p.data)})
      /\ \A h \in Receivers : h # r => seen'[h] = seen[h]
  BY <1>2, <1>3 DEF NewsTypeOK
<1>8. /\ Counted(seen'[r]) /\ IsFiniteSet(Units(seen'[r], DOMAIN seen'[r]))
      /\ Size(seen'[r], DOMAIN seen'[r]) = Size(seen[r], DOMAIN seen[r]) + 1
      /\ \A x : Size(seen'[r], Holding(seen'[r], x))
                  = Size(seen[r], Holding(seen[r], x)) + (IF x \in Range(Cut(p.data)) THEN 1 ELSE 0)
  BY <1>7, PageMore
<1>9. NewsTypeOK'
  <2>1. joined' \subseteq Receivers
    BY <1>1, <1>2 DEF NewsTypeOK
  <2>2. \A h \in Receivers :
          /\ Counted(seen'[h]) /\ IsFiniteSet(Units(seen'[h], DOMAIN seen'[h]))
          /\ IsFiniteSet(Units(net', ToHost(net', h)))
    BY <1>2, <1>6, <1>7, <1>8 DEF NewsTypeOK
  <2> QED BY <1>1, <1>2, <1>5, <1>6, <1>7, <2>1, <2>2 DEF NewsTypeOK
<1>10. ASSUME NEW h \in Receivers
       PROVE  Total(h)' = Total(h) /\ \A x : OnPage(h, x)' = OnPage(h, x)
  <2>1. /\ Size(net, ToHost(net, h)) \in Nat /\ Size(seen[h], DOMAIN seen[h]) \in Nat
        /\ \A x : Size(net, With(net, h, x)) \in Nat /\ Size(seen[h], Holding(seen[h], x)) \in Nat
    BY <1>2, PageNat
  <2>2. /\ Total(h)' = Size(seen'[h], DOMAIN seen'[h]) + Size(net', ToHost(net', h))
        /\ \A x :
             OnPage(h, x)'
               = Size(seen'[h], Holding(seen'[h], x)) + Size(net', With(net', h, x))
        /\ Total(h) = Size(seen[h], DOMAIN seen[h]) + Size(net, ToHost(net, h))
        /\ \A x : OnPage(h, x) = Size(seen[h], Holding(seen[h], x)) + Size(net, With(net, h, x))
    BY DEF Total, OnPage
  <2>3. CASE h = r
    <3>1. Total(h)' = Total(h)
      <4>1. /\ Size(seen'[h], DOMAIN seen'[h]) = Size(seen[h], DOMAIN seen[h]) + 1
            /\ Size(net', ToHost(net', h)) = Size(net, ToHost(net, h)) - 1
        BY <1>3, <1>6, <1>8, <2>3
      <4> QED BY <4>1, <2>1, <2>2
    <3>2. ASSUME NEW x PROVE OnPage(h, x)' = OnPage(h, x)
      <4>1. /\ Size(seen'[h], Holding(seen'[h], x))
                 = Size(seen[h], Holding(seen[h], x)) + (IF x \in Range(Cut(p.data)) THEN 1 ELSE 0)
            /\ Size(net', With(net', h, x))
                 = Size(net, With(net, h, x)) - (IF x \in Range(Cut(p.data)) THEN 1 ELSE 0)
        BY ZenonT(30), <1>3, <1>6, <1>8, <2>3
      <4> QED BY <4>1, <2>1, <2>2
    <3> QED BY <3>1, <3>2
  <2>4. CASE h # r
    <3>1. seen'[h] = seen[h] /\ p.of # h
      BY <1>3, <1>7, <2>4
    <3>2. /\ Size(net', ToHost(net', h)) = Size(net, ToHost(net, h))
          /\ \A x : Size(net', With(net', h, x)) = Size(net, With(net, h, x))
      BY <1>6, <3>1
    <3> QED BY <2>2, <3>1, <3>2
  <2> QED BY <2>3, <2>4
<1>11. ASSUME NEW h \in Receivers PROVE ReceiverOf(h)'
  <2>1. ReceiverOf(h) /\ extra[h] \in Nat /\ pos \in 0..Len(file) /\ Len(file) \in Nat
    BY <1>2, NewsAssumption DEF NewsTypeOK
  <2>2. Total(h)' = Total(h) /\ \A x : OnPage(h, x)' = OnPage(h, x)
    BY <1>10
  <2>3. ASSUME h \in early, h \notin joined'
        PROVE  program = "bound_host2" /\ (extra[h] > 0 \/ pos = Len(file))
    <3>1. CASE h \notin joined
      BY <2>1, <2>3, <3>1 DEF ReceiverOf
    <3>2. CASE h \in joined
      <4>1. h = r /\ program = "bound_host2" /\ Size(seen'[r], DOMAIN seen'[r]) = 3
        BY <1>1, <2>3, <3>2
      <4>2. Total(r)' \in Nat /\ Size(net', ToHost(net', r)) \in Nat
        <5>1. Counted(net') /\ IsFiniteSet(Units(net', ToHost(net', r)))
          BY <1>6
        <5>2. Size(net', ToHost(net', r)) \in Nat
          BY <5>1, UnitsFewer
        <5> QED BY <1>2, <2>2, <4>1, <5>2, PageNat
      <4>3. Total(r)' = Size(seen'[r], DOMAIN seen'[r]) + Size(net', ToHost(net', r))
        BY DEF Total
      <4>4. 2 * (Total(r) - extra[r]) <= pos /\ Total(r) >= 3
        BY <2>1, <2>2, <4>1, <4>2, <4>3 DEF ReceiverOf
      <4>5. Len(file) = 6
        BY <1>2, <4>1 DEF NewsTypeOK
      <4> QED BY <2>1, <2>2, <4>1, <4>2, <4>4, <4>5
    <3> QED BY <3>1, <3>2
  <2> QED BY <1>1, <1>4, <1>5, <2>1, <2>2, <2>3 DEF ReceiverOf
<1> QED BY <1>4, <1>9, <1>11 DEF NewsAll

LEMMA PageStays ==
  ASSUME PageInv, page' = page, program' = program
  PROVE  PageInv'
<1>1. seen' = seen /\ str' = str /\ again' = again
  BY DEF page
<1> QED BY <1>1 DEF PageInv, PageOf, Shown, LeftOver

LEMMA PagePrinted ==
  ASSUME NewsAll, PageInv, NEW r \in Receivers, PrintNews(r), program' = program
  PROVE  PageInv'
<1>1. PICK p \in DOMAIN net : p.of = r /\ PrintText(r, Cut(p.data))
  BY DEF PrintNews
<1>2. PICK text : text = Cut(p.data)
  OBVIOUS
<1>3. text \in Seq(Nat) /\ Len(text) \in Nat /\ DOMAIN text = 1..Len(text)
  <2>1. p.data \in Seq(Nat)
    BY DEF NewsAll, NewsTypeOK
  <2>2. Cut(p.data) \in Seq(Nat)
    BY <2>1, DatagramAssumption DEF Cut, Least, Min
  <2> QED BY <1>2, <2>2
<1>4. /\ DOMAIN seen = Receivers /\ Counted(seen[r])
      /\ seen' = [seen EXCEPT ![r] = @ (+) SetToBag({text})]
  BY <1>1, <1>2 DEF PrintText, NewsAll, NewsTypeOK
<1>5. DOMAIN seen'[r] = DOMAIN seen[r] \cup {text}
  <2>1. seen'[r] = seen[r] (+) SetToBag({text})
    BY <1>4
  <2> QED BY <1>4, <2>1, BagSentAll
<1>6. \A h \in Receivers \ {r} : seen'[h] = seen[h]
  BY <1>4
<1>7. \A h \in Receivers : DOMAIN seen[h] \subseteq DOMAIN seen'[h]
  BY <1>5, <1>6
<1>8. /\ DOMAIN str = Receivers /\ DOMAIN again = Receivers
      /\ \A h \in Receivers : PageOf(h)
  BY DEF PageInv
<1>9. /\ \A h \in Receivers : \A j, x : Shown(h, j, x) => Shown(h, j, x)'
      /\ \A h \in Receivers : \A e : LeftOver(h, e) => LeftOver(h, e)'
  BY <1>7 DEF Shown, LeftOver
<1>10. CASE program # "news_sender_brd"
  <2>1. str' = str /\ again' = again
    BY <1>1, <1>10 DEF PrintText
  <2> QED BY <1>8, <1>9, <2>1 DEF PageInv, PageOf
<1>11. CASE program = "news_sender_brd"
  <2>1. /\ str' = [str EXCEPT ![r] = Overwritten(str[r], text)]
        /\ again' = [again EXCEPT ![r] = again[r] \cup Leftovers(str[r], text)]
    BY <1>1, <1>2, <1>11 DEF PrintText
  <2>2. ASSUME NEW h \in Receivers PROVE PageOf(h)'
    <3>1. CASE h # r
      <4>1. str'[h] = str[h] /\ again'[h] = again[h]
        BY <1>8, <2>1, <3>1
      <4> QED BY <1>8, <1>9, <4>1 DEF PageOf
    <3>2. CASE h = r
      <4>1. str'[r] = Overwritten(str[r], text) /\ again'[r] = again[r] \cup Leftovers(str[r], text)
        BY <1>8, <2>1
      <4>2. ASSUME NEW j \in 1..BUF_SIZE, NEW x, x = str'[r][j], x # NUL
            PROVE  Shown(r, j, x)'
        <5>1. x = IF j <= Len(text) THEN text[j]
                  ELSE IF j = Len(text) + 1 THEN NUL ELSE str[r][j]
          BY <4>1, <4>2 DEF Overwritten
        <5>2. CASE j <= Len(text)
          <6>1. j \in DOMAIN text /\ x = text[j] /\ text \in DOMAIN seen'[r]
            BY <1>3, <1>5, <5>1, <5>2
          <6> QED BY <1>11, <6>1 DEF Shown
        <5>3. CASE ~(j <= Len(text))
          <6>1. x = str[r][j]
            BY <4>2, <5>1, <5>3
          <6>2. Shown(r, j, x)
            BY <1>8, <4>2, <6>1 DEF PageOf
          <6> QED BY <1>9, <6>2
        <5> QED BY <5>2, <5>3
      <4>3. ASSUME NEW e \in again'[r] PROVE LeftOver(r, e)'
        <5>1. CASE e \in again[r]
          BY <1>8, <1>9, <5>1 DEF PageOf
        <5>2. CASE e \in Leftovers(str[r], text)
          <6>1. PICK j \in Len(text) + 2..BUF_SIZE :
                  str[r][j] # NUL /\ e = [len |-> Len(text), col |-> j, char |-> str[r][j]]
            BY <5>2 DEF Leftovers
          <6>2. j \in 1..BUF_SIZE /\ Len(text) + 1 < j
            BY <1>3, DatagramAssumption
          <6>3. Shown(r, j, str[r][j])
            BY <1>8, <6>1, <6>2 DEF PageOf
          <6>4. e.len = Len(text) /\ e.col = j /\ e.char = str[r][j]
            BY <6>1
          <6>5. LeftOver(r, e)
            BY <6>2, <6>3, <6>4 DEF Shown, LeftOver
          <6> QED BY <1>9, <6>5
        <5> QED BY <4>1, <5>1, <5>2
      <4>4. \A j \in 1..BUF_SIZE : str'[r][j] # NUL => Shown(r, j, str[r][j])'
        BY <4>2 DEF Shown
      <4> QED BY <3>2, <4>3, <4>4 DEF PageOf
    <3> QED BY <3>1, <3>2
  <2> QED BY <1>8, <2>1, <2>2 DEF PageInv
<1> QED BY <1>10, <1>11

LEMMA PageStep ==
  ASSUME NewsAll, PageInv, [Next]_<<program, network, echo, news>>,
         program' = program, program \in NewsPrograms
  PROVE  PageInv'
<1>1. CASE Next
  <2>1. NewsNext
    BY <1>1 DEF Next, EchoPrograms, NewsPrograms
  <2>2. CASE \E r \in Receivers : PrintNews(r)
    BY <2>2, PagePrinted
  <2>3. CASE ~\E r \in Receivers : PrintNews(r)
    <3>1. page' = page
      BY <2>1, <2>3 DEF NewsNext, SendChunk, SendWhole, SendEnd, SendToAll, Bind, news
    <3> QED BY <3>1, PageStays
  <2> QED BY <2>2, <2>3
<1>2. CASE UNCHANGED <<program, network, echo, news>>
  BY <1>2, PageStays DEF news
<1> QED BY <1>1, <1>2

LEMMA NewsStarts ==
  ASSUME program \in NewsPrograms, DatagramInit, NewsInit
  PROVE  NewsAll
<1>1. /\ pos = 0 /\ last = <<>> /\ more = TRUE /\ joined = {} /\ early = {}
      /\ seen = [r \in Receivers |-> EmptyBag]
      /\ net = EmptyBag /\ lost = {} /\ extra = [h \in Hosts |-> 0]
  BY DEF NewsInit, PageInit, DatagramInit
<1>2. /\ file \in Seq(Nat) /\ file # <<>> /\ \A ch \in DOMAIN file : file[ch] \in {ch, NL}
      /\ program = "bound_host2" => file = <<1, NL, 3, NL, 5, NL>>
  <2>1. CASE program = "bound_host2"
    <3>1. file = <<1, NL, 3, NL, 5, NL>>
      BY <2>1 DEF NewsInit
    <3>2. file \in Seq(Nat) /\ file # <<>> /\ \A ch \in DOMAIN file : file[ch] \in {ch, NL}
      BY <3>1 DEF NL
    <3> QED BY <3>1, <3>2
  <2>2. CASE program # "bound_host2"
    BY <2>2, NewsAssumption DEF NewsInit
  <2> QED BY <2>1, <2>2
<1>3. Len(file) \in Nat \ {0}
  BY <1>2
<1>4. /\ Counted(EmptyBag) /\ DOMAIN EmptyBag = {}
      /\ \A D : Units(EmptyBag, D) = {} /\ IsFiniteSet(Units(EmptyBag, D)) /\ Size(EmptyBag, D) = 0
  <2>1. DOMAIN EmptyBag = {}
    BY DEF EmptyBag, SetToBag
  <2>2. \A D : Units(EmptyBag, D) = {}
    BY <2>1 DEF Units
  <2> QED BY <2>1, <2>2, FS_EmptySet DEF Counted, Size
<1>5. NewsTypeOK
  <2>1. extra \in [Hosts -> Nat]
    BY <1>1
  <2>2. /\ DOMAIN seen = Receivers /\ \A r \in Receivers : seen[r] = EmptyBag
    BY <1>1
  <2>3. last \in Seq(Nat) /\ pos \in 0..Len(file)
    BY <1>1, <1>3
  <2> QED BY <1>1, <1>2, <1>4, <2>1, <2>2, <2>3 DEF NewsTypeOK
<1>6. Walk
  <2>1. LineStart(file, 0) = 0
    <3>1. 0 \in 0..Len(file) /\ 0 \in 0..0
      BY <1>3
    <3> QED BY <1>2, <3>1, LineStartIs
  <2>2. 0 = LineStart(file, 0) + 0 * Chunk
    <3>1. Chunk \in Int
      BY DatagramAssumption DEF Chunk
    <3> QED BY <2>1, <3>1
  <2>3. pos < Len(file)
    BY <1>1, <1>3
  <2>4. \E k \in Nat : pos = LineStart(file, pos) + k * Chunk
    BY <1>1, <2>2
  <2> QED BY <1>1, <2>3, <2>4 DEF Walk
<1>7. ASSUME NEW r \in Receivers PROVE ReceiverOf(r)
  <2>1. extra[r] = 0 /\ seen[r] = EmptyBag
    BY <1>1, NewsAssumption
  <2>2. Total(r) = 0 /\ \A x : OnPage(r, x) = 0
    BY <1>1, <1>4, <2>1 DEF Total, OnPage
  <2>3. \A ch \in Chars : Sent(ch) = 0
    <3>1. \A ch \in Chars : ch \in 1..Len(file)
      BY <1>2 DEF Chars
    <3> QED BY <1>1, <1>3, <3>1 DEF Sent
  <2> QED BY <1>1, <2>1, <2>2, <2>3 DEF ReceiverOf
<1> QED BY <1>5, <1>6, <1>7 DEF NewsAll

LEMMA NewsStep ==
  ASSUME NewsInv, [Next]_<<program, network, echo, news>>
  PROVE  NewsInv'
<1>1. SUFFICES ASSUME program' \in NewsPrograms PROVE NewsAll' /\ PageInv'
  BY DEF NewsInv
<1>2. program' = program
  BY DEF Next
<1>3. NewsAll /\ PageInv
  BY <1>1, <1>2 DEF NewsInv
<1>6. PageInv'
  BY <1>1, <1>2, <1>3, PageStep
<1>4. CASE Next
  <2>1. program \in EchoPrograms => FALSE
    BY <1>1, <1>2 DEF EchoPrograms, NewsPrograms
  <2>2. NewsNext
    BY <1>4, <2>1 DEF Next
  <2>3. ASSUME NEW r \in Receivers, Bind(r) \/ PrintNews(r) PROVE NewsAll'
    BY <1>2, <1>3, <2>3, NewsBind, NewsPrinted
  <2>4. ASSUME Trouble, UNCHANGED news PROVE NewsAll'
    <3>1. PICK p \in DOMAIN net : Lose(p) \/ Intrude(p)
      BY <2>4 DEF Trouble
    <3> QED BY <1>2, <1>3, <2>4, <3>1, NewsLose, NewsIntrude
  <2>5. ASSUME SendChunk \/ SendWhole \/ SendEnd PROVE NewsAll'
    BY <1>2, <1>3, <2>5, NewsSenderStep, NewsSendEnd
  <2> QED BY <1>6, <2>2, <2>3, <2>4, <2>5 DEF NewsNext
<1>5. CASE UNCHANGED <<program, network, echo, news>>
  <2>1. /\ sender' = sender /\ joined' = joined /\ seen' = seen /\ early' = early
        /\ net' = net /\ lost' = lost /\ extra' = extra
    BY <1>5 DEF network, news, page
  <2>2. NewsTypeOK /\ Walk /\ \A r \in Receivers : ReceiverOf(r)
    BY <1>3 DEF NewsAll
  <2>3. Chars' = Chars /\ (\A ch : Sent(ch)' = Sent(ch)) /\ Walk'
    BY <1>2, <2>1, <2>2, SenderKept
  <2>4. file' = file /\ pos' = pos /\ last' = last /\ more' = more
    BY <2>1 DEF sender
  <2>5. NewsTypeOK'
    BY <1>2, <2>1, <2>2, <2>4 DEF NewsTypeOK
  <2>6. \A r \in Receivers : ReceiverOf(r)'
    BY <1>2, <2>1, <2>2, <2>3, <2>4 DEF ReceiverOf, Total, OnPage
  <2> QED BY <1>6, <2>3, <2>5, <2>6 DEF NewsAll
<1> QED BY <1>4, <1>5, <1>6

(* What is on the page is what was printed once nothing is under way.        *)
LEMMA NewsInvWhole ==
  ASSUME NewsInv
  PROVE  NewsWhole
<1>1. SUFFICES ASSUME program \in NewsPrograms, NEW r \in Receivers, NEW ch \in DOMAIN file,
                      file[ch] # NL
               PROVE  /\ Printed(r, file[ch]) <= Copies(ch) + extra[r]
                      /\ ~more /\ r \in early \ lost /\ extra[r] = 0 /\ ~OnItsWay(r)
                           => Printed(r, file[ch]) = Copies(ch)
  <2>1. ASSUME program \in NewsPrograms, NEW r \in Receivers, NEW e \in again[r]
        PROVE  LeftOver(r, e)
    BY <2>1 DEF NewsInv, PageInv, PageOf
  <2> QED BY <2>1 DEF NewsWhole
<1>2. NewsTypeOK /\ Walk /\ ReceiverOf(r)
  BY <1>1 DEF NewsInv, NewsAll
<1>3. ch \in Chars /\ file[ch] = ch /\ ch \in 1..Len(file)
  BY <1>1, <1>2 DEF NewsTypeOK, Chars
<1>4. Printed(r, file[ch]) = Size(seen[r], Holding(seen[r], ch))
  BY <1>3 DEF Printed, Size, Holding
<1>5. /\ OnPage(r, ch) <= Sent(ch) + extra[r]
      /\ r \in early \ lost /\ extra[r] = 0 => OnPage(r, ch) = Sent(ch)
      /\ OnPage(r, ch) = Size(seen[r], Holding(seen[r], ch)) + Size(net, With(net, r, ch))
      /\ extra[r] \in Nat
  BY <1>2, <1>3, NewsAssumption DEF ReceiverOf, OnPage, NewsTypeOK
<1>6. /\ Size(net, With(net, r, ch)) \in Nat /\ Size(seen[r], Holding(seen[r], ch)) \in Nat
      /\ ToHost(net, r) = {} => Size(net, With(net, r, ch)) = 0
  BY <1>2, PageNat
<1>7. Sent(ch) \in 0..Copies(ch) /\ Copies(ch) \in Nat
  <2>1. Copies(ch) \in Nat
    BY SentNat
  <2>2. program = "news_sender" => Copies(ch) \in {1, 2}
    BY CopiesOf
  <2> QED BY <2>1, <2>2 DEF Sent
<1>8. ~more => Sent(ch) = Copies(ch)
  <2>1. ~more => pos = Len(file)
    BY <1>2 DEF Walk
  <2> QED BY <1>2, <1>3, <2>1 DEF Sent, NewsTypeOK
<1>9. ~OnItsWay(r) => ToHost(net, r) = {}
  BY DEF OnItsWay, ToHost
<1>10. Printed(r, file[ch]) <= Copies(ch) + extra[r]
  BY <1>4, <1>5, <1>6, <1>7
<1>11. ~more /\ r \in early \ lost /\ extra[r] = 0 /\ ~OnItsWay(r)
         => Printed(r, file[ch]) = Copies(ch)
  BY <1>4, <1>5, <1>6, <1>8, <1>9
<1> QED BY <1>10, <1>11

(* news_sender, news_sender_brd and bound_host2, for every text, buffer and  *)
(* set of receivers: a receiver that ran from the start and missed nothing   *)
(* has printed every character as often as the sender's buffer makes it be   *)
(* sent, once all arrived, and no receiver prints one more often than that,  *)
(* other than by datagrams that came again, and, in news_receiver_brd, left  *)
(* over behind the NUL of a text that is shorter than one printed before.    *)
THEOREM NewsIsWhole == Spec => []NewsWhole
<1>1. Init => NewsInv
  <2>1. ASSUME Init, program \in NewsPrograms PROVE PageInv
    BY <2>1, DatagramAssumption DEF Init, NewsInit, PageInit, PageInv, PageOf
  <2> QED BY <2>1, NewsStarts DEF Init, NewsInv
<1>2. NewsInv /\ [Next]_<<program, network, echo, news>> => NewsInv'
  BY NewsStep
<1>3. NewsInv => NewsWhole
  BY NewsInvWhole
<1> QED BY <1>1, <1>2, <1>3, PTL DEF Spec
=============================================================================

------------------------- MODULE AddCounter_proofs -------------------------
(* lab2_add under --sync=m, s or c implements the atomic counter, for every  *)
(* number of threads and iterations; its final counter is 0.  Without a lock  *)
(* the counter stays within the additions and subtractions made.             *)
EXTENDS AddCounter, FiniteSetTheorems, TLAPS

\* The results about the atomic counter, under the refinement mapping.
AtomicResults == INSTANCE AtomicCounter_proofs
                   WITH done <- [t \in Threads |-> Done(t)]

\* The lock-protected labels lie inside the loops; a returned thread has
\* finished the second loop.
LoopsInOrder == \A t \in Threads :
  /\ pc[t] \in {"read", "write", "unlock"} => i[t] < IterNum
  /\ pc[t] = "unlock" => Locking
  /\ pc[t] = "returned" => i[t] = IterNum /\ value[t] = -1

\* Under a lock the value a thread has read is still the counter's.
ReadIsFresh == Locking => \A t \in Threads : pc[t] = "write" => old[t] = counter

\* main has created exactly the threads below created, and the threads below
\* joined have returned.
MainInOrder == /\ \A t \in Threads : pc[t] = "unborn" <=> t >= created
               /\ \A t \in Threads : t < joined => pc[t] = "returned"
               /\ status = "exit0" => joined = ThreadNum

IInv == TypeOK /\ MutualExclusion /\ LoopsInOrder /\ ReadIsFresh /\ MainInOrder

\* The initial state satisfies the inductive invariant.
LEMMA InitIInv == Init => IInv
<1> SUFFICES ASSUME Init PROVE IInv
  OBVIOUS
<1> USE CounterAssumption DEF Init
<1>1. TypeOK
  BY DEF TypeOK, Labels
<1>2. MutualExclusion
  BY DEF MutualExclusion, Holds
<1>3. LoopsInOrder /\ ReadIsFresh
  BY DEF LoopsInOrder, ReadIsFresh
<1>4. MainInOrder
  BY DEF MainInOrder, Threads
<1> QED  BY <1>1, <1>2, <1>3, <1>4 DEF IInv

\* A step of a thread keeps the invariant: only the holder of the lock writes.
LEMMA ThreadKeepsIInv ==
  ASSUME IInv, NEW t \in Threads, ThreadStep(t)
  PROVE  IInv'
<1> USE CounterAssumption DEF IInv, ThreadStep, Locking
<1>1. TypeOK'
  <2> USE DEF TypeOK, GoTo, Labels, AtIteration
  <2>1. CASE Lock(t) \/ Read(t)
    BY <2>1 DEF Lock, Read
  <2>2. CASE Write(t)
    BY <2>2 DEF Write, LoopsInOrder
  <2>3. CASE CompareAndSwap(t)
    BY <2>3 DEF CompareAndSwap, LoopsInOrder
  <2>4. CASE Unlock(t)
    BY <2>4 DEF Unlock, LoopsInOrder
  <2>5. CASE SecondLoop(t) \/ Return(t)
    BY <2>5 DEF SecondLoop, Return
  <2> QED  BY <2>1, <2>2, <2>3, <2>4, <2>5
<1>2. \A s \in Threads \ {t} : pc'[s] = pc[s] /\ i'[s] = i[s]
                               /\ value'[s] = value[s] /\ old'[s] = old[s]
  BY DEF TypeOK, Lock, Read, Write, CompareAndSwap, Unlock, SecondLoop, Return, GoTo
<1>3. pc[t] \notin {"unborn", "returned"} /\ pc'[t] # "unborn"
  BY DEF TypeOK, Lock, Read, Write, CompareAndSwap, Unlock, SecondLoop, Return,
         AtIteration, GoTo
<1>4. LoopsInOrder'
  <2>1. \/ Lock(t) \/ Read(t) \/ Write(t) \/ CompareAndSwap(t)
        \/ Unlock(t) \/ SecondLoop(t) \/ Return(t)
    OBVIOUS
  <2>2. LoopsInOrder /\ TypeOK
    OBVIOUS
  <2>3. (pc'[t] \in {"read", "write", "unlock"} => i'[t] < IterNum)
    BY <2>1, <2>2 DEF LoopsInOrder, TypeOK, Lock, Read, Write, CompareAndSwap,
          Unlock, SecondLoop, Return, AtIteration, GoTo
  <2>4. pc'[t] = "unlock" => Locking
    BY <2>1, <2>2 DEF LoopsInOrder, TypeOK, Lock, Read, Write, CompareAndSwap,
          Unlock, SecondLoop, Return, AtIteration, GoTo
  <2>5. pc'[t] = "returned" => i'[t] = IterNum /\ value'[t] = -1
    BY <2>1, <2>2 DEF LoopsInOrder, TypeOK, Lock, Read, Write, CompareAndSwap,
          Unlock, SecondLoop, Return, AtIteration, GoTo
  <2> QED  BY <1>2, <2>2, <2>3, <2>4, <2>5 DEF LoopsInOrder
<1>5. MutualExclusion'
  <2>1. CASE Lock(t)
    BY <2>1, <1>2 DEF MutualExclusion, Holds, Lock, AtIteration, GoTo, TypeOK, Locking
  <2>2. CASE Unlock(t)
    <3>1. Holds(t)
      BY <2>2 DEF Unlock, Holds, LoopsInOrder
    <3>2. \A s \in Threads : ~Holds(s)'
      BY <3>1, <2>2, <1>2 DEF MutualExclusion, Holds, Unlock, GoTo, TypeOK, Locking
    <3> QED  BY <3>2, <2>2 DEF MutualExclusion, Unlock
  <2>3. CASE Read(t) \/ Write(t) \/ CompareAndSwap(t) \/ SecondLoop(t) \/ Return(t)
    <3>1. Holds(t)' <=> Holds(t)
      BY <2>3 DEF Holds, Locking, Read, Write, CompareAndSwap, SecondLoop, Return,
                  GoTo, TypeOK, AtIteration
    <3>2. \A s \in Threads : Holds(s)' <=> Holds(s)
      BY <3>1, <1>2 DEF Holds, Locking
    <3>3. lock' = lock
      BY <2>3 DEF Read, Write, CompareAndSwap, SecondLoop, Return
    <3> QED  BY <3>2, <3>3 DEF MutualExclusion
  <2> QED  BY <2>1, <2>2, <2>3
<1>6. ReadIsFresh'
  <2> SUFFICES ASSUME Locking, NEW s \in Threads, pc'[s] = "write"
               PROVE  old'[s] = counter'
    BY DEF ReadIsFresh, Locking
  <2>1. CASE Read(t)
    BY <2>1, <1>2 DEF Read, ReadIsFresh, GoTo, TypeOK
  <2>2. CASE Write(t)
    <3>1. Holds(t)
      BY <2>2 DEF Holds, Write
    <3>2. s # t
      BY <2>2 DEF Write, GoTo, TypeOK
    <3>3. Holds(s)
      BY <3>2, <1>2 DEF Holds
    <3> QED  BY <3>1, <3>2, <3>3 DEF MutualExclusion
  <2>3. CASE Lock(t) \/ CompareAndSwap(t) \/ Unlock(t) \/ SecondLoop(t) \/ Return(t)
    <3>1. s # t
      BY <2>3 DEF Lock, CompareAndSwap, Unlock, SecondLoop, Return, GoTo, TypeOK
    <3>2. counter' = counter
      BY <2>3 DEF Lock, CompareAndSwap, Unlock, SecondLoop, Return, Locking
    <3> QED  BY <3>1, <3>2, <1>2 DEF ReadIsFresh
  <2> QED  BY <2>1, <2>2, <2>3
<1>7. MainInOrder'
  BY <1>2, <1>3 DEF MainInOrder
<1> QED  BY <1>1, <1>4, <1>5, <1>6, <1>7

\* A step of main keeps it: a new thread starts outside the lock.
LEMMA MainKeepsIInv ==
  ASSUME IInv, MainStep
  PROVE  IInv'
<1> USE CounterAssumption DEF IInv, Locking
<1>1. CASE Create
  <2>1. created \in Threads /\ pc[created] = "unborn"
    BY <1>1 DEF Create, TypeOK, MainInOrder, Threads
  <2>2. \A s \in Threads : pc'[s] = IF s = created THEN "loop" ELSE pc[s]
    BY <1>1 DEF Create, TypeOK
  <2>3. TypeOK'
    BY <1>1, <2>1 DEF Create, TypeOK, Labels, Threads
  <2>4. \A s \in Threads : Holds(s)' <=> Holds(s)
    BY <1>1, <2>1, <2>2 DEF Holds, Create
  <2>5. MutualExclusion'
    BY <1>1, <2>4 DEF MutualExclusion, Create
  <2>6. LoopsInOrder' /\ ReadIsFresh'
    BY <1>1, <2>2 DEF LoopsInOrder, ReadIsFresh, Create
  <2>7. MainInOrder'
    BY <1>1, <2>1, <2>2 DEF MainInOrder, Create, TypeOK, Threads
  <2> QED  BY <2>3, <2>5, <2>6, <2>7
<1>2. CASE CreateFails \/ Report
  BY <1>2 DEF CreateFails, Report, threadVars, TypeOK, MutualExclusion, Holds,
              LoopsInOrder, ReadIsFresh, MainInOrder
<1>3. CASE Join
  <2>1. TypeOK' /\ MutualExclusion' /\ LoopsInOrder' /\ ReadIsFresh'
    BY <1>3 DEF Join, threadVars, TypeOK, MutualExclusion, Holds, LoopsInOrder,
                ReadIsFresh
  <2>2. MainInOrder'
    BY <1>3 DEF Join, threadVars, MainInOrder, TypeOK, Threads
  <2> QED  BY <2>1, <2>2
<1> QED  BY <1>1, <1>2, <1>3 DEF MainStep

\* Every step keeps it.
LEMMA NextIInv == IInv /\ [Next]_vars => IInv'
<1> SUFFICES ASSUME IInv, [Next]_vars PROVE IInv'
  OBVIOUS
<1>1. CASE UNCHANGED vars
  BY <1>1 DEF vars, threadVars, IInv, TypeOK, MutualExclusion, Holds, Locking,
              LoopsInOrder, ReadIsFresh, MainInOrder
<1> QED
  BY <1>1, ThreadKeepsIInv, MainKeepsIInv DEF Next, Terminated

\* The inductive invariant holds in every reachable state.
LEMMA SpecIInv == Spec => []IInv
  BY InitIInv, NextIInv, PTL DEF Spec

\* Every variable of lab2_add.c keeps its type.
THEOREM AddTypeCorrect == Spec => []TypeOK
  BY SpecIInv, PTL DEF IInv

\* lab2_add.c:81-89: the mutex and the spin lock exclude, whatever the number
\* of threads.
THEOREM AddMutualExclusion == Spec => []MutualExclusion
  BY SpecIInv, PTL DEF IInv
-----------------------------------------------------------------------------
(* Refinement.                                                               *)

\* Initially no add has taken effect.
LEMMA InitRefines == Init => Atomic!Init
  BY CounterAssumption DEF Init, Atomic!Init, Done, Threads, Atomic!Threads

\* A step of a thread is an add when it writes the counter, else a stutter.
LEMMA ThreadRefines ==
  ASSUME opt_sync # "none", IInv, NEW t \in Threads, ThreadStep(t)
  PROVE  Atomic!Next \/ UNCHANGED Atomic!vars
<1> USE CounterAssumption DEF IInv, ThreadStep
<1>1. Done(t) \in Int
  BY DEF TypeOK, Done
<1>2. ASSUME NEW s \in Threads \ {t}
      PROVE  Done(s)' = Done(s)
  BY <1>2 DEF TypeOK, Done, Lock, Read, Write, CompareAndSwap, Unlock, SecondLoop,
         Return, GoTo
<1>3. CASE \/ Lock(t) \/ Read(t) \/ Unlock(t) \/ SecondLoop(t) \/ Return(t)
           \/ (CompareAndSwap(t) /\ counter # old[t])
  <2>1. counter' = counter
    BY <1>3 DEF Lock, Read, Unlock, SecondLoop, Return, CompareAndSwap
  <2>2. Done(t)' = Done(t)
    BY <1>3 DEF TypeOK, Done, Lock, Read, Unlock, SecondLoop, Return,
                CompareAndSwap, GoTo, AtIteration
  <2> QED  BY <2>1, <2>2, <1>2 DEF Atomic!vars
<1>4. CASE Write(t) \/ (CompareAndSwap(t) /\ counter = old[t])
  <2>1. /\ pc[t] = "write"
        /\ i[t] < IterNum
    BY <1>4 DEF Write, CompareAndSwap, LoopsInOrder
  <2>2. counter = old[t]
    BY <1>4, <2>1 DEF ReadIsFresh, Write, Locking, TypeOK
  <2>3. counter' = counter + value[t]
    BY <1>4, <2>2 DEF Write, CompareAndSwap
  <2>4. Done(t)' = Done(t) + 1
    BY <1>4, <2>1 DEF TypeOK, Done, Write, CompareAndSwap, GoTo
  <2>5. Done(t) < 2 * IterNum
    BY <2>1 DEF TypeOK, Done
  <2>6. value[t] = IF Done(t) < IterNum THEN 1 ELSE -1
    BY <2>1 DEF TypeOK, Done
  <2>7. [s \in Threads |-> Done(s)]' = [[s \in Threads |-> Done(s)] EXCEPT ![t] = @ + 1]
    BY <1>2, <2>4
  <2>8. Atomic!Add(t)
    BY <2>3, <2>5, <2>6, <2>7 DEF Atomic!Add, Atomic!NextValue
  <2> QED  BY <2>8 DEF Atomic!Next, Atomic!Threads, Threads
<1> QED  BY <1>3, <1>4

\* Every other step stutters.
LEMMA NextRefines ==
  IInv /\ [Next]_vars => [opt_sync # "none" => Atomic!Next]_(Atomic!vars)
<1> SUFFICES ASSUME opt_sync # "none", IInv, [Next]_vars
             PROVE  [Atomic!Next]_(Atomic!vars)
  OBVIOUS
<1>1. CASE UNCHANGED vars
  BY <1>1 DEF vars, threadVars, Atomic!vars, Done
<1>2. CASE MainStep
  <2>1. counter' = counter
    BY <1>2 DEF MainStep, Create, CreateFails, Join, Report, threadVars
  <2>2. ASSUME NEW s \in Threads PROVE Done(s)' = Done(s)
    BY <1>2 DEF MainStep, Create, CreateFails, Join, Report, threadVars, Done,
                IInv, MainInOrder, TypeOK
  <2> QED  BY <2>1, <2>2 DEF Atomic!vars
<1> QED  BY <1>1, <1>2, ThreadRefines DEF Next, Terminated

\* Under --sync=m, s or c the program implements indivisible additions.
THEOREM AddImplementsAtomicCounter == Spec => ImplementsAtomicCounter
  BY NextRefines, InitRefines, SpecIInv, PTL DEF Spec, ImplementsAtomicCounter

\* The option never changes.
LEMMA OptionIsConstant == [Next]_vars => opt_sync' = opt_sync
  BY DEF Next, vars, ThreadStep, MainStep, Create, CreateFails, Join, Report,
         Terminated

\* Under --sync=m, s or c the counter is the tally of the additions done.
Tally == opt_sync # "none" => AtomicResults!TypeOK /\ AtomicResults!CounterIsTally

\* With an option the steps of the program keep the tally.
LEMMA SpecTally == Spec => []Tally
<1>1. Init => Tally
  BY InitRefines, AtomicResults!InitTally, CounterAssumption
  DEF Tally, Atomic!Init, AtomicResults!Init, Atomic!Threads, AtomicResults!Threads,
      AtomicResults!CounterAssumption
<1>2. IInv /\ Tally /\ [Next]_vars => Tally'
  <2> SUFFICES ASSUME IInv, AtomicResults!TypeOK, AtomicResults!CounterIsTally,
                      opt_sync # "none", [Next]_vars
               PROVE  AtomicResults!TypeOK' /\ AtomicResults!CounterIsTally'
    BY OptionIsConstant DEF Tally
  <2>1. [Atomic!Next]_(Atomic!vars)
    BY NextRefines
  <2>2. [AtomicResults!Next]_(AtomicResults!vars)
    BY <2>1
    DEF Atomic!Next, AtomicResults!Next, Atomic!vars, AtomicResults!vars,
        Atomic!Add, AtomicResults!Add, Atomic!NextValue, AtomicResults!NextValue,
        Atomic!Threads, AtomicResults!Threads
  <2> QED  BY <2>2, AtomicResults!TypeStep, AtomicResults!TallyStep, CounterAssumption
           DEF AtomicResults!CounterAssumption
<1> QED  BY <1>1, <1>2, SpecIInv, PTL DEF Spec

\* Under --sync=m, s or c the counter that main prints is 0.
THEOREM AddFinalCounterZero == Spec => []FinalCounterZero
<1>1. IInv /\ Tally => FinalCounterZero
  <2> SUFFICES ASSUME IInv, AtomicResults!CounterIsTally, status = "exit0"
               PROVE  counter = 0
    BY DEF FinalCounterZero, Tally
  <2>1. \A t \in Threads : Done(t) = 2 * IterNum
    BY CounterAssumption DEF IInv, MainInOrder, LoopsInOrder, TypeOK, Threads, Done
  <2>2. \A t \in AtomicResults!Threads :
            [s \in Threads |-> Done(s)][t] = 2 * IterNum
    BY <2>1 DEF AtomicResults!Threads, Threads
  <2> QED  BY <2>2, AtomicResults!AllDoneMeansZero, CounterAssumption
           DEF AtomicResults!CounterAssumption
<1> QED  BY <1>1, SpecIInv, SpecTally, PTL

-----------------------------------------------------------------------------
(* Without a lock.                                                           *)

\* A sum about to be written was read from a counter that kept the bounds, and the
\* bounds only grow.
Increments == Atomic!Increments
Decrements == Atomic!Decrements
Up == Cardinality(Increments)
Down == Cardinality(Decrements)
LossInv == /\ LossIsBounded
           /\ \A t \in Threads : pc[t] = "write" => old[t] <= Up /\ -old[t] <= Down

LEMMA BoundsAreFinite == /\ IsFiniteSet(Increments) /\ IsFiniteSet(Decrements)
                         /\ Up \in Nat /\ Down \in Nat
<1>1. IsFiniteSet(Threads) /\ IsFiniteSet(1..IterNum)
  BY FS_Interval, CounterAssumption DEF Threads
<1>2. IsFiniteSet(Threads \X (1..IterNum))
  BY <1>1, FS_Product
<1>3. /\ Increments \in SUBSET (Threads \X (1..IterNum))
      /\ Decrements \in SUBSET (Threads \X (1..IterNum))
  BY DEF Increments, Decrements, Atomic!Increments, Atomic!Decrements, Atomic!Threads, Threads
<1>4. IsFiniteSet(Increments) /\ IsFiniteSet(Decrements)
  BY <1>2, <1>3, FS_Subset
<1> QED  BY <1>4, FS_CardinalityType DEF Up, Down

\* Where no add takes effect the bounds stay.
LEMMA SameBounds ==
  ASSUME \A t \in Threads : Done(t)' = Done(t)
  PROVE  UNCHANGED <<Up, Down>>
<1>1. [t \in Threads |-> Done(t)]' = [t \in Threads |-> Done(t)]
  OBVIOUS
<1> QED  BY <1>1 DEF Up, Down, Increments, Decrements, Atomic!Increments, Atomic!Decrements, Atomic!Threads

\* A write of t, with or without a lock, is one more add of t.
LEMMA WriteMovesBounds ==
  ASSUME IInv, NEW t \in Threads, ThreadStep(t),
         Write(t) \/ (CompareAndSwap(t) /\ counter = old[t])
  PROVE  /\ Up' = IF value[t] = 1 THEN Up + 1 ELSE Up
         /\ Down' = IF value[t] = 1 THEN Down ELSE Down + 1
<1> USE CounterAssumption DEF IInv
<1>1. /\ pc[t] = "write"
      /\ i[t] < IterNum
  BY DEF Write, CompareAndSwap, LoopsInOrder
<1>2. /\ Done(t)' = Done(t) + 1 /\ Done(t) < 2 * IterNum
      /\ value[t] = 1 <=> Done(t) < IterNum
  BY <1>1 DEF TypeOK, Done, Write, CompareAndSwap, GoTo
<1>3. \A s \in Threads : Done(s) \in 0..(2 * IterNum)
  BY DEF TypeOK, LoopsInOrder, Done
<1>4. ASSUME NEW s \in Threads \ {t} PROVE Done(s)' = Done(s)
  BY <1>4 DEF TypeOK, Done, Write, CompareAndSwap, GoTo
<1> DEFINE d == [s \in Threads |-> Done(s)]
<1>5. /\ d \in [Threads -> 0..(2 * IterNum)] /\ d[t] = Done(t)
      /\ d' = [d EXCEPT ![t] = @ + 1]
  BY <1>2, <1>3, <1>4
<1> HIDE DEF d
<1>6. /\ AtomicResults!CounterAssumption
      /\ AtomicResults!Threads = Threads
  BY DEF AtomicResults!CounterAssumption, AtomicResults!Threads, Threads
<1>7. Increments = AtomicResults!Increments /\ Decrements = AtomicResults!Decrements
  BY DEF Increments, Decrements, Atomic!Increments, Atomic!Decrements, Atomic!Threads,
         AtomicResults!Increments, AtomicResults!Decrements, AtomicResults!Threads
<1>8. Increments' = AtomicResults!Increments' /\ Decrements' = AtomicResults!Decrements'
  BY DEF Increments, Decrements, Atomic!Increments, Atomic!Decrements, Atomic!Threads,
         AtomicResults!Increments, AtomicResults!Decrements, AtomicResults!Threads
<1>9. \/ /\ d[t] < IterNum
         /\ \E a : a \notin Increments /\ Increments' = Increments \cup {a}
         /\ Decrements' = Decrements
      \/ /\ d[t] >= IterNum
         /\ \E a : a \notin Decrements /\ Decrements' = Decrements \cup {a}
         /\ Increments' = Increments
  BY <1>2, <1>5, <1>6, <1>7, <1>8, AtomicResults!OneMoreAdd DEF d
<1>10. CASE value[t] = 1
  <2>1. PICK a : a \notin Increments /\ Increments' = Increments \cup {a}
    BY <1>2, <1>5, <1>9, <1>10
  <2>2. Cardinality(Increments') = Cardinality(Increments) + 1
    BY <2>1, BoundsAreFinite, FS_AddElement
  <2> QED  BY <1>2, <1>5, <1>9, <1>10, <2>2 DEF Up, Down
<1>11. CASE value[t] # 1
  <2>1. PICK a : a \notin Decrements /\ Decrements' = Decrements \cup {a}
    BY <1>2, <1>5, <1>9, <1>11
  <2>2. Cardinality(Decrements') = Cardinality(Decrements) + 1
    BY <2>1, BoundsAreFinite, FS_AddElement
  <2> QED  BY <1>2, <1>5, <1>9, <1>11, <2>2 DEF Up, Down
<1> QED  BY <1>10, <1>11

LEMMA NextLossInv == IInv /\ LossInv /\ [Next]_vars => LossInv'
<1> SUFFICES ASSUME IInv, LossInv, [Next]_vars PROVE LossInv'
  OBVIOUS
<1>1. ASSUME NEW t \in Threads, ThreadStep(t),
             Write(t) \/ (CompareAndSwap(t) /\ counter = old[t])
      PROVE  LossInv'
  <2>1. /\ Up' = IF value[t] = 1 THEN Up + 1 ELSE Up
        /\ Down' = IF value[t] = 1 THEN Down ELSE Down + 1
    BY <1>1, WriteMovesBounds
  <2>2. /\ pc[t] = "write" /\ counter' = old[t] + value[t] /\ UNCHANGED old
        /\ \A s \in Threads : pc'[s] = "write" => pc[s] = "write"
    BY <1>1 DEF IInv, TypeOK, Write, CompareAndSwap, GoTo
  <2>3. value[t] \in {1, -1} /\ \A s \in Threads : old[s] \in Int
    BY DEF IInv, TypeOK
  <2>4. old[t] <= Up /\ -old[t] <= Down
    BY <2>2 DEF LossInv
  <2>5. counter' <= Up' /\ -counter' <= Down'
    BY <2>1, <2>2, <2>3, <2>4, BoundsAreFinite
  <2>6. ASSUME NEW s \in Threads, pc'[s] = "write" PROVE old'[s] <= Up' /\ -old'[s] <= Down'
    BY <2>1, <2>2, <2>3, <2>6, BoundsAreFinite DEF LossInv
  <2> QED  BY <2>5, <2>6 DEF LossInv, LossIsBounded, Up, Down, Increments, Decrements
<1>2. ASSUME \A t \in Threads : Done(t)' = Done(t), counter' = counter,
             \A t \in Threads : pc'[t] = "write" =>
               old'[t] = counter \/ (pc[t] = "write" /\ old'[t] = old[t])
      PROVE  LossInv'
  <2>1. UNCHANGED <<Up, Down>>
    BY <1>2, SameBounds
  <2> QED  BY <1>2, <2>1 DEF LossInv, LossIsBounded, Up, Down, Increments, Decrements
<1>3. ASSUME NEW t \in Threads, ThreadStep(t),
             ~(Write(t) \/ (CompareAndSwap(t) /\ counter = old[t]))
      PROVE  LossInv'
  <2> USE <1>3 DEF ThreadStep, IInv, TypeOK, GoTo, AtIteration
  <2>1. counter' = counter
    BY DEF Lock, Read, Unlock, SecondLoop, Return, CompareAndSwap
  <2>2. \A s \in Threads : Done(s)' = Done(s)
    BY CounterAssumption DEF Done, Lock, Read, Unlock, SecondLoop, Return, CompareAndSwap
  <2>3. \A s \in Threads : pc'[s] = "write" =>
          old'[s] = counter \/ (pc[s] = "write" /\ old'[s] = old[s])
    BY DEF Lock, Read, Unlock, SecondLoop, Return, CompareAndSwap
  <2> QED  BY <1>2, <2>1, <2>2, <2>3
<1>4. CASE MainStep
  <2>1. UNCHANGED <<counter, old>>
    BY <1>4 DEF MainStep, Create, CreateFails, Join, Report, threadVars
  <2>2. \A s \in Threads : Done(s)' = Done(s) /\ (pc'[s] = "write" => pc[s] = "write")
    BY <1>4 DEF MainStep, Create, CreateFails, Join, Report, threadVars, Done,
                IInv, MainInOrder, TypeOK
  <2> QED  BY <1>2, <2>1, <2>2
<1>5. CASE UNCHANGED vars
  BY <1>2, <1>5 DEF vars, threadVars, Done
<1> QED  BY <1>1, <1>3, <1>4, <1>5 DEF Next, Terminated

\* lab2_add.c:27-32 without --sync: however the reads and writes of the threads
\* interleave, the counter is never above the increments made nor below minus the
\* decrements, for every number of threads and iterations.
THEOREM AddLossIsBounded == Spec => []LossIsBounded
<1>1. Init => LossInv
  <2> SUFFICES ASSUME Init PROVE LossInv
    OBVIOUS
  <2>1. counter = 0 /\ \A t \in Threads : pc[t] # "write"
    BY DEF Init
  <2> QED  BY <2>1, BoundsAreFinite DEF LossInv, LossIsBounded, Up, Down, Increments, Decrements
<1>2. LossInv => LossIsBounded
  BY DEF LossInv
<1> QED  BY <1>1, <1>2, NextLossInv, SpecIInv, PTL DEF Spec
=============================================================================

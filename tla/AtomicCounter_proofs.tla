------------------------ MODULE AtomicCounter_proofs ------------------------
(* The counter is the tally of the adds that took effect, for any number of  *)
(* threads and iterations.                                                   *)
EXTENDS AtomicCounter, FiniteSetTheorems, TLAPS

\* All the adds of one sign, finitely many.
LEMMA AddsAreFinite == /\ IsFiniteSet(Threads \X (1..IterNum))
                       /\ IsFiniteSet(Increments)
                       /\ IsFiniteSet(Decrements)
<1>1. IsFiniteSet(Threads) /\ IsFiniteSet(1..IterNum)
  BY FS_Interval, CounterAssumption DEF Threads
<1>2. IsFiniteSet(Threads \X (1..IterNum))
  BY <1>1, FS_Product
<1>3. /\ Increments \in SUBSET (Threads \X (1..IterNum))
      /\ Decrements \in SUBSET (Threads \X (1..IterNum))
  BY DEF Increments, Decrements
<1> QED  BY <1>2, <1>3, FS_Subset

\* Every variable keeps its type.
LEMMA TypeStep == TypeOK /\ [Next]_vars => TypeOK'
  BY CounterAssumption DEF TypeOK, Next, vars, Add, NextValue, Threads

\* One more add puts exactly one pair into Increments or into Decrements.
LEMMA OneMoreAdd ==
  ASSUME done \in [Threads -> 0..(2 * IterNum)], NEW t \in Threads,
         done[t] < 2 * IterNum, done' = [done EXCEPT ![t] = @ + 1]
  PROVE  \/ /\ done[t] < IterNum
            /\ \E a : a \notin Increments /\ Increments' = Increments \cup {a}
            /\ Decrements' = Decrements
         \/ /\ done[t] >= IterNum
            /\ \E a : a \notin Decrements /\ Decrements' = Decrements \cup {a}
            /\ Increments' = Increments
<1> IterNum \in Nat \ {0}
  BY CounterAssumption
<1>1. /\ done[t] \in 0..(2 * IterNum)
      /\ \A s \in Threads : done'[s] = IF s = t THEN done[t] + 1 ELSE done[s]
      /\ \A s \in Threads : done[s] \in 0..(2 * IterNum)
  OBVIOUS
<1>2. CASE done[t] < IterNum
  <2> DEFINE a == <<t, done[t] + 1>>
  <2>1. Increments' = Increments \cup {a} /\ a \notin Increments
    <3>1. a \in Threads \X (1..IterNum)
      BY <1>1, <1>2
    <3>2. ASSUME NEW b \in Threads \X (1..IterNum)
          PROVE  b[2] <= done'[b[1]] <=> b[2] <= done[b[1]] \/ b = a
      BY <1>1, <1>2
    <3>3. ~(a[2] <= done[a[1]])
      BY <1>1
    <3> QED  BY <3>1, <3>2, <3>3, Zenon DEF Increments, Threads
  <2>2. Decrements' = Decrements
    <3>1. ASSUME NEW b \in Threads \X (1..IterNum)
          PROVE  IterNum + b[2] <= done'[b[1]] <=> IterNum + b[2] <= done[b[1]]
      BY <1>1, <1>2
    <3> QED  BY <3>1, Zenon DEF Decrements, Threads
  <2> HIDE DEF a
  <2> QED  BY <1>2, <2>1, <2>2
<1>3. CASE done[t] >= IterNum
  <2> DEFINE a == <<t, done[t] - IterNum + 1>>
  <2>1. Decrements' = Decrements \cup {a} /\ a \notin Decrements
    <3>1. a \in Threads \X (1..IterNum)
      BY <1>1, <1>3
    <3>2. ASSUME NEW b \in Threads \X (1..IterNum)
          PROVE  IterNum + b[2] <= done'[b[1]] <=> IterNum + b[2] <= done[b[1]] \/ b = a
      BY <1>1, <1>3
    <3>3. ~(IterNum + a[2] <= done[a[1]])
      BY <1>1
    <3> QED  BY <3>1, <3>2, <3>3, Zenon DEF Decrements, Threads
  <2>2. Increments' = Increments
    <3>1. ASSUME NEW b \in Threads \X (1..IterNum)
          PROVE  b[2] <= done'[b[1]] <=> b[2] <= done[b[1]]
      BY <1>1, <1>3
    <3> QED  BY <3>1, Zenon DEF Increments, Threads
  <2> HIDE DEF a
  <2> QED  BY <1>3, <2>1, <2>2
<1> QED  BY <1>1, <1>2, <1>3

\* So the counter stays the difference of their sizes.
LEMMA TallyStep == TypeOK /\ CounterIsTally /\ [Next]_vars => CounterIsTally'
<1> SUFFICES ASSUME TypeOK, CounterIsTally, [Next]_vars
             PROVE  CounterIsTally'
  OBVIOUS
<1>1. CASE UNCHANGED vars
  BY <1>1 DEF CounterIsTally, vars, Increments, Decrements
<1>2. ASSUME NEW t \in Threads, Add(t)
      PROVE  CounterIsTally'
  <2>1. \/ /\ done[t] < IterNum
           /\ \E a : a \notin Increments /\ Increments' = Increments \cup {a}
           /\ Decrements' = Decrements
        \/ /\ done[t] >= IterNum
           /\ \E a : a \notin Decrements /\ Decrements' = Decrements \cup {a}
           /\ Increments' = Increments
    BY <1>2, OneMoreAdd DEF Add, TypeOK
  <2>2. /\ Cardinality(Increments) \in Nat
        /\ Cardinality(Decrements) \in Nat
    BY AddsAreFinite, FS_CardinalityType
  <2>3. CASE done[t] < IterNum
    <3>1. Cardinality(Increments') = Cardinality(Increments) + 1 /\ Decrements' = Decrements
      <4>1. PICK a : a \notin Increments /\ Increments' = Increments \cup {a}
        BY <2>1, <2>3, CounterAssumption DEF TypeOK
      <4> QED  BY <2>1, <2>3, <4>1, AddsAreFinite, FS_AddElement, CounterAssumption DEF TypeOK
    <3>2. counter' = counter + 1
      BY <1>2, <2>3 DEF Add, NextValue
    <3> QED  BY <2>2, <3>1, <3>2 DEF CounterIsTally
  <2>4. CASE ~(done[t] < IterNum)
    <3>1. Cardinality(Decrements') = Cardinality(Decrements) + 1 /\ Increments' = Increments
      <4>1. PICK a : a \notin Decrements /\ Decrements' = Decrements \cup {a}
        BY <2>1, <2>4
      <4> QED  BY <2>1, <2>4, <4>1, AddsAreFinite, FS_AddElement
    <3>2. counter' = counter - 1
      BY <1>2, <2>4 DEF Add, NextValue, TypeOK
    <3> QED  BY <2>2, <3>1, <3>2 DEF CounterIsTally
  <2> QED  BY <2>3, <2>4
<1> QED  BY <1>1, <1>2 DEF Next

\* Before the first addition the tally is 0.
LEMMA InitTally == Init => TypeOK /\ CounterIsTally
<1> SUFFICES ASSUME Init PROVE TypeOK /\ CounterIsTally
  OBVIOUS
<1>1. TypeOK
  BY CounterAssumption DEF Init, TypeOK
<1>2. Increments = {} /\ Decrements = {}
  BY CounterAssumption DEF Init, Increments, Decrements, Threads
<1> QED  BY <1>1, <1>2, FS_EmptySet DEF Init, CounterIsTally

\* No update is lost and none is counted twice (AtomicCounter's promise, which
\* lab2_add.c:77-122 keeps under every --sync option).
THEOREM TallyInvariant == Spec => []CounterIsTally
  BY InitTally, TypeStep, TallyStep, PTL DEF Spec

\* Once every thread has done all its adds, the tally is 0.
LEMMA AllDoneMeansZero ==
  (CounterIsTally /\ \A t \in Threads : done[t] = 2 * IterNum) => counter = 0
<1> SUFFICES ASSUME CounterIsTally, \A t \in Threads : done[t] = 2 * IterNum
             PROVE  counter = 0
  OBVIOUS
<1>1. Increments = Decrements
  BY CounterAssumption DEF Increments, Decrements
<1> QED  BY <1>1, AddsAreFinite, FS_CardinalityType DEF CounterIsTally
=============================================================================

--------------------------- MODULE AtomicCounter ---------------------------
(* What Lab2A/lab2_add.c promises when --sync is given: every add() of every *)
(* thread takes effect in one step.  A thread adds +1 IterNum times, then -1 *)
(* IterNum times.                                                            *)
EXTENDS CounterParameters, FiniteSets

VARIABLES counter,  \* the shared long long
          done      \* done[t]: the adds of t that have taken effect

vars == <<counter, done>>

Threads == 0..(ThreadNum - 1)

Init == /\ counter = 0
        /\ done = [t \in Threads |-> 0]

\* The value of the next add: +1 in the first for loop, -1 in the second.
NextValue(t) == IF done[t] < IterNum THEN 1 ELSE -1

Add(t) == /\ done[t] < 2 * IterNum
          /\ counter' = counter + NextValue(t)
          /\ done' = [done EXCEPT ![t] = @ + 1]

Next == \E t \in Threads : Add(t)

Spec == Init /\ [][Next]_vars

-----------------------------------------------------------------------------
TypeOK == /\ counter \in Int
          /\ done \in [Threads -> 0..(2 * IterNum)]

\* The increments and the decrements that have taken effect.
Increments == {a \in Threads \X (1..IterNum) : a[2] <= done[a[1]]}
Decrements == {a \in Threads \X (1..IterNum) : IterNum + a[2] <= done[a[1]]}

\* The counter is the increments minus the decrements that took effect: no
\* update of lab2_add.c:93 or of a locked add() is lost or counted twice.
CounterIsTally == counter = Cardinality(Increments) - Cardinality(Decrements)
=============================================================================

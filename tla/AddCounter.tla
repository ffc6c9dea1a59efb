----------------------------- MODULE AddCounter -----------------------------
(* Lab2A/lab2_add.c: ThreadNum threads run add_subtract() on one shared      *)
(* counter.  The read of *pointer and the write back are separate steps, as  *)
(* in add(); sched_yield() between them is a stuttering step.  The mutex of  *)
(* --sync=m and the spin word of --sync=s are one lock bit: a failed         *)
(* __sync_lock_test_and_set writes the 1 that is already there.              *)
EXTENDS CounterParameters, FiniteSets

VARIABLES opt_sync, \* --sync, "none" when the option is absent
          counter,  \* the shared long long
          lock,     \* the word spin, or the mutex: 1 while it is taken
          pc,       \* pc[t]: where thread t is
          old,      \* old[t]: the value t read from *pointer
          i,        \* i[t]: the loop index of t
          value,    \* value[t]: 1 in the first for loop of t, -1 in the second
          created,  \* main's index in the pthread_create loop
          joined,   \* main's index in the pthread_join loop
          status    \* "running", or the exit status of the process

threadVars == <<counter, lock, pc, old, i, value>>
vars == <<opt_sync, threadVars, created, joined, status>>

Threads == 0..(ThreadNum - 1)
Locking == opt_sync \in {"m", "s"}

Init == /\ opt_sync \in {"m", "s", "c", "none"}
        /\ counter = 0
        /\ lock = 0
        /\ pc = [t \in Threads |-> "unborn"]
        /\ old = [t \in Threads |-> 0]
        /\ i = [t \in Threads |-> 0]
        /\ value = [t \in Threads |-> 1]
        /\ created = 0
        /\ joined = 0
        /\ status = "running"

-----------------------------------------------------------------------------
(* add_subtract(), the thread body.                                          *)

GoTo(t, label) == pc' = [pc EXCEPT ![t] = label]

\* The loop test i < iter_num succeeds.
AtIteration(t) == pc[t] = "loop" /\ i[t] < IterNum

\* Fault: the old value returned by the test-and-set is ignored.
LockIgnoringHolder(t) == /\ Locking
                         /\ AtIteration(t)
                         /\ lock' = 1
                         /\ GoTo(t, "read")
                         /\ UNCHANGED <<counter, old, i, value>>

Lock(t) == /\ Locking
           /\ AtIteration(t)
           /\ lock = 0
           /\ lock' = 1
           /\ GoTo(t, "read")
           /\ UNCHANGED <<counter, old, i, value>>

\* The read of *pointer, in add() or in the body of the do loop of
\* add_compare_and_swap().
Read(t) == /\ pc[t] = "read" \/ (~Locking /\ AtIteration(t))
           /\ old' = [old EXCEPT ![t] = counter]
           /\ GoTo(t, "write")
           /\ UNCHANGED <<counter, lock, i, value>>

\* Fault: the value is added to the sum once more.
WriteTwice(t) == /\ opt_sync # "c"
                 /\ pc[t] = "write"
                 /\ counter' = old[t] + 2 * value[t]
                 /\ IF Locking
                    THEN GoTo(t, "unlock") /\ UNCHANGED i
                    ELSE GoTo(t, "loop") /\ i' = [i EXCEPT ![t] = @ + 1]
                 /\ UNCHANGED <<lock, old, value>>

Write(t) == /\ opt_sync # "c"
            /\ pc[t] = "write"
            /\ counter' = old[t] + value[t]
            /\ IF Locking
               THEN GoTo(t, "unlock") /\ UNCHANGED i
               ELSE GoTo(t, "loop") /\ i' = [i EXCEPT ![t] = @ + 1]
            /\ UNCHANGED <<lock, old, value>>

\* Fault: a plain store in place of the compare-and-swap.
SwapWithoutCompare(t) == /\ opt_sync = "c"
                         /\ pc[t] = "write"
                         /\ counter' = old[t] + value[t]
                         /\ i' = [i EXCEPT ![t] = @ + 1]
                         /\ GoTo(t, "loop")
                         /\ UNCHANGED <<lock, old, value>>

\* Fault: old is read before the do loop, so a retry compares with it again.
CompareStaleOld(t) == /\ opt_sync = "c"
                      /\ pc[t] = "write"
                      /\ \/ /\ counter = old[t]
                            /\ counter' = old[t] + value[t]
                            /\ i' = [i EXCEPT ![t] = @ + 1]
                            /\ GoTo(t, "loop")
                         \/ /\ counter # old[t]
                            /\ UNCHANGED <<counter, i, pc>>
                      /\ UNCHANGED <<lock, old, value>>

CompareAndSwap(t) == /\ opt_sync = "c"
                     /\ pc[t] = "write"
                     /\ \/ /\ counter = old[t]
                           /\ counter' = old[t] + value[t]
                           /\ i' = [i EXCEPT ![t] = @ + 1]
                           /\ GoTo(t, "loop")
                        \/ /\ counter # old[t]
                           /\ GoTo(t, "read")
                           /\ UNCHANGED <<counter, i>>
                     /\ UNCHANGED <<lock, old, value>>

Unlock(t) == /\ pc[t] = "unlock"
             /\ lock' = 0
             /\ i' = [i EXCEPT ![t] = @ + 1]
             /\ GoTo(t, "loop")
             /\ UNCHANGED <<counter, old, value>>

\* Fault: i is not reset, so the second loop is skipped.
SecondLoopWithoutReset(t) == /\ pc[t] = "loop"
                             /\ i[t] >= IterNum
                             /\ value[t] = 1
                             /\ value' = [value EXCEPT ![t] = -1]
                             /\ UNCHANGED <<counter, lock, pc, old, i>>

\* The first loop is over; the second starts again at i = 0.
SecondLoop(t) == /\ pc[t] = "loop"
                 /\ i[t] >= IterNum
                 /\ value[t] = 1
                 /\ value' = [value EXCEPT ![t] = -1]
                 /\ i' = [i EXCEPT ![t] = 0]
                 /\ UNCHANGED <<counter, lock, pc, old>>

Return(t) == /\ pc[t] = "loop"
             /\ i[t] >= IterNum
             /\ value[t] = -1
             /\ GoTo(t, "returned")
             /\ UNCHANGED <<counter, lock, old, i, value>>

ThreadStep(t) == /\ status = "running"
                 /\ \/ Lock(t)
                    \/ Read(t)
                    \/ Write(t)
                    \/ CompareAndSwap(t)
                    \/ Unlock(t)
                    \/ SecondLoop(t)
                    \/ Return(t)
                 /\ UNCHANGED <<opt_sync, created, joined, status>>

-----------------------------------------------------------------------------
(* main(): create every thread, join them in order, print, exit.             *)

Create == /\ status = "running"
          /\ created < ThreadNum
          /\ pc' = [pc EXCEPT ![created] = "loop"]
          /\ created' = created + 1
          /\ UNCHANGED <<opt_sync, counter, lock, old, i, value, joined, status>>

\* pthread_create fails: exit(1) ends the threads already running.
CreateFails == /\ status = "running"
               /\ created < ThreadNum
               /\ status' = "exit1"
               /\ UNCHANGED <<opt_sync, threadVars, created, joined>>

Join == /\ status = "running"
        /\ created = ThreadNum
        /\ joined < ThreadNum
        /\ pc[joined] = "returned"
        /\ joined' = joined + 1
        /\ UNCHANGED <<opt_sync, threadVars, created, status>>

Report == /\ status = "running"
          /\ joined = ThreadNum
          /\ status' = "exit0"
          /\ UNCHANGED <<opt_sync, threadVars, created, joined>>

MainStep == Create \/ CreateFails \/ Join \/ Report

\* The process is gone.
Terminated == status # "running" /\ UNCHANGED vars

Next == \/ \E t \in Threads : ThreadStep(t)
        \/ MainStep
        \/ Terminated

Spec == Init /\ [][Next]_vars

\* The kernel runs every runnable thread sooner or later.
FairSpec == /\ Spec
            /\ \A t \in Threads : WF_vars(ThreadStep(t))
            /\ WF_vars(Create \/ Join \/ Report)

-----------------------------------------------------------------------------
(* Properties.                                                               *)

Labels == {"unborn", "loop", "read", "write", "unlock", "returned"}

\* The type of every variable; a thread works on the counter only inside its
\* loops.
TypeOK == /\ opt_sync \in {"m", "s", "c", "none"}
          /\ counter \in Int
          /\ lock \in {0, 1}
          /\ pc \in [Threads -> Labels]
          /\ old \in [Threads -> Int]
          /\ i \in [Threads -> 0..IterNum]
          /\ value \in [Threads -> {1, -1}]
          /\ created \in 0..ThreadNum
          /\ joined \in 0..ThreadNum
          /\ status \in {"running", "exit0", "exit1"}

\* Thread t holds the mutex or the spin lock.
Holds(t) == Locking /\ pc[t] \in {"read", "write", "unlock"}

\* lab2_add.c:81-89: the lock word is set exactly when one thread is between
\* its lock and its unlock, and never two are.
MutualExclusion == /\ \A s, t \in Threads : Holds(s) /\ Holds(t) => s = t
                   /\ lock = 1 <=> \E t \in Threads : Holds(t)

\* The adds of t that have taken effect.
Done(t) == (IF value[t] = 1 THEN 0 ELSE IterNum)
           + i[t] + (IF pc[t] = "unlock" THEN 1 ELSE 0)

\* With any --sync option every add() is atomic (lab2_add.c:77-122): the
\* interleaved reads and writes implement one indivisible addition each.
Atomic == INSTANCE AtomicCounter WITH done <- [t \in Threads |-> Done(t)]
ImplementsAtomicCounter ==
  Atomic!Init /\ [][opt_sync # "none" => Atomic!Next]_(Atomic!vars)

\* With any --sync option the counter printed at lab2_add.c:215 is 0: after
\* the joins as many increments as decrements have reached it.
FinalCounterZero == status = "exit0" /\ opt_sync # "none" => counter = 0

\* Without --sync updates get lost, but only lost: a stale sum can never push
\* the counter past the increments written so far, nor below minus the
\* decrements (lab2_add.c:27-32, unprotected).
LossIsBounded == /\ counter <= Cardinality(Atomic!Increments)
                 /\ -counter <= Cardinality(Atomic!Decrements)

\* The process always exits: no lock is left held, no compare-and-swap loses
\* for ever (lab2_add.c:46, 81-89, 191-199).
Termination == <>(status # "running")
=============================================================================

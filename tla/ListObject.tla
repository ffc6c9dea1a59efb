----------------------------- MODULE ListObject -----------------------------
(* What Lab2B/lab2_list.c promises when --sync is given: insert, length and  *)
(* lookup-and-delete are indivisible operations on sets of elements.  A      *)
(* deletion asks for a key and takes any element that has it.                *)
EXTENDS Integers, FiniteSets

CONSTANTS ThreadNum,  \* --threads
          IterNum,    \* --iterations
          ListNum,    \* --lists
          Keys,       \* the keys of the elements
          Place       \* Place[k]: the list that key k belongs to

ASSUME ObjectAssumption == /\ ThreadNum \in Nat \ {0}
                           /\ IterNum \in Nat \ {0}
                           /\ ListNum \in Nat \ {0}
                           /\ Place \in [Keys -> 0..(ListNum - 1)]

Threads == 0..(ThreadNum - 1)
Lists == 0..(ListNum - 1)
Elements == 0..(ThreadNum * IterNum - 1)

VARIABLES key,       \* key[e]: the key of element e
          present,   \* the elements in the lists
          inserted,  \* the elements whose insertion has taken effect
          consumed,  \* the elements whose lookup-and-delete has taken effect
          measured,  \* measured[t]: the lists whose length t has seen
          total      \* total[t]: the sum of those lengths

vars == <<key, present, inserted, consumed, measured, total>>

\* The elements that thread t inserts and asks to delete.
Own(t) == {e \in Elements : e % ThreadNum = t}

Init == /\ key \in [Elements -> Keys]
        /\ present = {}
        /\ inserted = {}
        /\ consumed = {}
        /\ measured = [t \in Threads |-> {}]
        /\ total = [t \in Threads |-> 0]

\* Fault: an element whose key is present already is not inserted.
InsertUnlessPresent(e) ==
  /\ e \notin inserted
  /\ present' = IF \E v \in present : key[v] = key[e] THEN present ELSE present \cup {e}
  /\ inserted' = inserted \cup {e}
  /\ UNCHANGED <<key, consumed, measured, total>>

Insert(e) == /\ e \notin inserted
             /\ present' = present \cup {e}
             /\ inserted' = inserted \cup {e}
             /\ UNCHANGED <<key, consumed, measured, total>>

\* The elements of S that belong to list l.
OnList(S, l) == {e \in S : Place[key[e]] = l}

\* Fault: a thread measures before its insertions are over.
MeasureEarly(t, l) == /\ l \notin measured[t]
                      /\ measured' = [measured EXCEPT ![t] = @ \cup {l}]
                      /\ total' = [total EXCEPT ![t] = @ + Cardinality(OnList(present, l))]
                      /\ UNCHANGED <<key, present, inserted, consumed>>

\* A thread measures each list once, between its insertions and deletions.
Measure(t, l) == /\ Own(t) \subseteq inserted \ consumed
                 /\ l \notin measured[t]
                 /\ measured' = [measured EXCEPT ![t] = @ \cup {l}]
                 /\ total' = [total EXCEPT ![t] = @ + Cardinality(OnList(present, l))]
                 /\ UNCHANGED <<key, present, inserted, consumed>>

\* Fault: a lookup returns an element whatever its key.
MatchesAny(e) == present

\* The elements that a lookup of e's key may return.
Matches(e) == {v \in present : key[v] = key[e]}

\* Fault: the element found is not unlinked.
RemoveWithoutUnlink(e) == /\ e \in inserted \ consumed
                          /\ measured[e % ThreadNum] = Lists
                          /\ Matches(e) # {}
                          /\ consumed' = consumed \cup {e}
                          /\ UNCHANGED <<key, present, inserted, measured, total>>

\* The deletion for element e, by its owner.
Remove(e) == /\ e \in inserted \ consumed
             /\ measured[e % ThreadNum] = Lists
             /\ \E v \in Matches(e) : present' = present \ {v}
             /\ consumed' = consumed \cup {e}
             /\ UNCHANGED <<key, inserted, measured, total>>

Next == \/ \E e \in Elements : Insert(e) \/ Remove(e)
        \/ \E t \in Threads, l \in Lists : Measure(t, l)

Spec == Init /\ [][Next]_vars

-----------------------------------------------------------------------------
\* Of every key as many elements are present as insertions exceed deletions.
WithKey(S, k) == {e \in S : key[e] = k}

KeysBalance ==
  \A k \in Keys : Cardinality(WithKey(present, k))
                    = Cardinality(WithKey(inserted, k)) - Cardinality(WithKey(consumed, k))

\* A deletion whose turn has come finds an element, whichever elements the
\* other threads have taken (lab2_list.c:104): its own insertion pays for it.
NeverMisses == \A e \in inserted \ consumed : Matches(e) # {}

\* Once every deletion is done the lists are empty (lab2_list.c:416-423).
EndsEmpty == consumed = Elements => present = {}

\* A thread that has measured every list has counted at least as many elements
\* as it inserted: no other thread can use up all those of one of its keys.
MeasuresOwn == \A t \in Threads :
                 measured[t] = Lists => total[t] \in IterNum..(ThreadNum * IterNum)
=============================================================================

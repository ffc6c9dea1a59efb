------------------------- MODULE ListObject_proofs -------------------------
(* The object of lab2_list never misses an element, for every number of      *)
(* threads, iterations, lists and every assignment of keys.                  *)
EXTENDS ListObject, FunctionTheorems, FiniteSetTheorems, TLAPS

\* The type of the state; only inserted elements are present or consumed.
TypeOK == /\ key \in [Elements -> Keys]
          /\ inserted \in SUBSET Elements
          /\ present \in SUBSET inserted
          /\ consumed \in SUBSET inserted
          /\ measured \in [Threads -> SUBSET Lists]
          /\ total \in [Threads -> Nat]

\* X is a union of classes of elements with equal keys.
KeyClosed(X) == \A d, e \in Elements : key[d] = key[e] => (d \in X <=> e \in X)

\* A deletion takes an element of the key it asks for, so within every such X
\* what is present is what was inserted less what was consumed.
Balance(X) == Cardinality(present \cap X) + Cardinality(consumed \cap X)
                = Cardinality(inserted \cap X)
ClassesBalance == \A X \in SUBSET Elements : KeyClosed(X) => Balance(X)

\* The elements are finitely many.
LEMMA ElementsFinite == /\ IsFiniteSet(Elements)
                        /\ Cardinality(Elements) = ThreadNum * IterNum
<1>1. ThreadNum * IterNum \in Nat
  BY ObjectAssumption
<1> QED  BY <1>1, FS_Interval DEF Elements

\* So is every set of elements.
LEMMA SubsetFinite ==
  ASSUME NEW S \in SUBSET Elements
  PROVE  IsFiniteSet(S) /\ Cardinality(S) \in Nat
  BY ElementsFinite, FS_Subset, FS_CardinalityType

\* Every element has an owner.
LEMMA OwnerIsThread == \A e \in Elements : e % ThreadNum \in Threads
<1> SUFFICES ASSUME NEW e \in Elements PROVE e % ThreadNum \in Threads
  OBVIOUS
<1>1. e \in Int /\ ThreadNum \in Nat \ {0}
  BY ObjectAssumption DEF Elements
<1> QED  BY <1>1 DEF Threads

\* Every operation keeps the types.
LEMMA TypeStep == TypeOK /\ [Next]_vars => TypeOK'
<1> SUFFICES ASSUME TypeOK, [Next]_vars PROVE TypeOK'
  OBVIOUS
<1> USE DEF TypeOK
<1>1. CASE UNCHANGED vars
  BY <1>1 DEF vars
<1>2. ASSUME NEW e \in Elements, Insert(e) PROVE TypeOK'
  BY <1>2 DEF Insert
<1>3. ASSUME NEW e \in Elements, Remove(e) PROVE TypeOK'
  BY <1>3 DEF Remove
<1>4. ASSUME NEW t \in Threads, NEW l \in Lists, Measure(t, l) PROVE TypeOK'
  <2>1. OnList(present, l) \in SUBSET Elements
    BY DEF OnList
  <2>2. Cardinality(OnList(present, l)) \in Nat
    BY <2>1, SubsetFinite
  <2> QED  BY <1>4, <2>2 DEF Measure
<1> QED  BY <1>1, <1>2, <1>3, <1>4 DEF Next

\* Adding an element to a set of elements, and taking one away, seen within X.
LEMMA AddWithin ==
  ASSUME NEW S \in SUBSET Elements, NEW X \in SUBSET Elements,
         NEW e \in Elements, e \notin S
  PROVE  Cardinality((S \cup {e}) \cap X)
           = IF e \in X THEN Cardinality(S \cap X) + 1 ELSE Cardinality(S \cap X)
<1>1. IsFiniteSet(S \cap X)
  BY SubsetFinite
<1>2. CASE e \in X
  <2>1. (S \cup {e}) \cap X = (S \cap X) \cup {e}
    BY <1>2
  <2> QED  BY <1>1, <1>2, <2>1, FS_AddElement
<1>3. CASE e \notin X
  <2>1. (S \cup {e}) \cap X = S \cap X
    BY <1>3
  <2> QED  BY <1>3, <2>1
<1> QED  BY <1>2, <1>3

LEMMA DropWithin ==
  ASSUME NEW S \in SUBSET Elements, NEW X \in SUBSET Elements,
         NEW v \in S
  PROVE  Cardinality((S \ {v}) \cap X)
           = IF v \in X THEN Cardinality(S \cap X) - 1 ELSE Cardinality(S \cap X)
<1>1. IsFiniteSet(S \cap X)
  BY SubsetFinite
<1>2. CASE v \in X
  <2>1. (S \ {v}) \cap X = (S \cap X) \ {v}
    OBVIOUS
  <2> QED  BY <1>1, <1>2, <2>1, FS_RemoveElement
<1>3. CASE v \notin X
  <2>1. (S \ {v}) \cap X = S \cap X
    BY <1>3
  <2> QED  BY <1>3, <2>1
<1> QED  BY <1>2, <1>3

\* Every operation keeps the balance of every key-closed set.
LEMMA BalanceStep == TypeOK /\ ClassesBalance /\ [Next]_vars => ClassesBalance'
<1> SUFFICES ASSUME TypeOK, ClassesBalance, [Next]_vars,
                    NEW X \in SUBSET Elements, KeyClosed(X)'
             PROVE  Balance(X)'
  BY DEF ClassesBalance, Elements
<1>1. KeyClosed(X) /\ Balance(X)
  BY DEF KeyClosed, ClassesBalance, Next, vars, Insert, Remove, Measure
<1>2. /\ Cardinality(present \cap X) \in Nat
      /\ Cardinality(consumed \cap X) \in Nat
      /\ Cardinality(inserted \cap X) \in Nat
  BY SubsetFinite DEF TypeOK
<1>3. CASE UNCHANGED vars
  BY <1>1, <1>3 DEF vars, Balance
<1>4. ASSUME NEW e \in Elements, Insert(e) PROVE Balance(X)'
  <2>1. e \notin present /\ e \notin inserted
    BY <1>4 DEF Insert, TypeOK
  <2>2. present \in SUBSET Elements /\ inserted \in SUBSET Elements
    BY DEF TypeOK
  <2>3. Cardinality((present \cup {e}) \cap X)
          = IF e \in X THEN Cardinality(present \cap X) + 1
                       ELSE Cardinality(present \cap X)
    BY <2>1, <2>2, AddWithin
  <2>4. Cardinality((inserted \cup {e}) \cap X)
          = IF e \in X THEN Cardinality(inserted \cap X) + 1
                       ELSE Cardinality(inserted \cap X)
    BY <2>1, <2>2, AddWithin
  <2>5. /\ present' = present \cup {e}
        /\ inserted' = inserted \cup {e}
        /\ consumed' = consumed
    BY <1>4 DEF Insert
  <2> QED  BY <1>1, <1>2, <2>3, <2>4, <2>5 DEF Balance
<1>5. ASSUME NEW e \in Elements, Remove(e) PROVE Balance(X)'
  <2>1. PICK v \in Matches(e) : present' = present \ {v}
    BY <1>5 DEF Remove
  <2>2. v \in present /\ v \in Elements /\ (v \in X <=> e \in X)
    BY <1>1 DEF Matches, KeyClosed, TypeOK
  <2>3. consumed' = consumed \cup {e} /\ e \notin consumed /\ inserted' = inserted
    BY <1>5 DEF Remove
  <2>4. present \in SUBSET Elements /\ consumed \in SUBSET Elements
    BY DEF TypeOK
  <2>5. Cardinality((present \ {v}) \cap X)
          = IF v \in X THEN Cardinality(present \cap X) - 1
                       ELSE Cardinality(present \cap X)
    BY <2>2, <2>4, DropWithin
  <2>6. Cardinality((consumed \cup {e}) \cap X)
          = IF e \in X THEN Cardinality(consumed \cap X) + 1
                       ELSE Cardinality(consumed \cap X)
    BY <2>3, <2>4, AddWithin
  <2> QED  BY <1>1, <1>2, <2>1, <2>2, <2>3, <2>5, <2>6 DEF Balance
<1>6. ASSUME NEW t \in Threads, NEW l \in Lists, Measure(t, l) PROVE Balance(X)'
  BY <1>1, <1>6 DEF Measure, Balance
<1> QED  BY <1>3, <1>4, <1>5, <1>6 DEF Next

\* Nothing is inserted in the initial states.
LEMMA InitBalance == Init => TypeOK /\ ClassesBalance
<1> SUFFICES ASSUME Init PROVE TypeOK /\ ClassesBalance
  OBVIOUS
<1>1. TypeOK
  BY DEF Init, TypeOK
<1>2. \A X : {} \cap X = {}
  OBVIOUS
<1>3. Cardinality({}) = 0
  BY FS_EmptySet
<1>4. ClassesBalance
  BY <1>2, <1>3 DEF Init, ClassesBalance, Balance
<1> QED  BY <1>1, <1>4

\* The types and the balance hold in every reachable state.
LEMMA SpecBalance == Spec => [](TypeOK /\ ClassesBalance)
  BY InitBalance, TypeStep, BalanceStep, PTL DEF Spec

-----------------------------------------------------------------------------
\* The elements with one key are a key-closed set.
LEMMA WithKeyClosed ==
  ASSUME NEW k
  PROVE  /\ WithKey(Elements, k) \in SUBSET Elements
         /\ KeyClosed(WithKey(Elements, k))
  BY DEF WithKey, KeyClosed

\* Of every key as many elements are present as insertions exceed deletions.
THEOREM ObjectKeysBalance == Spec => []KeysBalance
<1>1. TypeOK /\ ClassesBalance => KeysBalance
  <2> SUFFICES ASSUME TypeOK, ClassesBalance, NEW k \in Keys
               PROVE  Cardinality(WithKey(present, k))
                        = Cardinality(WithKey(inserted, k)) - Cardinality(WithKey(consumed, k))
    BY DEF KeysBalance
  <2> DEFINE X == WithKey(Elements, k)
  <2>1. Balance(X)
    BY WithKeyClosed DEF ClassesBalance
  <2>2. /\ present \cap X = WithKey(present, k)
        /\ inserted \cap X = WithKey(inserted, k)
        /\ consumed \cap X = WithKey(consumed, k)
    BY DEF WithKey, TypeOK
  <2>3. /\ Cardinality(WithKey(present, k)) \in Nat
        /\ Cardinality(WithKey(inserted, k)) \in Nat
        /\ Cardinality(WithKey(consumed, k)) \in Nat
    BY SubsetFinite DEF WithKey, TypeOK
  <2> QED  BY <2>1, <2>2, <2>3 DEF Balance
<1> QED  BY <1>1, SpecBalance, PTL

\* Among the elements with its key, what a deletion has not consumed is paid for.
LEMMA BalanceNeverMisses == TypeOK /\ ClassesBalance => NeverMisses
<1> SUFFICES ASSUME TypeOK, ClassesBalance, NEW e \in inserted \ consumed,
                    Matches(e) = {}
             PROVE  FALSE
  BY DEF NeverMisses
<1> DEFINE X == WithKey(Elements, key[e])
<1>1. Balance(X)
  BY WithKeyClosed DEF ClassesBalance
<1>2. present \cap X = {}
  BY DEF WithKey, Matches, TypeOK
<1>3. consumed \cap X \in SUBSET (inserted \cap X)
  BY DEF TypeOK
<1>4. inserted \cap X \in SUBSET Elements /\ consumed \cap X \in SUBSET Elements
  BY DEF TypeOK
<1>5. Cardinality(consumed \cap X) = Cardinality(inserted \cap X)
  BY <1>1, <1>2, <1>4, FS_EmptySet, SubsetFinite DEF Balance
<1>6. consumed \cap X = inserted \cap X
  BY <1>3, <1>4, <1>5, SubsetFinite, FS_Subset
<1>7. e \in X
  BY DEF WithKey, TypeOK
<1> QED  BY <1>6, <1>7

\* A deletion whose turn has come finds an element (lab2_list.c:104).
THEOREM ObjectNeverMisses == Spec => []NeverMisses
  BY BalanceNeverMisses, SpecBalance, PTL

\* The set of all elements balances too.
LEMMA BalanceEndsEmpty == TypeOK /\ ClassesBalance => EndsEmpty
<1> SUFFICES ASSUME TypeOK, ClassesBalance, consumed = Elements
             PROVE  present = {}
  BY DEF EndsEmpty
<1>1. Balance(Elements)
  BY DEF ClassesBalance, KeyClosed
<1>2. /\ inserted \cap Elements = Elements
      /\ consumed \cap Elements = Elements
      /\ present \cap Elements = present
  BY DEF TypeOK
<1>3. Cardinality(present) = 0
  BY <1>1, <1>2, SubsetFinite DEF Balance, TypeOK
<1> QED  BY <1>3, SubsetFinite, FS_EmptySet DEF TypeOK

\* When every deletion is done the lists are empty (lab2_list.c:416-423).
THEOREM ObjectEndsEmpty == Spec => []EndsEmpty
  BY BalanceEndsEmpty, SpecBalance, PTL
-----------------------------------------------------------------------------
(* The lengths a thread adds up.                                             *)

\* The elements, and the elements of t, on the lists that t has measured.
AllMeasured(t) == {e \in Elements : Place[key[e]] \in measured[t]}
OwnMeasured(t) == {e \in Own(t) : Place[key[e]] \in measured[t]}
TotalBounded == \A t \in Threads : /\ Cardinality(OwnMeasured(t)) <= total[t]
                                   /\ total[t] <= Cardinality(AllMeasured(t))

\* While none of the elements of t is consumed, a list holds as many elements
\* as t has inserted there.
LEMMA ListHoldsOwn ==
  ASSUME TypeOK, ClassesBalance, NEW t \in Threads, NEW l \in Lists,
         Own(t) \subseteq inserted \ consumed
  PROVE  /\ Cardinality(OnList(Own(t), l)) <= Cardinality(OnList(present, l))
         /\ Cardinality(OnList(present, l)) <= Cardinality(OnList(Elements, l))
<1> DEFINE X == OnList(Elements, l)
<1> USE DEF TypeOK
<1>1. Balance(X)
  BY DEF ClassesBalance, KeyClosed, OnList
<1>2. present \cap X = OnList(present, l)
  BY DEF OnList
<1>3. /\ X \in SUBSET Elements
      /\ OnList(present, l) \in SUBSET X
      /\ inserted \cap X \in SUBSET Elements
      /\ inserted \cap X \cap consumed = consumed \cap X
      /\ OnList(Own(t), l) \in SUBSET ((inserted \cap X) \ consumed)
  BY DEF OnList, Own
<1>4. Cardinality((inserted \cap X) \ consumed)
        = Cardinality(inserted \cap X) - Cardinality(consumed \cap X)
  BY <1>3, SubsetFinite, FS_Difference
<1>5. Cardinality((inserted \cap X) \ consumed) = Cardinality(OnList(present, l))
  <2>1. /\ Cardinality(present \cap X) \in Nat
        /\ Cardinality(consumed \cap X) \in Nat
        /\ Cardinality(inserted \cap X) \in Nat
    BY SubsetFinite
  <2>2. Cardinality(present \cap X) + Cardinality(consumed \cap X)
          = Cardinality(inserted \cap X)
    BY <1>1 DEF Balance
  <2> HIDE DEF X
  <2>3. Cardinality((inserted \cap X) \ consumed) = Cardinality(present \cap X)
    BY <1>4, <2>1, <2>2
  <2> QED  BY <1>2, <2>3
<1>6. IsFiniteSet((inserted \cap X) \ consumed) /\ IsFiniteSet(X)
  BY SubsetFinite, <1>3
<1>7. Cardinality(OnList(Own(t), l)) <= Cardinality((inserted \cap X) \ consumed)
  BY <1>3, <1>6, FS_Subset
<1>8. Cardinality(OnList(present, l)) <= Cardinality(X)
  BY <1>3, <1>6, FS_Subset
<1> QED  BY <1>5, <1>7, <1>8

\* The size of a union of two disjoint sets of elements.
LEMMA DisjointSum ==
  ASSUME NEW S \in SUBSET Elements, NEW T \in SUBSET Elements, S \cap T = {}
  PROVE  Cardinality(S \cup T) = Cardinality(S) + Cardinality(T)
<1>1. /\ IsFiniteSet(S) /\ Cardinality(S) \in Nat
      /\ IsFiniteSet(T) /\ Cardinality(T) \in Nat
  BY SubsetFinite
<1>2. Cardinality(S \cup T) = Cardinality(S) + Cardinality(T) - Cardinality(S \cap T)
  BY <1>1, FS_Union
<1> QED  BY <1>1, <1>2, FS_EmptySet

\* A measurement adds a list that was not measured before.
LEMMA TotalStep ==
  TypeOK /\ ClassesBalance /\ TotalBounded /\ [Next]_vars => TotalBounded'
<1> SUFFICES ASSUME TypeOK, ClassesBalance, TotalBounded, [Next]_vars,
                    NEW s \in Threads
             PROVE  /\ Cardinality(OwnMeasured(s)') <= total'[s]
                    /\ total'[s] <= Cardinality(AllMeasured(s)')
  BY DEF TotalBounded, Threads, OwnMeasured, AllMeasured
<1>1. Cardinality(OwnMeasured(s)) <= total[s] /\ total[s] <= Cardinality(AllMeasured(s))
  BY DEF TotalBounded
<1>2. ASSUME key' = key, measured'[s] = measured[s], total'[s] = total[s]
      PROVE  /\ Cardinality(OwnMeasured(s)') <= total'[s]
             /\ total'[s] <= Cardinality(AllMeasured(s)')
  <2>1. OwnMeasured(s)' = OwnMeasured(s) /\ AllMeasured(s)' = AllMeasured(s)
    BY <1>2 DEF OwnMeasured, AllMeasured, Own, Elements
  <2> QED  BY <1>1, <1>2, <2>1
<1>3. CASE UNCHANGED vars
  BY <1>2, <1>3 DEF vars
<1>4. CASE \E e \in Elements : Insert(e) \/ Remove(e)
  BY <1>2, <1>4 DEF Insert, Remove
<1>5. ASSUME NEW t \in Threads, NEW l \in Lists, Measure(t, l), s # t
      PROVE  measured'[s] = measured[s] /\ total'[s] = total[s] /\ key' = key
  BY <1>5 DEF Measure, TypeOK
<1>6. ASSUME NEW l \in Lists, Measure(s, l)
      PROVE  /\ Cardinality(OwnMeasured(s)') <= total'[s]
             /\ total'[s] <= Cardinality(AllMeasured(s)')
  <2>1. /\ key' = key /\ l \notin measured[s]
        /\ measured'[s] = measured[s] \cup {l}
        /\ total'[s] = total[s] + Cardinality(OnList(present, l))
        /\ Own(s) \subseteq inserted \ consumed
    BY <1>6 DEF Measure, TypeOK
  <2>2. /\ OwnMeasured(s)' = OwnMeasured(s) \cup OnList(Own(s), l)
        /\ OwnMeasured(s) \cap OnList(Own(s), l) = {}
        /\ OwnMeasured(s) \in SUBSET Elements
        /\ OnList(Own(s), l) \in SUBSET Elements
    BY <2>1 DEF OwnMeasured, OnList, Own, Elements
  <2>3. /\ AllMeasured(s)' = AllMeasured(s) \cup OnList(Elements, l)
        /\ AllMeasured(s) \cap OnList(Elements, l) = {}
        /\ AllMeasured(s) \in SUBSET Elements
        /\ OnList(Elements, l) \in SUBSET Elements
    BY <2>1 DEF AllMeasured, OnList, Elements
  <2>4. Cardinality(OwnMeasured(s)') = Cardinality(OwnMeasured(s))
                                         + Cardinality(OnList(Own(s), l))
    BY <2>2, DisjointSum
  <2>5. Cardinality(AllMeasured(s)') = Cardinality(AllMeasured(s))
                                         + Cardinality(OnList(Elements, l))
    BY <2>3, DisjointSum
  <2>6. /\ Cardinality(OnList(Own(s), l)) <= Cardinality(OnList(present, l))
        /\ Cardinality(OnList(present, l)) <= Cardinality(OnList(Elements, l))
    BY <2>1, ListHoldsOwn
  <2>7. /\ Cardinality(OwnMeasured(s)) \in Nat /\ Cardinality(AllMeasured(s)) \in Nat
        /\ Cardinality(OnList(Own(s), l)) \in Nat
        /\ Cardinality(OnList(Elements, l)) \in Nat
        /\ total[s] \in Nat
    BY <2>2, <2>3, SubsetFinite DEF TypeOK
  <2>8. Cardinality(OnList(present, l)) \in Nat
    <3>1. OnList(present, l) \in SUBSET Elements
      BY DEF OnList, TypeOK
    <3> QED  BY <3>1, SubsetFinite
  <2> QED  BY <1>1, <2>1, <2>4, <2>5, <2>6, <2>7, <2>8
<1> QED  BY <1>2, <1>3, <1>4, <1>5, <1>6 DEF Next

\* A thread owns IterNum elements: t, t + ThreadNum, t + 2 * ThreadNum, ...
LEMMA OwnSize == \A t \in Threads : Cardinality(Own(t)) = IterNum
<1> SUFFICES ASSUME NEW t \in Threads PROVE Cardinality(Own(t)) = IterNum
  OBVIOUS
<1> DEFINE nth(k) == t + k * ThreadNum
           f == [k \in 0..(IterNum - 1) |-> nth(k)]
<1>0. ThreadNum \in Nat \ {0} /\ IterNum \in Nat \ {0} /\ t \in 0..(ThreadNum - 1)
  BY ObjectAssumption DEF Threads
<1>1. ASSUME NEW k \in 0..(IterNum - 1) PROVE nth(k) \in Own(t)
  <2>1. nth(k) \in Int /\ nth(k) >= 0
    BY <1>0
  <2>2. nth(k) <= ThreadNum * IterNum - 1
    <3>1. (IterNum - 1 - k) * ThreadNum >= 0
      BY <1>0
    <3>2. (IterNum - 1 - k) * ThreadNum = ThreadNum * IterNum - ThreadNum - k * ThreadNum
      BY <1>0
    <3> QED  BY <1>0, <3>1, <3>2
  <2>3. nth(k) % ThreadNum = t
    BY <1>0
  <2> QED  BY <1>0, <2>1, <2>2, <2>3 DEF Own, Elements
<1>2. ASSUME NEW e \in Own(t) PROVE \E k \in 0..(IterNum - 1) : e = nth(k)
  <2>1. e \in 0..(ThreadNum * IterNum - 1) /\ e % ThreadNum = t
    BY DEF Own, Elements
  <2> DEFINE k == e \div ThreadNum
  <2>2. k \in Int /\ e = ThreadNum * k + t
    BY <1>0, <2>1
  <2>3. 0 <= k /\ k <= IterNum - 1
    BY <1>0, <2>1, <2>2
  <2>4. k * ThreadNum = ThreadNum * k
    BY <1>0, <2>2
  <2>5. e = nth(k)
    BY <1>0, <2>2, <2>4
  <2>6. k \in 0..(IterNum - 1)
    BY <1>0, <2>2, <2>3
  <2> QED  BY <2>5, <2>6
<1>3. f \in Bijection(0..(IterNum - 1), Own(t))
  <2>1. f \in [0..(IterNum - 1) -> Own(t)]
    BY <1>1
  <2>2. ASSUME NEW j \in 0..(IterNum - 1), NEW k \in 0..(IterNum - 1), f[j] = f[k]
        PROVE  j = k
    <3>1. (j - k) * ThreadNum = 0
      BY <1>0, <2>2
    <3> QED  BY <1>0, <3>1
  <2>3. \A e \in Own(t) : \E k \in 0..(IterNum - 1) : f[k] = e
    BY <1>2
  <2> HIDE DEF f, nth
  <2>4. f \in Injection(0..(IterNum - 1), Own(t))
    BY <2>1, <2>2 DEF Injection, IsInjective
  <2>5. f \in Surjection(0..(IterNum - 1), Own(t))
    BY <2>1, <2>3 DEF Surjection
  <2> QED  BY <2>4, <2>5 DEF Bijection
<1>4. IsFiniteSet(0..(IterNum - 1)) /\ Cardinality(0..(IterNum - 1)) = IterNum
  BY <1>0, FS_Interval
<1> QED  BY <1>3, <1>4, FS_Bijection DEF ExistsBijection

\* A thread that has measured every list has counted at least its own elements
\* and at most all of them (lab2_list.c:168-209).
THEOREM ObjectMeasuresOwn == Spec => []MeasuresOwn
<1>1. Init => TotalBounded
  <2> SUFFICES ASSUME Init, NEW t \in Threads
               PROVE  /\ Cardinality(OwnMeasured(t)) <= total[t]
                      /\ total[t] <= Cardinality(AllMeasured(t))
    BY DEF TotalBounded
  <2>1. OwnMeasured(t) = {} /\ AllMeasured(t) = {}
    BY DEF Init, OwnMeasured, AllMeasured
  <2> QED  BY <2>1, FS_EmptySet DEF Init
<1>2. TypeOK /\ TotalBounded => MeasuresOwn
  <2> SUFFICES ASSUME TypeOK, TotalBounded, NEW t \in Threads, measured[t] = Lists
               PROVE  total[t] \in IterNum..(ThreadNum * IterNum)
    BY DEF MeasuresOwn
  <2>1. \A e \in Elements : Place[key[e]] \in Lists
    BY ObjectAssumption DEF TypeOK, Lists
  <2>2. OwnMeasured(t) = Own(t) /\ AllMeasured(t) = Elements
    BY <2>1 DEF OwnMeasured, AllMeasured, Own
  <2>3. IterNum <= total[t] /\ total[t] <= ThreadNum * IterNum
    BY <2>2, OwnSize, ElementsFinite DEF TotalBounded
  <2>4. total[t] \in Nat /\ IterNum \in Nat /\ ThreadNum * IterNum \in Nat
    BY ObjectAssumption DEF TypeOK
  <2> QED  BY <2>3, <2>4
<1> QED  BY <1>1, <1>2, TotalStep, SpecBalance, PTL DEF Spec
=============================================================================

------------------------ MODULE SummaryAudit_proofs ------------------------
(* For every set of images: the summary of an image lists its free blocks and *)
(* inodes, its inodes, their entries and their trees of blocks, each once;    *)
(* the audit of the blocks is right whatever the order of the other lines and *)
(* whatever is wrong with them: it reports the unreferenced blocks exactly,   *)
(* names every inode that shares a block, and ends with the right status.     *)
(* Of images with proper directories, all three audits are silent if they are *)
(* consistent, and only then but for the rules that no audit stands for.      *)
EXTENDS SummaryAudit, FiniteSetTheorems, TLAPS

\* The literals of FreeInode are numbers, and no data block has number 0.
LEMMA DataBlockIsPositive ==
  /\ NDir \in Nat
  /\ FreeInode \in Nat \ {0}
  /\ \A b \in DataBlocks : b \in Int /\ b >= FreeInode /\ b <= NumBlocks - 1 /\ b > 0
<1>1. NumInodes \div InodesPerBlock \in Nat
  BY ImageAssumption
<1>2. FreeInode \in Nat \ {0}
  BY <1>1, ImageAssumption DEF FreeInode
<1> QED  BY <1>2, ImageAssumption DEF DataBlocks

\* A data block may be used.
LEMMA DataBlockIsRight ==
  ASSUME NEW b \in DataBlocks, NEW level, NEW n
  PROVE  BlockError(level, b, n) = {}
  BY DataBlockIsPositive, ImageAssumption DEF BlockError

\* The lines of a summary.
LEMMA LineIsTyped ==
  ASSUME NEW l \in Line
  PROVE  /\ l.kind \in {"BFREE", "IFREE", "INODE", "DIRENT", "INDIRECT"}
         /\ l.kind \in {"INODE", "INDIRECT"} => l.inode \in Nat \ {0}
         /\ l.kind = "INODE" => l.block \in [Slots -> Int]
  BY DEF Line

\* The places and the lines of the file.
LEMMA FileIsTyped ==
  ASSUME file \in Seq(Line)
  PROVE  /\ Len(file) \in Nat
         /\ DOMAIN file = 1..Len(file)
         /\ \A k \in DOMAIN file : k \in Nat \ {0} /\ file[k] \in Line
  OBVIOUS

-----------------------------------------------------------------------------
(* Induction on the natural numbers, and recursive functions.                *)

\* A set with 0 and the successor of each of its numbers has every number.
LEMMA SetInduction ==
  ASSUME NEW S, 0 \in S, \A n \in Nat : n \in S => n + 1 \in S
  PROVE  \A n \in Nat : n \in S
<1> DEFINE T == Nat \ S
<1>1. SUFFICES ASSUME T # {} PROVE FALSE
  OBVIOUS
<1>2. PICK x \in T : \A y \in T : ~ (<<y, x>> \in OpToRel(<, Nat))
  <2> HIDE DEF T
  <2>1. T \subseteq Nat
    BY DEF T
  <2> QED  BY <1>1, <2>1, NatLessThanWellFounded, WFMin
<1>3. x \in Nat /\ x # 0
  OBVIOUS
<1>4. x - 1 \in Nat /\ <<x - 1, x>> \in OpToRel(<, Nat)
  <2>1. x - 1 \in Nat /\ x - 1 < x
    BY <1>3
  <2> QED  BY <1>3, <2>1 DEF OpToRel
<1>5. x - 1 \notin T
  BY <1>2, <1>4
<1>6. x - 1 \in S
  BY <1>4, <1>5
<1>7. x - 1 + 1 = x
  BY <1>3
<1> QED  BY <1>2, <1>4, <1>6, <1>7

\* f has a first value and makes a step to each other one.
Follows(f, N, first, step) == f[0] = first /\ \A k \in 1..N : f[k] = step[k][f[k - 1]]

\* There is a function of any first value and any steps.
LEMMA Recursion ==
  ASSUME NEW N \in Nat, NEW S, NEW first \in S, NEW step \in [1..N -> [S -> S]]
  PROVE  \E f \in [0..N -> S] : Follows(f, N, first, step)
<1> DEFINE Good(n, f) == f[0] = first /\ \A k \in 1..n : f[k] = step[k][f[k - 1]]
           T == {n \in Nat : n <= N => \E f \in [0..n -> S] : Good(n, f)}
<1>1. 0 \in T
  <2> DEFINE g == [k \in 0..0 |-> first]
  <2>1. g \in [0..0 -> S] /\ Good(0, g)
    OBVIOUS
  <2> QED  BY <2>1
<1>2. ASSUME NEW n \in Nat, n \in T PROVE n + 1 \in T
  <2> SUFFICES ASSUME n + 1 <= N PROVE \E f \in [0..n+1 -> S] : Good(n + 1, f)
    OBVIOUS
  <2>1. PICK f \in [0..n -> S] : Good(n, f)
    BY <1>2
  <2> DEFINE g == [k \in 0..n+1 |-> IF k = n + 1 THEN step[n + 1][f[n]] ELSE f[k]]
  <2>2. step[n + 1] \in [S -> S] /\ f[n] \in S
    OBVIOUS
  <2>3. g \in [0..n+1 -> S]
    BY <2>2
  <2>4. g[0] = first
    BY <2>1
  <2>5. ASSUME NEW k \in 1..n+1 PROVE g[k] = step[k][g[k - 1]]
    <3>1. CASE k = n + 1
      <4>1. k - 1 = n
        BY <3>1
      <4>2. g[k - 1] = f[n]
        BY <4>1
      <4> QED  BY <3>1, <4>2
    <3>2. CASE k # n + 1
      <4>1. k \in 1..n /\ k - 1 \in 0..n /\ k - 1 # n + 1
        BY <3>2
      <4> QED  BY <2>1, <4>1
    <3> QED  BY <3>1, <3>2
  <2> QED  BY <2>3, <2>4, <2>5
<1>3. N \in T
  <2> HIDE DEF T
  <2> QED  BY <1>1, <1>2, SetInduction
<1> QED  BY <1>3 DEF Follows

\* A flattened sequence is built from its front parts.
LEMMA FlattenBuilds ==
  ASSUME NEW S, NEW s \in Seq(Seq(S))
  PROVE  \E f \in [0..Len(s) -> Seq(S)] :
           /\ f[0] = <<>> /\ FlattenSeq(s) = f[Len(s)]
           /\ \A k \in 1..Len(s) : f[k] = f[k - 1] \o s[k]
<1> DEFINE N == Len(s)
           more == [k \in 1..N |-> [t \in Seq(S) |-> t \o s[k]]]
<1>1. N \in Nat /\ <<>> \in Seq(S) /\ \A k \in 1..N : s[k] \in Seq(S)
  OBVIOUS
<1>2. more \in [1..N -> [Seq(S) -> Seq(S)]]
  BY <1>1
<1>3. PICK f \in [0..N -> Seq(S)] :
        f[0] = <<>> /\ \A k \in 1..N : f[k] = more[k][f[k - 1]]
  <2> DEFINE Q == Seq(S)
             none == <<>>
  <2>1. N \in Nat /\ none \in Q /\ more \in [1..N -> [Q -> Q]]
    BY <1>1, <1>2
  <2> HIDE DEF more, N, Q, none
  <2>2. \E f \in [0..N -> Q] : Follows(f, N, none, more)
    BY <2>1, Recursion
  <2> QED  BY <2>2 DEF Q, none, Follows
<1>4. ASSUME NEW k \in 1..N PROVE f[k - 1] \in Seq(S) /\ f[k] = f[k - 1] \o s[k]
  <2>1. f[k - 1] \in Seq(S)
    <3> HIDE DEF N
    <3>1. k - 1 \in 0..N
      BY <1>1
    <3> QED  BY <1>3, <3>1
  <2>2. f[k] = more[k][f[k - 1]]
    BY <1>3
  <2>3. more[k][f[k - 1]] = f[k - 1] \o s[k]
    BY <2>1
  <2> QED  BY <2>1, <2>2, <2>3
<1>5. CASE N = 0
  <2>1. s = <<>> /\ FlattenSeq(s) = s
    BY <1>5 DEF FlattenSeq
  <2> QED  BY <1>3, <1>4, <1>5, <2>1
<1>6. CASE N # 0
  <2> DEFINE Rec(g) == g = [i \in 1..N |-> IF i = 1 THEN s[i] ELSE g[i - 1] \o s[i]]
             h == CHOOSE g : Rec(g)
  <2>1. FlattenSeq(s) = h[N]
    BY <1>6 DEF FlattenSeq
  <2>2. Rec(h)
    <3> DEFINE g == [i \in 1..N |-> f[i]]
    <3>1. ASSUME NEW i \in 1..N PROVE g[i] = IF i = 1 THEN s[i] ELSE g[i - 1] \o s[i]
      <4>1. f[i] = f[i - 1] \o s[i]
        BY <1>4
      <4>2. CASE i = 1
        <5>1. <<>> \o s[1] = s[1] /\ f[0] = <<>>
          BY <1>1, <1>3, <1>6
        <5>2. f[i] = f[0] \o s[i]
          BY <4>1, <4>2
        <5> QED  BY <4>2, <5>1, <5>2
      <4>3. CASE i # 1
        <5>1. i - 1 \in 1..N
          BY <1>1, <4>3
        <5> QED  BY <4>1, <4>3, <5>1
      <4> QED  BY <4>2, <4>3
    <3>2. Rec(g)
      BY <3>1
    <3> HIDE DEF Rec, g
    <3> QED  BY <3>2
  <2>3. \A i \in 1..N : h[i] = IF i = 1 THEN s[i] ELSE h[i - 1] \o s[i]
    <3> HIDE DEF h, N
    <3> QED  BY <2>2
  <2>8. \A i \in 1..N : i # 1 => h[i] = h[i - 1] \o s[i]
    <3> HIDE DEF h, N
    <3> QED  BY <2>3
  <2>9. h[1] = s[1]
    <3>1. 1 \in 1..N
      BY <1>1, <1>6
    <3> HIDE DEF h, N
    <3> QED  BY <2>3, <3>1
  <2> HIDE DEF h
  <2>10. ASSUME NEW m \in 1..N, m # 1, h[m - 1] = f[m - 1] PROVE h[m] = f[m]
    <3>1. h[m] = h[m - 1] \o s[m]
      BY <2>8, <2>10
    <3>2. f[m] = f[m - 1] \o s[m]
      BY <1>4
    <3> QED  BY <2>10, <3>1, <3>2
  <2>11. f[1] = s[1]
    <3>1. ASSUME NEW k \in 1..N, k = 1 PROVE f[k] = s[k]
      <4>1. f[k] = f[k - 1] \o s[k]
        BY <1>4
      <4>2. f[k - 1] = <<>> /\ <<>> \o s[k] = s[k]
        BY <1>1, <1>3, <3>1
      <4> QED  BY <4>1, <4>2
    <3> QED  BY <1>1, <1>6, <3>1
  <2> DEFINE T == {n \in Nat : n \in 1..N => h[n] = f[n]}
  <2>4. 0 \in T
    OBVIOUS
  <2>5. ASSUME NEW n \in Nat, n \in T PROVE n + 1 \in T
    <3> SUFFICES ASSUME n + 1 \in 1..N PROVE h[n + 1] = f[n + 1]
      OBVIOUS
    <3>1. CASE n = 0
      BY <2>9, <2>11, <3>1
    <3>2. CASE n # 0
      <4>1. n \in 1..N /\ n + 1 # 1 /\ n + 1 - 1 = n
        BY <1>1, <3>2
      <4>2. h[n] = f[n]
        BY <2>5, <4>1
      <4> QED  BY <2>10, <4>1, <4>2
    <3> QED  BY <3>1, <3>2
  <2>6. N \in T
    <3> HIDE DEF T
    <3> QED  BY <1>1, <2>4, <2>5, SetInduction
  <2>7. h[N] = f[N]
    BY <1>1, <1>6, <2>6
  <2> QED  BY <1>3, <1>4, <2>1, <2>7
<1> QED  BY <1>5, <1>6

-----------------------------------------------------------------------------
(* Lists of things: every thing is on a list once.                           *)

\* f says which of the things P each element of L stands for.
Stands(f, L, P, R) ==
  /\ \A k \in DOMAIN L : <<L[k], f[k]>> \in R
  /\ \A p \in P : \E k \in DOMAIN L : f[k] = p
  /\ \A j, k \in DOMAIN L : f[j] = f[k] => j = k

\* Each of the things P has an element of L of its own, to which R relates it,
\* and there are no other elements.
Listed(L, P, R) == \E f \in [DOMAIN L -> P] : Stands(f, L, P, R)

\* The empty list.
LEMMA ListedNothing == ASSUME NEW R PROVE Listed(<<>>, {}, R)
<1> DEFINE f == [k \in DOMAIN <<>> |-> 0]
<1>1. f \in [DOMAIN <<>> -> {}] /\ Stands(f, <<>>, {}, R)
  BY DEF Stands
<1> QED  BY <1>1 DEF Listed

\* A list of one element.
LEMMA ListedOne ==
  ASSUME NEW R, NEW e, NEW p, <<e, p>> \in R
  PROVE  Listed(<<e>>, {p}, R)
<1> DEFINE f == [k \in 1..1 |-> p]
<1>1. DOMAIN <<e>> = 1..1 /\ <<e>>[1] = e
  OBVIOUS
<1>2. f \in [DOMAIN <<e>> -> {p}] /\ Stands(f, <<e>>, {p}, R)
  BY <1>1 DEF Stands
<1> QED  BY <1>2 DEF Listed

\* Two lists of different things, one behind the other.
LEMMA ListedConcat ==
  ASSUME NEW S, NEW L \in Seq(S), NEW M \in Seq(S), NEW P, NEW Q, NEW R,
         Listed(L, P, R), Listed(M, Q, R), P \cap Q = {}
  PROVE  Listed(L \o M, P \cup Q, R)
<1>1. PICK f \in [DOMAIN L -> P] : Stands(f, L, P, R)
  BY DEF Listed
<1>2. PICK g \in [DOMAIN M -> Q] : Stands(g, M, Q, R)
  BY DEF Listed
<1> DEFINE l == Len(L)
           m == Len(M)
           h == [k \in 1..l + m |-> IF k <= l THEN f[k] ELSE g[k - l]]
<1>3. /\ l \in Nat /\ m \in Nat /\ DOMAIN L = 1..l /\ DOMAIN M = 1..m
      /\ DOMAIN (L \o M) = 1..l + m
      /\ \A k \in 1..l : (L \o M)[k] = L[k]
      /\ \A k \in 1..m : (L \o M)[l + k] = M[k]
  OBVIOUS
<1> HIDE DEF l, m
<1>4. \A k \in 1..l : h[k] = f[k] /\ h[k] \in P /\ k \in 1..l + m
  BY <1>3
<1>5. \A k \in 1..m : h[l + k] = g[k] /\ h[l + k] \in Q /\ l + k \in 1..l + m
  BY <1>3
<1>6. \A k \in 1..l + m : k \in 1..l \/ \E j \in 1..m : k = l + j
  <2> SUFFICES ASSUME NEW k \in 1..l + m, k \notin 1..l PROVE \E j \in 1..m : k = l + j
    OBVIOUS
  <2>1. k - l \in 1..m /\ k = l + (k - l)
    BY <1>3
  <2> QED  BY <2>1
<1>7. DOMAIN h = 1..l + m
  OBVIOUS
<1> HIDE DEF h
<1>8. h \in [DOMAIN (L \o M) -> P \cup Q]
  <2>1. \A k \in 1..l + m : h[k] \in P \cup Q
    BY <1>4, <1>5, <1>6
  <2>2. h = [k \in 1..l + m |-> h[k]]
    <3>1. h = [k \in 1..l + m |-> IF k <= l THEN f[k] ELSE g[k - l]]
      BY DEF h
    <3> QED  BY <3>1
  <2> QED  BY <1>3, <2>1, <2>2
<1>9. \A k \in DOMAIN (L \o M) : <<(L \o M)[k], h[k]>> \in R
  <2>1. \A k \in 1..l : <<(L \o M)[k], h[k]>> \in R
    BY <1>1, <1>3, <1>4 DEF Stands
  <2>2. \A k \in 1..m : <<(L \o M)[l + k], h[l + k]>> \in R
    BY <1>2, <1>3, <1>5 DEF Stands
  <2> QED  BY <1>3, <1>6, <2>1, <2>2
<1>10. \A p \in P \cup Q : \E k \in DOMAIN (L \o M) : h[k] = p
  <2>1. ASSUME NEW p \in P PROVE \E k \in DOMAIN (L \o M) : h[k] = p
    BY <1>1, <1>3, <1>4 DEF Stands
  <2>2. ASSUME NEW p \in Q PROVE \E k \in DOMAIN (L \o M) : h[k] = p
    <3>1. PICK k \in 1..m : g[k] = p
      BY <1>2, <1>3 DEF Stands
    <3> QED  BY <1>3, <1>5, <3>1
  <2> QED  BY <2>1, <2>2
<1>11. ASSUME NEW j \in DOMAIN (L \o M), NEW k \in DOMAIN (L \o M), h[j] = h[k]
       PROVE  j = k
  <2>1. CASE j \in 1..l /\ k \in 1..l
    BY <1>1, <1>3, <1>4, <1>11, <2>1 DEF Stands
  <2>2. ASSUME NEW i \in 1..m, NEW n \in 1..m, j = l + i, k = l + n PROVE j = k
    <3>1. g[i] = g[n]
      BY <1>5, <1>11, <2>2
    <3> QED  BY <1>2, <1>3, <2>2, <3>1 DEF Stands
  <2>3. ASSUME NEW i \in 1..l, NEW n \in 1..m, (j = i /\ k = l + n) \/ (k = i /\ j = l + n)
        PROVE  FALSE
    <3>1. h[i] \in P /\ h[l + n] \in Q
      BY <1>4, <1>5
    <3> QED  BY <1>11, <2>3, <3>1
  <2>4. j \in 1..l + m /\ k \in 1..l + m
    BY <1>3
  <2>5. CASE j \in 1..l /\ k \notin 1..l
    <3>1. PICK n \in 1..m : k = l + n
      BY <1>6, <2>4, <2>5
    <3>2. h[j] \in P /\ h[l + n] \in Q
      BY <1>4, <1>5, <2>5
    <3> QED  BY <1>11, <3>1, <3>2
  <2>6. CASE j \notin 1..l /\ k \in 1..l
    <3>1. PICK n \in 1..m : j = l + n
      BY <1>6, <2>4, <2>6
    <3> QED  BY <2>3, <2>6, <3>1
  <2>7. CASE j \notin 1..l /\ k \notin 1..l
    <3>1. PICK i \in 1..m : j = l + i
      BY <1>6, <2>4, <2>7
    <3>2. PICK n \in 1..m : k = l + n
      BY <1>6, <2>4, <2>7
    <3> QED  BY <2>2, <3>1, <3>2
  <2> QED  BY <2>1, <2>5, <2>6, <2>7
<1> QED  BY <1>8, <1>9, <1>10, <1>11 DEF Stands, Listed

\* Lists of different things, flattened.
LEMMA ListedFlatten ==
  ASSUME NEW S, NEW s \in Seq(Seq(S)), NEW P, NEW R,
         \A i \in 1..Len(s) : Listed(s[i], P[i], R),
         \A i, j \in 1..Len(s) : i # j => P[i] \cap P[j] = {}
  PROVE  /\ FlattenSeq(s) \in Seq(S)
         /\ Listed(FlattenSeq(s), UNION {P[i] : i \in 1..Len(s)}, R)
<1> DEFINE N == Len(s)
           Upto(n) == UNION {P[i] : i \in 1..n}
<1>1. PICK f \in [0..N -> Seq(S)] :
        /\ f[0] = <<>> /\ FlattenSeq(s) = f[N]
        /\ \A k \in 1..N : f[k] = f[k - 1] \o s[k]
  BY FlattenBuilds
<1>2. N \in Nat /\ \A k \in 1..N : s[k] \in Seq(S)
  OBVIOUS
<1> DEFINE T == {n \in Nat : n <= N => Listed(f[n], Upto(n), R)}
<1>3. 0 \in T
  <2>1. Upto(0) = {}
    OBVIOUS
  <2> QED  BY <1>1, <2>1, ListedNothing
<1>4. ASSUME NEW n \in Nat, n \in T PROVE n + 1 \in T
  <2> SUFFICES ASSUME n + 1 <= N PROVE Listed(f[n + 1], Upto(n + 1), R)
    OBVIOUS
  <2>1. n + 1 \in 1..N /\ n \in 0..N /\ n + 1 - 1 = n
    BY <1>2
  <2>2. Upto(n + 1) = Upto(n) \cup P[n + 1]
    <3>1. 1..n + 1 = (1..n) \cup {n + 1}
      BY <1>4
    <3> QED  BY <3>1
  <2>3. Upto(n) \cap P[n + 1] = {}
    <3>1. \A i \in 1..n : i \in 1..N /\ i # n + 1
      BY <1>2, <2>1
    <3> QED  BY <2>1, <3>1
  <2>4. f[n] \in Seq(S) /\ s[n + 1] \in Seq(S) /\ f[n + 1] = f[n] \o s[n + 1]
    <3>1. ASSUME NEW k \in 1..N, k = n + 1 PROVE f[k] = f[n] \o s[k]
      <4>1. k - 1 = n
        BY <3>1
      <4>2. f[k] = f[k - 1] \o s[k]
        BY <1>1, Zenon
      <4> QED  BY <4>1, <4>2
    <3> QED  BY <1>1, <1>2, <2>1, <3>1
  <2>5. Listed(f[n], Upto(n), R) /\ Listed(s[n + 1], P[n + 1], R)
    BY <1>2, <1>4, <2>1
  <2> HIDE DEF Upto
  <2>6. Listed(f[n] \o s[n + 1], Upto(n) \cup P[n + 1], R)
    BY <2>3, <2>4, <2>5, ListedConcat
  <2> QED  BY <2>2, <2>4, <2>6
<1>5. N \in T
  <2> HIDE DEF T
  <2> QED  BY <1>2, <1>3, <1>4, SetInduction
<1> QED  BY <1>1, <1>2, <1>5

\* The same list, of things of another name.
LEMMA ListedAs ==
  ASSUME NEW L, NEW P, NEW R, NEW Q, NEW h \in [P -> Q], NEW R2, Listed(L, P, R),
         \A q \in Q : \E p \in P : h[p] = q,
         \A p, q \in P : h[p] = h[q] => p = q,
         \A k \in DOMAIN L : \A p \in P : <<L[k], p>> \in R => <<L[k], h[p]>> \in R2
  PROVE  Listed(L, Q, R2)
<1>1. PICK f \in [DOMAIN L -> P] : Stands(f, L, P, R)
  BY DEF Listed
<1> DEFINE g == [k \in DOMAIN L |-> h[f[k]]]
<1>2. g \in [DOMAIN L -> Q]
  OBVIOUS
<1>3. \A k \in DOMAIN L : <<L[k], g[k]>> \in R2
  BY <1>1 DEF Stands
<1>4. \A q \in Q : \E k \in DOMAIN L : g[k] = q
  BY <1>1 DEF Stands
<1>5. \A j, k \in DOMAIN L : g[j] = g[k] => j = k
  BY <1>1 DEF Stands
<1> QED  BY <1>2, <1>3, <1>4, <1>5 DEF Stands, Listed

-----------------------------------------------------------------------------
(* The blocks below a block, and their places in the file.                   *)

Pointer == 1..PerBlock

\* What a block holds, read as pointers.
LEMMA PointersType ==
  ASSUME NEW img, ImageType(img), NEW b
  PROVE  Pointers(img, b) \in [Pointer -> Int]
BY DEF ImageType, Pointers, NoPointers, Pointer

\* The factors are numbers.
LEMMA StrideType == ASSUME NEW level PROVE Stride(level) \in Nat
BY ImageAssumption DEF Stride

\* Products of numbers are numbers.
LEMMA ProductType == ASSUME NEW a \in Nat, NEW b \in Nat PROVE a * b \in Nat
OBVIOUS

\* f is the offset at each entry.
Offsets(f, entry, offset, stride) ==
  /\ f[0] = offset
  /\ \A i \in Pointer : f[i] = IF entry[i] = 0 THEN f[i - 1] ELSE f[i - 1] + (i - 1) * stride

\* There is such an offset.
LEMMA OffsetsExist ==
  ASSUME NEW entry, NEW offset \in Nat, NEW stride \in Nat
  PROVE  /\ OffsetAt(entry, offset, stride) \in [0..PerBlock -> Nat]
         /\ Offsets(OffsetAt(entry, offset, stride), entry, offset, stride)
<1> DEFINE more == [i \in 1..PerBlock |-> [x \in Nat |->
                      IF entry[i] = 0 THEN x ELSE x + (i - 1) * stride]]
<1>1. more \in [1..PerBlock -> [Nat -> Nat]]
  <2>1. \A i \in 1..PerBlock : (i - 1) * stride \in Nat
    BY ImageAssumption, ProductType
  <2>2. ASSUME NEW i \in 1..PerBlock, NEW x \in Nat
        PROVE  (IF entry[i] = 0 THEN x ELSE x + (i - 1) * stride) \in Nat
    <3> DEFINE d == (i - 1) * stride
    <3>1. d \in Nat
      BY <2>1
    <3> HIDE DEF d
    <3>2. x + d \in Nat
      BY <3>1
    <3> QED  BY <3>2 DEF d
  <2> QED  BY <2>2
<1> HIDE DEF more
<1>2. PICK f \in [0..PerBlock -> Nat] : Follows(f, PerBlock, offset, more)
  BY <1>1, ImageAssumption, Recursion
<1> DEFINE Rec(g) == g = [i \in 0..PerBlock |->
                            IF i = 0 THEN offset
                            ELSE IF entry[i] = 0 THEN g[i - 1] ELSE g[i - 1] + (i - 1) * stride]
<1>3. ASSUME NEW i \in 1..PerBlock
      PROVE  f[i] = IF entry[i] = 0 THEN f[i - 1] ELSE f[i - 1] + (i - 1) * stride
  <2>1. f[i] = more[i][f[i - 1]]
    BY <1>2 DEF Follows
  <2>2. i - 1 \in 0..PerBlock
    BY ImageAssumption
  <2>3. f[i - 1] \in Nat
    BY <2>2
  <2> QED  BY <2>1, <2>3 DEF more
<1>4. Rec(f)
  <2>1. \A i \in 0..PerBlock : i # 0 => i \in 1..PerBlock
    BY ImageAssumption
  <2>2. \A i \in 0..PerBlock :
          f[i] = IF i = 0 THEN offset
                 ELSE IF entry[i] = 0 THEN f[i - 1] ELSE f[i - 1] + (i - 1) * stride
    BY <1>2, <1>3, <2>1 DEF Follows
  <2> QED  BY <2>2
<1> DEFINE h == OffsetAt(entry, offset, stride)
<1>5. h = CHOOSE g : Rec(g)
  BY DEF OffsetAt
<1>6. Rec(h)
  <2> HIDE DEF Rec, h
  <2> QED  BY <1>4, <1>5
<1> HIDE DEF h
<1>7. /\ DOMAIN h = 0..PerBlock
      /\ h[0] = offset
      /\ \A i \in 1..PerBlock :
           h[i] = IF entry[i] = 0 THEN h[i - 1] ELSE h[i - 1] + (i - 1) * stride
  <2>1. \A i \in 1..PerBlock : i \in 0..PerBlock /\ i # 0
    BY ImageAssumption
  <2>2. 0 \in 0..PerBlock
    BY ImageAssumption
  <2> QED  BY <1>6, <2>1, <2>2
<1>8. \A i \in 0..PerBlock : h[i] \in Nat
  <2> DEFINE T == {i \in Nat : i <= PerBlock => h[i] \in Nat}
  <2>1. 0 \in T
    BY <1>7
  <2>2. ASSUME NEW i \in Nat, i \in T PROVE i + 1 \in T
    <3> SUFFICES ASSUME NEW j \in 1..PerBlock, j = i + 1 PROVE h[j] \in Nat
      BY ImageAssumption
    <3>1. h[j - 1] \in Nat
      BY <2>2, ImageAssumption
    <3>2. more[j][h[j - 1]] \in Nat
      BY <1>1, <3>1
    <3>3. more[j][h[j - 1]] = h[j]
      BY <1>7, <3>1 DEF more
    <3> QED  BY <3>2, <3>3
  <2>3. \A i \in Nat : i \in T
    <3> HIDE DEF T
    <3> QED  BY <2>1, <2>2, SetInduction
  <2> QED  BY <2>3, ImageAssumption
<1>9. h \in [0..PerBlock -> Nat]
  <2>1. h = [i \in 0..PerBlock |-> h[i]]
    BY <1>6
  <2> QED  BY <1>8, <2>1
<1> QED  BY <1>7, <1>9 DEF Offsets, h, Pointer

\* The offset of an entry in use is not before its place, and is its place if the
\* entries before it, but the first, are not in use.
LEMMA OffsetIsPlace ==
  ASSUME NEW entry, NEW offset \in Nat, NEW stride \in Nat, NEW i \in Pointer, entry[i] # 0
  PROVE  LET at == OffsetAt(entry, offset, stride)
         IN  /\ at[i] \in Nat
             /\ at[i] >= offset + (i - 1) * stride
             /\ (\A j \in 2..i-1 : entry[j] = 0) => at[i] = offset + (i - 1) * stride
<1> DEFINE f == OffsetAt(entry, offset, stride)
<1>1. f \in [0..PerBlock -> Nat] /\ Offsets(f, entry, offset, stride)
  BY OffsetsExist
<1> HIDE DEF f
<1>2. i \in Nat \ {0} /\ i <= PerBlock /\ i \in 1..PerBlock /\ i - 1 \in 0..PerBlock
  BY ImageAssumption DEF Pointer
<1>3. f[i] = f[i - 1] + (i - 1) * stride
  BY <1>1 DEF Offsets
<1>4. (i - 1) * stride \in Nat
  BY <1>2, ProductType
<1>5. \A k \in 0..PerBlock : f[k] >= offset
  <2> DEFINE T == {k \in Nat : k <= PerBlock => f[k] >= offset}
  <2>1. 0 \in T
    BY <1>1 DEF Offsets
  <2>2. ASSUME NEW k \in Nat, k \in T PROVE k + 1 \in T
    <3> SUFFICES ASSUME NEW j \in 1..PerBlock, j = k + 1 PROVE f[j] >= offset
      BY ImageAssumption
    <3>1. f[j - 1] >= offset /\ f[j - 1] \in Nat
      BY <1>1, <2>2, ImageAssumption
    <3>2. (j - 1) * stride \in Nat
      BY ProductType
    <3>3. f[j] = f[j - 1] \/ f[j] = f[j - 1] + (j - 1) * stride
      BY <1>1 DEF Offsets, Pointer
    <3> DEFINE d == (j - 1) * stride
    <3> HIDE DEF d
    <3>4. f[j] = f[j - 1] \/ f[j] = f[j - 1] + d
      BY <3>3 DEF d
    <3>5. d \in Nat
      BY <3>2 DEF d
    <3> QED  BY <3>1, <3>4, <3>5
  <2>3. \A k \in Nat : k \in T
    <3> HIDE DEF T
    <3> QED  BY <2>1, <2>2, SetInduction
  <2> QED  BY <2>3, ImageAssumption
<1>6. ASSUME \A j \in 2..i-1 : entry[j] = 0 PROVE f[i - 1] = offset
  <2> DEFINE T == {k \in Nat : k <= i - 1 => f[k] = offset}
  <2>1. 0 \in T
    BY <1>1 DEF Offsets
  <2>2. ASSUME NEW k \in Nat, k \in T PROVE k + 1 \in T
    <3> SUFFICES ASSUME NEW j \in 1..i-1, j = k + 1 PROVE f[j] = offset
      BY <1>2
    <3>1. f[j - 1] = offset
      BY <1>2, <2>2
    <3>2. f[j] = IF entry[j] = 0 THEN f[j - 1] ELSE f[j - 1] + (j - 1) * stride
      <4>1. j \in Pointer
        BY <1>2, ImageAssumption DEF Pointer
      <4> QED  BY <1>1, <4>1 DEF Offsets
    <3>3. CASE j = 1
      <4>1. (j - 1) * stride = 0
        BY <3>3
      <4> QED  BY <3>1, <3>2, <4>1
    <3>4. CASE j # 1
      <4>1. j \in 2..i-1
        BY <3>4
      <4> QED  BY <1>6, <3>1, <3>2, <4>1
    <3> QED  BY <3>3, <3>4
  <2>3. i - 1 \in T
    <3>1. i - 1 \in Nat
      BY <1>2
    <3> HIDE DEF T
    <3> QED  BY <2>1, <2>2, <3>1, SetInduction
  <2> QED  BY <1>2, <2>3
<1> DEFINE d == (i - 1) * stride
<1> HIDE DEF d
<1>7. f[i] = f[i - 1] + d /\ d \in Nat
  BY <1>3, <1>4 DEF d
<1>8. f[i - 1] \in Nat /\ f[i - 1] >= offset
  BY <1>1, <1>2, <1>5
<1>9. f[i] \in Nat /\ f[i] >= offset + d
  BY <1>7, <1>8
<1> QED  BY <1>6, <1>7, <1>9 DEF f, d

-----------------------------------------------------------------------------
(* The blocks that some indices lead to, and how many are before them.       *)

\* f is where the indices q lead to from block b, one after the other.
Leads(f, img, b, q) ==
  /\ f[0] = b
  /\ \A k \in 1..Len(q) : f[k] = IF f[k - 1] = 0 THEN 0 ELSE Pointers(img, f[k - 1])[q[k]]

\* They lead somewhere.
LEMMA BelowLeads ==
  ASSUME NEW img, ImageType(img), NEW b \in Int, NEW q \in Seq(Pointer)
  PROVE  \E f \in [0..Len(q) -> Int] : Leads(f, img, b, q) /\ Below(img, b, q) = f[Len(q)]
<1> DEFINE N == Len(q)
           more == [k \in 1..N |-> [x \in Int |->
                      IF x = 0 THEN 0 ELSE Pointers(img, x)[q[k]]]]
<1>1. N \in Nat /\ \A k \in 1..N : q[k] \in Pointer
  OBVIOUS
<1>2. more \in [1..N -> [Int -> Int]]
  BY <1>1, PointersType
<1> HIDE DEF more
<1>3. PICK f \in [0..N -> Int] : Follows(f, N, b, more)
  BY <1>1, <1>2, Recursion
<1> DEFINE Rec(g) == g = [k \in 0..N |->
                            IF k = 0 THEN b
                            ELSE IF g[k - 1] = 0 THEN 0 ELSE Pointers(img, g[k - 1])[q[k]]]
<1>4. ASSUME NEW k \in 1..N
      PROVE  f[k] = IF f[k - 1] = 0 THEN 0 ELSE Pointers(img, f[k - 1])[q[k]]
  <2>1. f[k] = more[k][f[k - 1]]
    BY <1>3 DEF Follows
  <2>2. f[k - 1] \in Int
    BY <1>1
  <2> QED  BY <2>1, <2>2 DEF more
<1>5. Rec(f)
  <2>1. \A k \in 0..N : k # 0 => k \in 1..N
    BY <1>1
  <2>2. \A k \in 0..N :
          f[k] = IF k = 0 THEN b
                 ELSE IF f[k - 1] = 0 THEN 0 ELSE Pointers(img, f[k - 1])[q[k]]
    BY <1>3, <1>4, <2>1 DEF Follows
  <2> QED  BY <2>2
<1> DEFINE h == CHOOSE g : Rec(g)
<1>6. Below(img, b, q) = h[N]
  BY DEF Below
<1>7. Rec(h)
  <2> HIDE DEF Rec
  <2> QED  BY <1>5
<1> HIDE DEF h
<1>8. /\ h[0] = b
      /\ \A k \in 1..N : h[k] = IF h[k - 1] = 0 THEN 0 ELSE Pointers(img, h[k - 1])[q[k]]
  <2>1. \A k \in 1..N : k \in 0..N /\ k # 0
    BY <1>1
  <2>2. 0 \in 0..N
    BY <1>1
  <2> QED  BY <1>7, <2>1, <2>2
<1>9. \A k \in 0..N : h[k] = f[k]
  <2> DEFINE T == {k \in Nat : k <= N => h[k] = f[k]}
  <2>1. 0 \in T
    BY <1>3, <1>8 DEF Follows
  <2>2. ASSUME NEW k \in Nat, k \in T PROVE k + 1 \in T
    <3> SUFFICES ASSUME NEW j \in 1..N, j = k + 1 PROVE h[j] = f[j]
      BY <1>1
    <3>1. h[j - 1] = f[j - 1]
      BY <1>1, <2>2
    <3> QED  BY <1>4, <1>8, <3>1
  <2>3. \A k \in Nat : k \in T
    <3> HIDE DEF T
    <3> QED  BY <2>1, <2>2, SetInduction
  <2> QED  BY <1>1, <2>3
<1>10. Leads(f, img, b, q)
  BY <1>3, <1>4 DEF Leads, Follows
<1>11. h[N] = f[N]
  BY <1>1, <1>9
<1> QED  BY <1>6, <1>10, <1>11

\* There is one place that they lead to.
LEMMA LeadsBelow ==
  ASSUME NEW img, ImageType(img), NEW b \in Int, NEW q \in Seq(Pointer),
         NEW g, Leads(g, img, b, q)
  PROVE  Below(img, b, q) = g[Len(q)] /\ g[Len(q)] \in Int
<1> DEFINE N == Len(q)
<1>1. N \in Nat
  OBVIOUS
<1>2. PICK f \in [0..N -> Int] : Leads(f, img, b, q) /\ Below(img, b, q) = f[N]
  BY BelowLeads
<1> DEFINE T == {k \in Nat : k <= N => g[k] = f[k]}
<1>3. 0 \in T
  BY <1>2 DEF Leads
<1>4. ASSUME NEW k \in Nat, k \in T PROVE k + 1 \in T
  <2> SUFFICES ASSUME NEW j \in 1..N, j = k + 1 PROVE g[j] = f[j]
    BY <1>1
  <2>1. g[j - 1] = f[j - 1]
    BY <1>1, <1>4
  <2> QED  BY <1>2, <2>1 DEF Leads
<1>5. N \in T
  <2> HIDE DEF T
  <2> QED  BY <1>1, <1>3, <1>4, SetInduction
<1> QED  BY <1>1, <1>2, <1>5

\* No index leads to the block itself.
LEMMA BelowNone ==
  ASSUME NEW img, ImageType(img), NEW b \in Int
  PROVE  Below(img, b, <<>>) = b
<1> DEFINE g == [k \in 0..0 |-> b]
<1>1. <<>> \in Seq(Pointer) /\ Len(<<>>) = 0
  OBVIOUS
<1>2. Leads(g, img, b, <<>>)
  BY <1>1 DEF Leads
<1> QED  BY <1>1, <1>2, LeadsBelow

\* Nothing is below no block.
LEMMA BelowZero ==
  ASSUME NEW img, ImageType(img), NEW q \in Seq(Pointer)
  PROVE  Below(img, 0, q) = 0
<1> DEFINE g == [k \in 0..Len(q) |-> 0]
<1>1. Len(q) \in Nat
  OBVIOUS
<1>2. Leads(g, img, 0, q)
  BY <1>1 DEF Leads
<1>3. g[Len(q)] = 0
  BY <1>1
<1> HIDE DEF g
<1> QED  BY <1>2, <1>3, LeadsBelow

\* A sequence behind one element.
LEMMA PutFirst ==
  ASSUME NEW S, NEW i \in S, NEW r \in Seq(S)
  PROVE  /\ <<i>> \o r \in Seq(S)
         /\ Len(<<i>> \o r) = Len(r) + 1 /\ Len(r) \in Nat
         /\ (<<i>> \o r)[1] = i
         /\ \A k \in 1..Len(r) : (<<i>> \o r)[k + 1] = r[k]
<1>1. <<i>> \in Seq(S) /\ Len(<<i>>) = 1 /\ <<i>>[1] = i
  OBVIOUS
<1> QED  BY <1>1

\* The first index leads to an entry of the block.
LEMMA BelowFirst ==
  ASSUME NEW img, ImageType(img), NEW b \in Int \ {0}, NEW i \in Pointer,
         NEW r \in Seq(Pointer)
  PROVE  /\ Below(img, b, <<i>> \o r) = Below(img, Pointers(img, b)[i], r)
         /\ Below(img, b, <<i>> \o r) \in Int
<1> DEFINE q == <<i>> \o r
           N == Len(r)
           c == Pointers(img, b)[i]
<1>1. /\ q \in Seq(Pointer) /\ Len(q) = N + 1 /\ N \in Nat
      /\ q[1] = i /\ \A k \in 1..N : q[k + 1] = r[k]
  <2>1. /\ <<i>> \o r \in Seq(Pointer)
        /\ Len(<<i>> \o r) = Len(r) + 1 /\ Len(r) \in Nat
        /\ (<<i>> \o r)[1] = i
        /\ \A k \in 1..Len(r) : (<<i>> \o r)[k + 1] = r[k]
    BY PutFirst
  <2> QED  BY <2>1
<1>2. c \in Int
  BY PointersType
<1>3. PICK f \in [0..N -> Int] : Leads(f, img, c, r) /\ Below(img, c, r) = f[N]
  BY <1>2, BelowLeads
<1> DEFINE g == [k \in 0..N + 1 |-> IF k = 0 THEN b ELSE f[k - 1]]
<1> HIDE DEF q, c
<1>4. Leads(g, img, b, q)
  <2> SUFFICES \A k \in 1..N + 1 :
                 g[k] = IF g[k - 1] = 0 THEN 0 ELSE Pointers(img, g[k - 1])[q[k]]
    <3>1. g[0] = b
      BY <1>1
    <3>2. Len(q) = N + 1
      BY <1>1
    <3> HIDE DEF g, N
    <3> QED  BY <3>1, <3>2 DEF Leads
  <2> TAKE k \in 1..N + 1
  <2>1. CASE k = 1
    <3>1. g[k] = f[0] /\ g[k - 1] = b
      BY <1>1, <2>1
    <3> QED  BY <1>1, <1>3, <2>1, <3>1 DEF Leads, c
  <2>2. CASE k # 1
    <3>1. PICK j \in 1..N : k = j + 1
      <4>1. k - 1 \in 1..N /\ k = (k - 1) + 1
        BY <1>1, <2>2
      <4> QED  BY <4>1
    <3>2. g[k] = f[j] /\ g[k - 1] = f[j - 1] /\ q[k] = r[j]
      BY <1>1, <3>1
    <3> QED  BY <1>3, <3>2 DEF Leads
  <2> QED  BY <2>1, <2>2
<1>5. g[N + 1] = f[N]
  BY <1>1
<1> HIDE DEF g
<1>6. Below(img, b, q) = f[N] /\ f[N] \in Int
  BY <1>1, <1>4, <1>5, LeadsBelow
<1> QED  BY <1>3, <1>6 DEF q, c

\* g counts the blocks before those that the indices q lead to.
Skips(g, level, q) ==
  /\ g[0] = 0
  /\ \A k \in 1..Len(q) : g[k] = g[k - 1] + (q[k] - 1) * Stride(level + 1 - k)

\* There is such a count.
LEMMA BeforeSkips ==
  ASSUME NEW level \in Int, NEW q \in Seq(Pointer)
  PROVE  \E g \in [0..Len(q) -> Nat] : Skips(g, level, q) /\ Before(level, q) = g[Len(q)]
<1> DEFINE N == Len(q)
           d(k) == (q[k] - 1) * Stride(level + 1 - k)
           more == [k \in 1..N |-> [x \in Nat |-> x + d(k)]]
<1>1. N \in Nat /\ \A k \in 1..N : q[k] \in Pointer
  OBVIOUS
<1>2. \A k \in 1..N : d(k) \in Nat
  <2> SUFFICES ASSUME NEW k \in 1..N PROVE d(k) \in Nat
    OBVIOUS
  <2>1. q[k] - 1 \in Nat
    BY <1>1, ImageAssumption DEF Pointer
  <2> QED  BY <2>1, StrideType, ProductType
<1> HIDE DEF d
<1>3. more \in [1..N -> [Nat -> Nat]]
  BY <1>2
<1> HIDE DEF more
<1>4. PICK f \in [0..N -> Nat] : Follows(f, N, 0, more)
  BY <1>1, <1>3, Recursion
<1> DEFINE Rec(g) == g = [k \in 0..N |-> IF k = 0 THEN 0 ELSE g[k - 1] + d(k)]
<1>5. ASSUME NEW k \in 1..N PROVE f[k] = f[k - 1] + d(k)
  <2>1. f[k] = more[k][f[k - 1]]
    BY <1>4 DEF Follows
  <2>2. f[k - 1] \in Nat
    BY <1>1
  <2> QED  BY <2>1, <2>2 DEF more
<1>6. Rec(f)
  <2>1. \A k \in 0..N : k # 0 => k \in 1..N
    BY <1>1
  <2>2. \A k \in 0..N : f[k] = IF k = 0 THEN 0 ELSE f[k - 1] + d(k)
    BY <1>4, <1>5, <2>1 DEF Follows
  <2> QED  BY <2>2
<1> DEFINE h == CHOOSE g : Rec(g)
<1>7. Before(level, q) = h[N]
  BY DEF Before, d
<1>8. Rec(h)
  <2> HIDE DEF Rec
  <2> QED  BY <1>6
<1> HIDE DEF h
<1>9. h[0] = 0 /\ \A k \in 1..N : h[k] = h[k - 1] + d(k)
  <2>1. \A k \in 1..N : k \in 0..N /\ k # 0
    BY <1>1
  <2>2. 0 \in 0..N
    BY <1>1
  <2> QED  BY <1>8, <2>1, <2>2
<1>10. \A k \in 0..N : h[k] = f[k]
  <2> DEFINE T == {k \in Nat : k <= N => h[k] = f[k]}
  <2>1. 0 \in T
    BY <1>4, <1>9 DEF Follows
  <2>2. ASSUME NEW k \in Nat, k \in T PROVE k + 1 \in T
    <3> SUFFICES ASSUME NEW j \in 1..N, j = k + 1 PROVE h[j] = f[j]
      BY <1>1
    <3>1. h[j - 1] = f[j - 1]
      BY <1>1, <2>2
    <3> QED  BY <1>5, <1>9, <3>1
  <2>3. \A k \in Nat : k \in T
    <3> HIDE DEF T
    <3> QED  BY <2>1, <2>2, SetInduction
  <2> QED  BY <1>1, <2>3
<1>11. Skips(f, level, q)
  BY <1>4, <1>5 DEF Skips, Follows, d
<1>12. h[N] = f[N]
  BY <1>1, <1>10
<1> QED  BY <1>7, <1>11, <1>12

\* There is one such count.
LEMMA SkipsBefore ==
  ASSUME NEW level \in Int, NEW q \in Seq(Pointer), NEW g, Skips(g, level, q)
  PROVE  Before(level, q) = g[Len(q)] /\ g[Len(q)] \in Nat
<1> DEFINE N == Len(q)
<1>1. N \in Nat
  OBVIOUS
<1>2. PICK f \in [0..N -> Nat] : Skips(f, level, q) /\ Before(level, q) = f[N]
  BY BeforeSkips
<1> DEFINE T == {k \in Nat : k <= N => g[k] = f[k]}
<1>3. 0 \in T
  BY <1>2 DEF Skips
<1>4. ASSUME NEW k \in Nat, k \in T PROVE k + 1 \in T
  <2> SUFFICES ASSUME NEW j \in 1..N, j = k + 1 PROVE g[j] = f[j]
    BY <1>1
  <2>1. g[j - 1] = f[j - 1]
    BY <1>1, <1>4
  <2> DEFINE d == (q[j] - 1) * Stride(level + 1 - j)
  <2>2. g[j] = g[j - 1] + d /\ f[j] = f[j - 1] + d
    BY <1>2 DEF Skips
  <2> HIDE DEF d
  <2> QED  BY <2>1, <2>2
<1>5. N \in T
  <2> HIDE DEF T
  <2> QED  BY <1>1, <1>3, <1>4, SetInduction
<1> QED  BY <1>1, <1>2, <1>5

\* No block is before those that no index leads to.
LEMMA BeforeNone == ASSUME NEW level \in Int PROVE Before(level, <<>>) = 0
<1> DEFINE g == [k \in 0..0 |-> 0]
<1>1. <<>> \in Seq(Pointer) /\ Len(<<>>) = 0
  OBVIOUS
<1>2. Skips(g, level, <<>>)
  BY <1>1 DEF Skips
<1> QED  BY <1>1, <1>2, SkipsBefore

\* The first index skips whole blocks of the next level.
LEMMA BeforeFirst ==
  ASSUME NEW level \in Int, NEW i \in Pointer, NEW r \in Seq(Pointer)
  PROVE  /\ Before(level, <<i>> \o r) = (i - 1) * Stride(level) + Before(level - 1, r)
         /\ Before(level - 1, r) \in Nat
<1> DEFINE q == <<i>> \o r
           N == Len(r)
           s == (i - 1) * Stride(level)
<1>1. /\ q \in Seq(Pointer) /\ Len(q) = N + 1 /\ N \in Nat
      /\ q[1] = i /\ \A k \in 1..N : q[k + 1] = r[k]
  <2>1. /\ <<i>> \o r \in Seq(Pointer)
        /\ Len(<<i>> \o r) = Len(r) + 1 /\ Len(r) \in Nat
        /\ (<<i>> \o r)[1] = i
        /\ \A k \in 1..Len(r) : (<<i>> \o r)[k + 1] = r[k]
    BY PutFirst
  <2> QED  BY <2>1
<1>2. s \in Nat
  <2>1. i - 1 \in Nat
    BY ImageAssumption DEF Pointer
  <2> QED  BY <2>1, StrideType, ProductType
<1>3. PICK f \in [0..N -> Nat] : Skips(f, level - 1, r) /\ Before(level - 1, r) = f[N]
  <2>1. level - 1 \in Int
    OBVIOUS
  <2> QED  BY <2>1, BeforeSkips
<1> DEFINE g == [k \in 0..N + 1 |-> IF k = 0 THEN 0 ELSE s + f[k - 1]]
<1> HIDE DEF q, s
<1>4. Skips(g, level, q)
  <2> SUFFICES \A k \in 1..N + 1 :
                 g[k] = g[k - 1] + (q[k] - 1) * Stride(level + 1 - k)
    <3>1. g[0] = 0
      BY <1>1
    <3>2. Len(q) = N + 1
      BY <1>1
    <3> HIDE DEF g, N
    <3> QED  BY <3>1, <3>2 DEF Skips
  <2> TAKE k \in 1..N + 1
  <2>1. CASE k = 1
    <3>1. g[k] = s + f[0] /\ g[k - 1] = 0 /\ f[0] = 0
      BY <1>1, <1>3, <2>1 DEF Skips
    <3>2. level + 1 - k = level /\ q[k] = i
      BY <1>1, <2>1
    <3>3. (q[k] - 1) * Stride(level + 1 - k) = s
      BY <3>2 DEF s
    <3> HIDE DEF g
    <3> QED  BY <1>2, <3>1, <3>3
  <2>2. CASE k # 1
    <3>1. PICK j \in 1..N : k = j + 1
      <4>1. k - 1 \in 1..N /\ k = (k - 1) + 1
        BY <1>1, <2>2
      <4> QED  BY <4>1
    <3>2. g[k] = s + f[j] /\ g[k - 1] = s + f[j - 1] /\ q[k] = r[j]
      BY <1>1, <3>1
    <3> DEFINE d == (r[j] - 1) * Stride(level - 1 + 1 - j)
    <3>3. f[j] = f[j - 1] + d
      BY <1>3 DEF Skips
    <3>4. level + 1 - k = level - 1 + 1 - j
      BY <3>1
    <3>5. (q[k] - 1) * Stride(level + 1 - k) = d
      BY <3>2, <3>4
    <3>6. d \in Nat
      <4>1. r[j] - 1 \in Nat
        BY ImageAssumption DEF Pointer
      <4> QED  BY <4>1, StrideType, ProductType
    <3>7. f[j - 1] \in Nat
      <4>1. j - 1 \in 0..N
        BY <1>1
      <4> HIDE DEF N
      <4> QED  BY <1>3, <4>1
    <3> HIDE DEF d, g
    <3> QED  BY <1>2, <3>2, <3>3, <3>5, <3>6, <3>7
  <2> QED  BY <2>1, <2>2
<1>5. g[N + 1] = s + f[N] /\ f[N] \in Nat
  BY <1>1
<1> HIDE DEF g
<1>6. Before(level, q) = g[Len(q)]
  BY <1>1, <1>4, SkipsBefore
<1>7. Before(level, q) = s + Before(level - 1, r)
  BY <1>1, <1>3, <1>5, <1>6
<1> QED  BY <1>3, <1>5, <1>7 DEF q, s

\* No entry before those that some indices lead through is in use, but the first
\* of a block.
FirstBelow(img, b, q) ==
  \A k \in 1..Len(q) : \A j \in 2..(q[k] - 1) :
    Below(img, b, Append(SubSeq(q, 1, k - 1), j)) = 0

\* Two sequences with the same elements.
LEMMA SameElements ==
  ASSUME NEW S, NEW s \in Seq(S), NEW t \in Seq(S), Len(s) = Len(t),
         \A m \in 1..Len(s) : s[m] = t[m]
  PROVE  s = t
OBVIOUS

\* A sequence cut behind its first element.
LEMMA CutFirst ==
  ASSUME NEW S, NEW i \in S, NEW r \in Seq(S), NEW k \in 1..Len(r), NEW j \in S
  PROVE  /\ Append(SubSeq(<<i>> \o r, 1, k), j) = <<i>> \o Append(SubSeq(r, 1, k - 1), j)
         /\ Append(SubSeq(r, 1, k - 1), j) \in Seq(S)
<1> DEFINE q == <<i>> \o r
           a == SubSeq(q, 1, k)
           c == SubSeq(r, 1, k - 1)
           d == Append(c, j)
           e == <<i>> \o d
<1>1. /\ q \in Seq(S) /\ Len(q) = Len(r) + 1 /\ Len(r) \in Nat /\ q[1] = i
      /\ \A m \in 1..Len(r) : q[m + 1] = r[m]
  BY PutFirst
<1> HIDE DEF q
<1>2. a \in Seq(S) /\ Len(a) = k /\ \A m \in 1..k : a[m] = q[m]
  BY <1>1
<1>3. c \in Seq(S) /\ Len(c) = k - 1 /\ \A m \in 1..k - 1 : c[m] = r[m]
  BY <1>1
<1> HIDE DEF a, c
<1>4. d \in Seq(S) /\ Len(d) = k /\ d[k] = j /\ \A m \in 1..k - 1 : d[m] = c[m]
  BY <1>1, <1>3
<1>5. /\ Append(a, j) \in Seq(S) /\ Len(Append(a, j)) = k + 1 /\ Append(a, j)[k + 1] = j
      /\ \A m \in 1..k : Append(a, j)[m] = a[m]
  BY <1>1, <1>2
<1> HIDE DEF d
<1>6. /\ e \in Seq(S) /\ Len(e) = k + 1 /\ e[1] = i
      /\ \A m \in 1..k : e[m + 1] = d[m]
  <2>1. /\ <<i>> \o d \in Seq(S)
        /\ Len(<<i>> \o d) = Len(d) + 1
        /\ (<<i>> \o d)[1] = i
        /\ \A m \in 1..Len(d) : (<<i>> \o d)[m + 1] = d[m]
    BY <1>4, PutFirst
  <2> QED  BY <1>4, <2>1
<1> HIDE DEF e
<1>7. ASSUME NEW m \in 1..k + 1 PROVE Append(a, j)[m] = e[m]
  <2>1. CASE m = 1
    BY <1>1, <1>2, <1>5, <1>6, <2>1
  <2>2. CASE m = k + 1
    BY <1>4, <1>5, <1>6, <2>2
  <2>3. CASE m # 1 /\ m # k + 1
    <3>1. PICK x \in 1..k - 1 : m = x + 1
      <4>1. m - 1 \in 1..k - 1 /\ m = (m - 1) + 1
        BY <2>3
      <4> QED  BY <4>1
    <3>2. x \in 1..k /\ x + 1 \in 1..k /\ x \in 1..Len(r)
      BY <1>1
    <3>3. e[m] = d[x] /\ d[x] = c[x] /\ c[x] = r[x]
      BY <1>3, <1>4, <1>6, <3>1, <3>2
    <3>4. Append(a, j)[m] = a[m] /\ a[m] = q[m] /\ q[m] = r[x]
      BY <1>1, <1>2, <1>5, <3>1, <3>2
    <3> QED  BY <3>3, <3>4
  <2> QED  BY <2>1, <2>2, <2>3
<1>8. Append(a, j) = e
  BY <1>5, <1>6, <1>7, SameElements
<1> QED  BY <1>4, <1>8 DEF a, c, d, e, q

\* What holds of the first of the blocks on a way holds of the others.
LEMMA FirstBelowFirst ==
  ASSUME NEW img, ImageType(img), NEW b \in Int \ {0}, NEW i \in Pointer,
         NEW r \in Seq(Pointer), Pointers(img, b)[i] # 0, FirstBelow(img, b, <<i>> \o r)
  PROVE  /\ \A j \in 2..i-1 : Pointers(img, b)[j] = 0
         /\ FirstBelow(img, Pointers(img, b)[i], r)
<1> DEFINE q == <<i>> \o r
           N == Len(r)
<1>1. /\ q \in Seq(Pointer) /\ Len(q) = N + 1 /\ N \in Nat
      /\ q[1] = i /\ \A k \in 1..N : q[k + 1] = r[k]
  <2>1. /\ <<i>> \o r \in Seq(Pointer)
        /\ Len(<<i>> \o r) = Len(r) + 1 /\ Len(r) \in Nat
        /\ (<<i>> \o r)[1] = i
        /\ \A k \in 1..Len(r) : (<<i>> \o r)[k + 1] = r[k]
    BY PutFirst
  <2> QED  BY <2>1
<1>0. \A k \in 1..N + 1 : \A j \in 2..q[k] - 1 :
        Below(img, b, Append(SubSeq(q, 1, k - 1), j)) = 0
  <2> HIDE DEF q
  <2>1. FirstBelow(img, b, q)
    BY DEF q
  <2> QED  BY <1>1, <2>1 DEF FirstBelow
<1>2. ASSUME NEW j \in 2..i-1 PROVE Pointers(img, b)[j] = 0
  <2>1. j \in Pointer
    BY ImageAssumption DEF Pointer
  <2>2. SubSeq(q, 1, 0) = <<>> /\ Append(<<>>, j) = <<j>>
    BY <1>1
  <2>3. Below(img, b, <<j>>) = 0
    <3> HIDE DEF q
    <3>1. ASSUME NEW k \in 1..N + 1, k = 1 PROVE Below(img, b, <<j>>) = 0
      <4>1. j \in 2..q[k] - 1 /\ k - 1 = 0
        BY <1>1, <3>1
      <4>2. Below(img, b, Append(SubSeq(q, 1, k - 1), j)) = 0
        BY <1>0, <4>1
      <4> QED  BY <2>2, <4>1, <4>2
    <3> QED  BY <1>1, <3>1
  <2>4. <<j>> \o <<>> = <<j>> /\ <<>> \in Seq(Pointer)
    BY <2>1
  <2>5. Below(img, b, <<j>> \o <<>>) = Below(img, Pointers(img, b)[j], <<>>)
    BY <2>1, <2>4, BelowFirst
  <2>6. Pointers(img, b)[j] \in Int
    BY <2>1, PointersType
  <2>7. Below(img, Pointers(img, b)[j], <<>>) = Pointers(img, b)[j]
    BY <2>6, BelowNone
  <2> QED  BY <2>3, <2>4, <2>5, <2>7
<1>3. ASSUME NEW k \in 1..N, NEW j \in 2..r[k] - 1
      PROVE  Below(img, Pointers(img, b)[i], Append(SubSeq(r, 1, k - 1), j)) = 0
  <2> DEFINE t == Append(SubSeq(r, 1, k - 1), j)
  <2>1. j \in Pointer
    BY ImageAssumption DEF Pointer
  <2>2. Append(SubSeq(q, 1, k), j) = <<i>> \o t /\ t \in Seq(Pointer)
    BY <2>1, CutFirst
  <2> HIDE DEF t
  <2>3. Below(img, b, <<i>> \o t) = 0
    <3> HIDE DEF q
    <3>1. ASSUME NEW m \in 1..N + 1, m = k + 1 PROVE Below(img, b, <<i>> \o t) = 0
      <4>1. j \in 2..q[m] - 1 /\ m - 1 = k
        BY <1>1, <3>1
      <4>2. Below(img, b, Append(SubSeq(q, 1, m - 1), j)) = 0
        BY <1>0, <4>1
      <4> QED  BY <2>2, <4>1, <4>2
    <3> QED  BY <1>1, <3>1
  <2>4. Below(img, b, <<i>> \o t) = Below(img, Pointers(img, b)[i], t)
    BY <2>2, BelowFirst
  <2> QED  BY <2>3, <2>4 DEF t
<1> QED  BY <1>2, <1>3 DEF FirstBelow

-----------------------------------------------------------------------------
(* The indices of the blocks below a block, and the lines about them.        *)

\* Up to so many indices; those that lead somewhere; those of them with a first index.
Indices(level) == {q \in Seq(Pointer) : Len(q) \in 1..level}
Leading(img, level, b) == {q \in Indices(level) : Below(img, b, q) # 0}
Beginning(img, level, b, i) == {q \in Leading(img, level, b) : q[1] = i}

\* Some indices behind a first one.
Behind(i, P) == {<<i>> \o r : r \in P}

\* The line is about the block that the indices lead to, with an offset that is
\* not before its place, and is its place if only first entries are in use.
Tells(img, n, level, b, offset) ==
  {t \in Line \X Seq(Pointer) :
     /\ t[1].kind = "INDIRECT"
     /\ t[1].inode = n
     /\ t[1].level = level + 1 - Len(t[2])
     /\ t[1].block = Below(img, b, t[2])
     /\ t[1].offset >= offset + Before(level, t[2])
     /\ FirstBelow(img, b, t[2]) => t[1].offset = offset + Before(level, t[2])}

\* A sequence is its first element and the others.
LEMMA HeadTail ==
  ASSUME NEW S, NEW q \in Seq(S), Len(q) # 0
  PROVE  \E r \in Seq(S) : q = <<q[1]>> \o r /\ Len(q) = Len(r) + 1 /\ q[1] \in S
<1> DEFINE r == Tail(q)
           e == <<q[1]>> \o r
<1>1. /\ q[1] \in S /\ r \in Seq(S) /\ Len(r) = Len(q) - 1 /\ Len(q) \in Nat \ {0}
      /\ \A k \in 1..Len(r) : r[k] = q[k + 1]
  OBVIOUS
<1> HIDE DEF r
<1>2. /\ e \in Seq(S) /\ Len(e) = Len(q) /\ e[1] = q[1]
      /\ \A k \in 1..Len(r) : e[k + 1] = r[k]
  <2> DEFINE i == q[1]
  <2>1. i \in S
    BY <1>1
  <2> HIDE DEF i
  <2>2. /\ <<i>> \o r \in Seq(S)
        /\ Len(<<i>> \o r) = Len(r) + 1
        /\ (<<i>> \o r)[1] = i
        /\ \A k \in 1..Len(r) : (<<i>> \o r)[k + 1] = r[k]
    BY <1>1, <2>1, PutFirst
  <2> QED  BY <1>1, <2>2 DEF i
<1> HIDE DEF e
<1>3. ASSUME NEW m \in 1..Len(q) PROVE q[m] = e[m]
  <2>1. CASE m = 1
    BY <1>2, <2>1
  <2>2. CASE m # 1
    <3>1. PICK k \in 1..Len(r) : m = k + 1
      <4>1. m - 1 \in 1..Len(r) /\ m = (m - 1) + 1
        BY <1>1, <2>2
      <4> QED  BY <4>1
    <3> QED  BY <1>1, <1>2, <3>1
  <2> QED  BY <2>1, <2>2
<1>4. q = e
  BY <1>2, <1>3, SameElements
<1>5. q = <<q[1]>> \o r /\ Len(q) = Len(r) + 1
  BY <1>1, <1>4 DEF e
<1> QED  BY <1>1, <1>5

\* What is behind a first element is determined.
LEMMA PutFirstOnce ==
  ASSUME NEW S, NEW i \in S, NEW r \in Seq(S), NEW s \in Seq(S), <<i>> \o r = <<i>> \o s
  PROVE  r = s
<1>1. /\ Len(<<i>> \o r) = Len(r) + 1 /\ Len(r) \in Nat
      /\ \A k \in 1..Len(r) : (<<i>> \o r)[k + 1] = r[k]
  BY PutFirst
<1>2. /\ Len(<<i>> \o s) = Len(s) + 1 /\ Len(s) \in Nat
      /\ \A k \in 1..Len(s) : (<<i>> \o s)[k + 1] = s[k]
  BY PutFirst
<1>3. Len(r) = Len(s)
  BY <1>1, <1>2
<1>4. \A k \in 1..Len(r) : r[k] = s[k]
  BY <1>1, <1>2, <1>3
<1> QED  BY <1>3, <1>4, SameElements

\* No indices beginning with an entry that is not in use lead anywhere.
LEMMA NoneBeginning ==
  ASSUME NEW img, ImageType(img), NEW level \in 0..3, NEW b \in Int \ {0},
         NEW i \in Pointer, Pointers(img, b)[i] = 0
  PROVE  Beginning(img, level, b, i) = {}
<1> SUFFICES ASSUME NEW q \in Beginning(img, level, b, i) PROVE FALSE
  OBVIOUS
<1>1. q \in Seq(Pointer) /\ Len(q) # 0 /\ q[1] = i /\ Below(img, b, q) # 0
  BY DEF Beginning, Leading, Indices
<1>2. PICK r \in Seq(Pointer) : q = <<q[1]>> \o r
  BY <1>1, HeadTail
<1>3. Below(img, b, <<i>> \o r) = Below(img, 0, r)
  BY BelowFirst
<1> QED  BY <1>1, <1>2, <1>3, BelowZero

\* The indices beginning with an entry in use: the entry, and what is below it.
LEMMA BeginningSplits ==
  ASSUME NEW img, ImageType(img), NEW level \in 1..3, NEW b \in Int \ {0},
         NEW i \in Pointer, Pointers(img, b)[i] # 0
  PROVE  Beginning(img, level, b, i)
           = Behind(i, Leading(img, level - 1, Pointers(img, b)[i])) \cup {<<i>>}
<1> DEFINE c == Pointers(img, b)[i]
<1>1. \A r \in Seq(Pointer) : Below(img, b, <<i>> \o r) = Below(img, c, r)
  BY BelowFirst
<1>2. c \in Int
  BY PointersType
<1> HIDE DEF c
<1>3. <<>> \in Seq(Pointer) /\ <<i>> \o <<>> = <<i>> /\ Below(img, c, <<>>) = c
  BY <1>2, BelowNone
<1>4. ASSUME NEW q \in Beginning(img, level, b, i)
      PROVE  q \in Behind(i, Leading(img, level - 1, c)) \cup {<<i>>}
  <2>1. q \in Seq(Pointer) /\ Len(q) \in 1..level /\ q[1] = i /\ Below(img, b, q) # 0
    BY DEF Beginning, Leading, Indices
  <2>2. PICK r \in Seq(Pointer) : q = <<q[1]>> \o r /\ Len(q) = Len(r) + 1
    BY <2>1, HeadTail
  <2>3. Below(img, c, r) # 0 /\ q = <<i>> \o r
    BY <1>1, <2>1, <2>2
  <2>4. CASE Len(r) = 0
    <3>1. r = <<>>
      BY <2>4
    <3> QED  BY <1>3, <2>3, <3>1
  <2>5. CASE Len(r) # 0
    <3>1. r \in Leading(img, level - 1, c)
      BY <2>1, <2>2, <2>3, <2>5 DEF Leading, Indices
    <3> QED  BY <2>3, <3>1 DEF Behind
  <2> QED  BY <2>4, <2>5
<1>5. ASSUME NEW r \in Seq(Pointer), Len(r) \in 0..level - 1, Below(img, c, r) # 0
      PROVE  <<i>> \o r \in Beginning(img, level, b, i)
  <2>1. /\ <<i>> \o r \in Seq(Pointer) /\ Len(<<i>> \o r) = Len(r) + 1
        /\ (<<i>> \o r)[1] = i
    BY PutFirst
  <2>2. Below(img, b, <<i>> \o r) # 0
    BY <1>1, <1>5
  <2> DEFINE q == <<i>> \o r
  <2> HIDE DEF q
  <2>3. q \in Seq(Pointer) /\ Len(q) \in 1..level /\ q[1] = i /\ Below(img, b, q) # 0
    BY <1>5, <2>1, <2>2 DEF q
  <2>4. q \in Beginning(img, level, b, i)
    BY <2>3 DEF Beginning, Leading, Indices
  <2> QED  BY <2>4 DEF q
<1>6. <<i>> \in Beginning(img, level, b, i)
  <2>1. Len(<<>>) \in 0..level - 1 /\ c # 0
    BY DEF c
  <2> QED  BY <1>3, <1>5, <2>1
<1>7. \A r \in Leading(img, level - 1, c) : <<i>> \o r \in Beginning(img, level, b, i)
  BY <1>5 DEF Leading, Indices
<1>8. Behind(i, Leading(img, level - 1, c)) \subseteq Beginning(img, level, b, i)
  BY <1>7 DEF Behind
<1> QED  BY <1>4, <1>6, <1>8 DEF c

\* The line that indirectBlock writes about an entry.
OwnLine(n, level, offset, block) ==
  [kind |-> "INDIRECT", inode |-> n, level |-> level, offset |-> offset, block |-> block]

\* A line that tells about indices below an entry tells about them behind it.
LEMMA TellsBehind ==
  ASSUME NEW img, ImageType(img), NEW n, NEW level \in 1..3, NEW b \in Int \ {0},
         NEW i \in Pointer, Pointers(img, b)[i] # 0, NEW offset \in Nat, NEW at \in Nat,
         at >= offset + (i - 1) * Stride(level),
         (\A j \in 2..i-1 : Pointers(img, b)[j] = 0) => at = offset + (i - 1) * Stride(level),
         NEW l, NEW r, <<l, r>> \in Tells(img, n, level - 1, Pointers(img, b)[i], at)
  PROVE  <<l, <<i>> \o r>> \in Tells(img, n, level, b, offset)
<1> DEFINE c == Pointers(img, b)[i]
           q == <<i>> \o r
           d == (i - 1) * Stride(level)
<1>1. /\ l \in Line /\ r \in Seq(Pointer) /\ l.kind = "INDIRECT" /\ l.inode = n
      /\ l.level = level - 1 + 1 - Len(r) /\ l.block = Below(img, c, r)
      /\ l.offset >= at + Before(level - 1, r)
      /\ FirstBelow(img, c, r) => l.offset = at + Before(level - 1, r)
  BY DEF Tells
<1>2. /\ q \in Seq(Pointer) /\ Len(q) = Len(r) + 1 /\ Len(r) \in Nat
  BY <1>1, PutFirst
<1>3. Below(img, b, q) = Below(img, c, r)
  BY <1>1, BelowFirst
<1>4. Before(level, q) = d + Before(level - 1, r) /\ Before(level - 1, r) \in Nat
  BY <1>1, BeforeFirst
<1>5. FirstBelow(img, b, q) =>
        FirstBelow(img, c, r) /\ \A j \in 2..i-1 : Pointers(img, b)[j] = 0
  BY <1>1, FirstBelowFirst
<1>6. d \in Nat
  <2>1. i - 1 \in Nat
    BY ImageAssumption DEF Pointer
  <2> QED  BY <2>1, StrideType, ProductType
<1>7. at >= offset + d /\ ((\A j \in 2..i-1 : Pointers(img, b)[j] = 0) => at = offset + d)
  OBVIOUS
<1>8. l.offset \in Int
  BY <1>1 DEF Line
<1> HIDE DEF q, c, d
<1>9. l.level = level + 1 - Len(q)
  BY <1>1, <1>2
<1>10. l.offset >= offset + Before(level, q)
  BY <1>1, <1>4, <1>6, <1>7, <1>8
<1>11. FirstBelow(img, b, q) => l.offset = offset + Before(level, q)
  BY <1>1, <1>4, <1>5, <1>6, <1>7, <1>8
<1>12. <<l, q>> \in Tells(img, n, level, b, offset)
  BY <1>1, <1>2, <1>3, <1>9, <1>10, <1>11 DEF Tells
<1> QED  BY <1>12 DEF q

\* The line about an entry tells about it.
LEMMA OwnTells ==
  ASSUME NEW img, ImageType(img), NEW n \in Nat \ {0}, NEW level \in 1..3, NEW b \in Int \ {0},
         NEW i \in Pointer, Pointers(img, b)[i] # 0, NEW offset \in Nat, NEW at \in Nat,
         at >= offset + (i - 1) * Stride(level),
         (\A j \in 2..i-1 : Pointers(img, b)[j] = 0) => at = offset + (i - 1) * Stride(level)
  PROVE  /\ OwnLine(n, level, at, Pointers(img, b)[i]) \in Line
         /\ <<OwnLine(n, level, at, Pointers(img, b)[i]), <<i>>>>
              \in Tells(img, n, level, b, offset)
<1> DEFINE c == Pointers(img, b)[i]
           l == OwnLine(n, level, at, c)
           d == (i - 1) * Stride(level)
           q == <<i>>
<1>1. c \in Int
  BY PointersType
<1>2. <<>> \in Seq(Pointer) /\ q \o <<>> = q /\ q \in Seq(Pointer) /\ Len(q) = 1
  OBVIOUS
<1>3. Below(img, b, q) = c
  <2>1. Below(img, b, <<i>> \o <<>>) = Below(img, c, <<>>)
    BY <1>2, BelowFirst
  <2> QED  BY <1>1, <1>2, <2>1, BelowNone
<1>4. Before(level, q) = d
  <2>1. Before(level, <<i>> \o <<>>) = d + Before(level - 1, <<>>)
    <3>1. \A r \in Seq(Pointer) : Before(level, <<i>> \o r) = d + Before(level - 1, r)
      <4> TAKE r \in Seq(Pointer)
      <4> QED  BY BeforeFirst
    <3> HIDE DEF d
    <3> QED  BY <1>2, <3>1
  <2>2. Before(level - 1, <<>>) = 0
    BY BeforeNone
  <2>3. d \in Nat
    <3>1. i - 1 \in Nat
      BY ImageAssumption DEF Pointer
    <3> QED  BY <3>1, StrideType, ProductType
  <2> HIDE DEF d
  <2> QED  BY <1>2, <2>1, <2>2, <2>3
<1>5. FirstBelow(img, b, q) => \A j \in 2..i-1 : Pointers(img, b)[j] = 0
  BY <1>2, FirstBelowFirst
<1>6. at >= offset + d /\ ((\A j \in 2..i-1 : Pointers(img, b)[j] = 0) => at = offset + d)
  OBVIOUS
<1> HIDE DEF c, d
<1>7. l \in Line
  BY <1>1 DEF Line, OwnLine
<1>8. /\ l.kind = "INDIRECT" /\ l.inode = n /\ l.level = level /\ l.offset = at /\ l.block = c
  BY DEF OwnLine
<1> HIDE DEF l, q
<1>9. <<l, q>> \in Tells(img, n, level, b, offset)
  <2>1. l.level = level + 1 - Len(q)
    BY <1>2, <1>8
  <2>2. l.block = Below(img, b, q)
    BY <1>3, <1>8
  <2>3. l.offset >= offset + Before(level, q)
    BY <1>4, <1>6, <1>8
  <2>4. FirstBelow(img, b, q) => l.offset = offset + Before(level, q)
    BY <1>4, <1>5, <1>6, <1>8
  <2> QED  BY <1>2, <1>7, <1>8, <2>1, <2>2, <2>3, <2>4 DEF Tells
<1> QED  BY <1>7, <1>9 DEF l, q, c

\* What indirectBlock writes about an entry in use.
LEMMA EntryListed ==
  ASSUME NEW img, ImageType(img), NEW n \in Nat \ {0}, NEW level \in 1..3, NEW b \in Int \ {0},
         NEW i \in Pointer, Pointers(img, b)[i] # 0, NEW offset \in Nat, NEW at \in Nat,
         at >= offset + (i - 1) * Stride(level),
         (\A j \in 2..i-1 : Pointers(img, b)[j] = 0) => at = offset + (i - 1) * Stride(level),
         NEW lines \in Seq(Line),
         Listed(lines, Leading(img, level - 1, Pointers(img, b)[i]),
                Tells(img, n, level - 1, Pointers(img, b)[i], at))
  PROVE  LET all == Append(lines, OwnLine(n, level, at, Pointers(img, b)[i]))
         IN  /\ all \in Seq(Line)
             /\ Listed(all, Beginning(img, level, b, i), Tells(img, n, level, b, offset))
<1> DEFINE c == Pointers(img, b)[i]
           own == OwnLine(n, level, at, c)
           P == Leading(img, level - 1, c)
           R == Tells(img, n, level - 1, c, at)
           Q == Behind(i, P)
           R2 == Tells(img, n, level, b, offset)
           h == [r \in P |-> <<i>> \o r]
<1>1. own \in Line /\ <<own, <<i>>>> \in R2
  <2>1. own \in Line
    BY OwnTells
  <2>2. <<own, <<i>>>> \in R2
    BY OwnTells
  <2> QED  BY <2>1, <2>2
<1>2. Beginning(img, level, b, i) = Q \cup {<<i>>}
  BY BeginningSplits
<1>3. P \subseteq Seq(Pointer) /\ \A r \in P : Len(r) \in 1..level - 1
  BY DEF Leading, Indices
<1>4. \A l, r : <<l, r>> \in R => <<l, <<i>> \o r>> \in R2
  BY TellsBehind
<1>5. Listed(lines, P, R)
  OBVIOUS
<1> HIDE DEF R, R2, P
<1>6. Listed(lines, Q, R2)
  <2>1. h \in [P -> Q] /\ \A q \in Q : \E p \in P : h[p] = q
    BY DEF Behind
  <2>2. \A p, q \in P : h[p] = h[q] => p = q
    <3> SUFFICES ASSUME NEW p \in P, NEW q \in P, <<i>> \o p = <<i>> \o q PROVE p = q
      OBVIOUS
    <3>1. p \in Seq(Pointer) /\ q \in Seq(Pointer)
      BY <1>3
    <3> QED  BY <3>1, PutFirstOnce
  <2>3. \A k \in DOMAIN lines : \A p \in P : <<lines[k], p>> \in R => <<lines[k], h[p]>> \in R2
    BY <1>4
  <2> HIDE DEF h, Q
  <2> QED  BY <1>5, <2>1, <2>2, <2>3, ListedAs
<1>7. Listed(<<own>>, {<<i>>}, R2)
  BY <1>1, ListedOne
<1>8. Q \cap {<<i>>} = {}
  <2> SUFFICES ASSUME NEW r \in P, <<i>> \o r = <<i>> PROVE FALSE
    BY DEF Behind
  <2>1. r \in Seq(Pointer) /\ Len(r) \in 1..level - 1
    BY <1>3
  <2>2. Len(<<i>> \o r) = Len(r) + 1
    BY <2>1, PutFirst
  <2>3. Len(<<i>>) = 1
    OBVIOUS
  <2> QED  BY <2>1, <2>2, <2>3
<1> HIDE DEF own, Q
<1>9. <<own>> \in Seq(Line) /\ Append(lines, own) = lines \o <<own>> /\ Append(lines, own) \in Seq(Line)
  BY <1>1
<1>10. Listed(lines \o <<own>>, Q \cup {<<i>>}, R2)
  BY <1>6, <1>7, <1>8, <1>9, ListedConcat
<1> QED  BY <1>2, <1>9, <1>10 DEF own, R2

-----------------------------------------------------------------------------
(* indirectBlock, level by level.                                            *)

\* The lines at one level, from those at the level below.
NextLevel(img, n, level, lower) ==
  [b \in Int |-> [offset \in Nat |->
     IF level = 0 THEN <<>>
     ELSE FlattenSeq([i \in 1..PerBlock |->
            IF Pointers(img, b)[i] = 0 THEN <<>>
            ELSE Append(lower[Pointers(img, b)[i]]
                             [OffsetAt(Pointers(img, b), offset, Stride(level))[i]],
                        OwnLine(n, level,
                                OffsetAt(Pointers(img, b), offset, Stride(level))[i],
                                Pointers(img, b)[i]))])]]

LevelLines == [Int -> [Nat -> Seq(Line)]]

\* The lines at a level list what is below each block.
LevelListed(img, n, level, lines) ==
  \A b \in Int \ {0}, offset \in Nat :
    Listed(lines[b][offset], Leading(img, level, b), Tells(img, n, level, b, offset))

\* A flattened sequence of sequences of lines.
LEMMA FlattenType ==
  ASSUME NEW S, NEW s \in Seq(Seq(S))
  PROVE  FlattenSeq(s) \in Seq(S)
<1>1. PICK f \in [0..Len(s) -> Seq(S)] :
        /\ f[0] = <<>> /\ FlattenSeq(s) = f[Len(s)]
        /\ \A k \in 1..Len(s) : f[k] = f[k - 1] \o s[k]
  BY FlattenBuilds
<1>2. Len(s) \in 0..Len(s)
  OBVIOUS
<1> QED  BY <1>1, <1>2

\* A function is a sequence.
LEMMA FunctionIsSequence ==
  ASSUME NEW S, NEW N \in Nat, NEW s \in [1..N -> S]
  PROVE  s \in Seq(S) /\ Len(s) = N
OBVIOUS

\* indirectBlock writes lines.
LEMMA NextLevelType ==
  ASSUME NEW img, ImageType(img), NEW n \in Nat \ {0}, NEW level \in 0..3,
         NEW lower \in LevelLines
  PROVE  NextLevel(img, n, level, lower) \in LevelLines
<1> SUFFICES ASSUME NEW b \in Int, NEW offset \in Nat
             PROVE  NextLevel(img, n, level, lower)[b][offset] \in Seq(Line)
  BY DEF NextLevel, LevelLines
<1> DEFINE entry == Pointers(img, b)
           at == OffsetAt(entry, offset, Stride(level))
           s == [i \in 1..PerBlock |->
                   IF entry[i] = 0 THEN <<>>
                   ELSE Append(lower[entry[i]][at[i]], OwnLine(n, level, at[i], entry[i]))]
<1>1. CASE level = 0
  BY <1>1 DEF NextLevel
<1>2. CASE level # 0
  <2>1. NextLevel(img, n, level, lower)[b][offset] = FlattenSeq(s)
    BY <1>2 DEF NextLevel
  <2>2. entry \in [Pointer -> Int]
    BY PointersType
  <2>3. at \in [0..PerBlock -> Nat]
    BY OffsetsExist, StrideType
  <2> HIDE DEF at, entry
  <2>4. ASSUME NEW i \in 1..PerBlock PROVE s[i] \in Seq(Line)
    <3>1. entry[i] \in Int /\ at[i] \in Nat
      BY <2>2, <2>3, ImageAssumption DEF Pointer
    <3>2. OwnLine(n, level, at[i], entry[i]) \in Line
      <4>1. level \in 1..3
        BY <1>2
      <4> QED  BY <3>1, <4>1 DEF Line, OwnLine
    <3>3. lower[entry[i]][at[i]] \in Seq(Line)
      BY <3>1 DEF LevelLines
    <3> DEFINE own == OwnLine(n, level, at[i], entry[i])
               below == lower[entry[i]][at[i]]
    <3>4. s[i] = IF entry[i] = 0 THEN <<>> ELSE Append(below, own)
      OBVIOUS
    <3> HIDE DEF s, own, below
    <3> QED  BY <3>2, <3>3, <3>4 DEF own, below
  <2>5. s \in Seq(Seq(Line))
    <3>1. s = [i \in 1..PerBlock |-> s[i]]
      OBVIOUS
    <3> HIDE DEF s
    <3>2. s \in [1..PerBlock -> Seq(Line)]
      BY <2>4, <3>1
    <3> QED  BY <3>2, FunctionIsSequence, ImageAssumption
  <2> HIDE DEF s
  <2> QED  BY <2>1, <2>5, FlattenType
<1> QED  BY <1>1, <1>2

\* Below an entry and then the entry itself, for every entry.
LEMMA NextLevelListed ==
  ASSUME NEW img, ImageType(img), NEW n \in Nat \ {0}, NEW level \in 1..3,
         NEW lower \in LevelLines, LevelListed(img, n, level - 1, lower)
  PROVE  LevelListed(img, n, level, NextLevel(img, n, level, lower))
<1> SUFFICES ASSUME NEW b \in Int \ {0}, NEW offset \in Nat
             PROVE  Listed(NextLevel(img, n, level, lower)[b][offset],
                           Leading(img, level, b), Tells(img, n, level, b, offset))
  BY DEF LevelListed
<1> DEFINE entry == Pointers(img, b)
           at == OffsetAt(entry, offset, Stride(level))
           s == [i \in 1..PerBlock |->
                   IF entry[i] = 0 THEN <<>>
                   ELSE Append(lower[entry[i]][at[i]], OwnLine(n, level, at[i], entry[i]))]
           R == Tells(img, n, level, b, offset)
           P == [i \in 1..PerBlock |-> Beginning(img, level, b, i)]
<1>1. NextLevel(img, n, level, lower)[b][offset] = FlattenSeq(s)
  BY DEF NextLevel
<1>2. entry \in [Pointer -> Int]
  BY PointersType
<1>3. ASSUME NEW i \in 1..PerBlock PROVE s[i] \in Seq(Line) /\ Listed(s[i], P[i], R)
  <2>1. CASE entry[i] = 0
    <3>1. s[i] = <<>>
      BY <2>1
    <3>2. P[i] = {}
      <4>1. i \in Pointer /\ level \in 0..3
        BY DEF Pointer
      <4>2. Beginning(img, level, b, i) = {}
        BY <2>1, <4>1, NoneBeginning
      <4> QED  BY <4>2
    <3>3. <<>> \in Seq(Line) /\ Listed(<<>>, {}, R)
      BY ListedNothing
    <3> HIDE DEF s, P, R
    <3> QED  BY <3>1, <3>2, <3>3
  <2>2. CASE entry[i] # 0
    <3> DEFINE t == at[i]
               below == lower[entry[i]][t]
               c == entry[i]
    <3>0. i \in Pointer /\ c \in Int \ {0}
      BY <1>2, <2>2 DEF Pointer
    <3>1. /\ t \in Nat
          /\ t >= offset + (i - 1) * Stride(level)
          /\ (\A j \in 2..i-1 : entry[j] = 0) => t = offset + (i - 1) * Stride(level)
      <4>1. LET f == OffsetAt(entry, offset, Stride(level))
            IN  /\ f[i] \in Nat
                /\ f[i] >= offset + (i - 1) * Stride(level)
                /\ (\A j \in 2..i-1 : entry[j] = 0) => f[i] = offset + (i - 1) * Stride(level)
        <5> HIDE DEF entry
        <5>1. entry[i] # 0 /\ Stride(level) \in Nat
          BY <2>2, StrideType
        <5> QED  BY <3>0, <5>1, OffsetIsPlace
      <4> QED  BY <4>1
    <3>2. s[i] = Append(below, OwnLine(n, level, t, c))
      BY <2>2
    <3> HIDE DEF t
    <3>3. below \in Seq(Line)
      BY <3>0, <3>1 DEF LevelLines
    <3>4. Listed(below, Leading(img, level - 1, c), Tells(img, n, level - 1, c, t))
      BY <3>0, <3>1 DEF LevelListed
    <3> HIDE DEF below
    <3>5. /\ Append(below, OwnLine(n, level, t, c)) \in Seq(Line)
          /\ Listed(Append(below, OwnLine(n, level, t, c)), Beginning(img, level, b, i), R)
      BY <2>2, <3>0, <3>1, <3>3, <3>4, EntryListed
    <3> HIDE DEF s, c, R
    <3> QED  BY <3>2, <3>5
  <2> QED  BY <2>1, <2>2
<1>4. s \in Seq(Seq(Line)) /\ Len(s) = PerBlock
  <2>1. s = [i \in 1..PerBlock |-> s[i]]
    OBVIOUS
  <2> HIDE DEF s
  <2>2. s \in [1..PerBlock -> Seq(Line)]
    BY <1>3, <2>1
  <2> QED  BY <2>2, FunctionIsSequence, ImageAssumption
<1>5. \A i, j \in 1..PerBlock : i # j => P[i] \cap P[j] = {}
  BY DEF Beginning
<1>6. UNION {P[i] : i \in 1..PerBlock} = Leading(img, level, b)
  <2>1. ASSUME NEW q \in Leading(img, level, b) PROVE \E i \in 1..PerBlock : q \in P[i]
    <3>1. q \in Seq(Pointer) /\ Len(q) \in 1..level
      BY DEF Leading, Indices
    <3>2. q[1] \in Pointer
      BY <3>1
    <3> QED  BY <3>2 DEF Beginning, Pointer
  <2>2. \A i \in 1..PerBlock : P[i] \subseteq Leading(img, level, b)
    BY DEF Beginning
  <2> HIDE DEF P
  <2> QED  BY <2>1, <2>2
<1> HIDE DEF s, P, R
<1>7. Listed(FlattenSeq(s), UNION {P[i] : i \in 1..PerBlock}, R)
  <2>1. \A i \in 1..Len(s) : Listed(s[i], P[i], R)
    BY <1>3, <1>4
  <2>2. \A i, j \in 1..Len(s) : i # j => P[i] \cap P[j] = {}
    BY <1>4, <1>5
  <2>3. Listed(FlattenSeq(s), UNION {P[i] : i \in 1..Len(s)}, R)
    BY <1>4, <2>1, <2>2, ListedFlatten
  <2> QED  BY <1>4, <2>3
<1> QED  BY <1>1, <1>6, <1>7 DEF R

\* indirectBlock(level, n, b, offset) writes lines, that list what is below b.
LEMMA IndirectListed ==
  ASSUME NEW img, ImageType(img), NEW n \in Nat \ {0}, NEW level \in 1..3
  PROVE  /\ IndirectBlock(img, n)[level] \in LevelLines
         /\ LevelListed(img, n, level, IndirectBlock(img, n)[level])
<1> DEFINE none == [b \in Int |-> [offset \in Nat |-> <<>>]]
           step == [k \in 1..3 |-> [g \in LevelLines |-> NextLevel(img, n, k, g)]]
           Rec(h) == h = [k \in 0..3 |-> NextLevel(img, n, k, h[k - 1])]
           lines == IndirectBlock(img, n)
<1>1. none \in LevelLines
  BY DEF LevelLines
<1>2. step \in [1..3 -> [LevelLines -> LevelLines]]
  BY NextLevelType
<1>3. \A g : NextLevel(img, n, 0, g) = none
  BY DEF NextLevel
<1>4. PICK f \in [0..3 -> LevelLines] : Follows(f, 3, none, step)
  <2> HIDE DEF none, step
  <2> QED  BY <1>1, <1>2, Recursion
<1>5. Rec(f)
  <2>1. f[0] = NextLevel(img, n, 0, f[0 - 1])
    BY <1>3, <1>4 DEF Follows
  <2>2. ASSUME NEW k \in 1..3 PROVE f[k] = NextLevel(img, n, k, f[k - 1])
    <3>1. f[k] = step[k][f[k - 1]]
      BY <1>4 DEF Follows
    <3>2. f[k - 1] \in LevelLines
      BY <1>4
    <3> QED  BY <3>1, <3>2
  <2>3. \A k \in 0..3 : f[k] = NextLevel(img, n, k, f[k - 1])
    <3>1. \A k \in 0..3 : k = 0 \/ k \in 1..3
      OBVIOUS
    <3> QED  BY <2>1, <2>2, <3>1
  <2> QED  BY <1>4, <2>3
<1>6. lines = CHOOSE h : Rec(h)
  BY DEF IndirectBlock, NextLevel, OwnLine
<1>7. Rec(lines)
  <2> HIDE DEF Rec, lines
  <2> QED  BY <1>5, <1>6
<1> HIDE DEF lines
<1>8. \A k \in 0..3 : lines[k] = NextLevel(img, n, k, lines[k - 1])
  <2>1. lines = [k \in 0..3 |-> NextLevel(img, n, k, lines[k - 1])]
    BY <1>7
  <2> QED  BY <2>1
<1>9. lines[0] \in LevelLines /\ LevelListed(img, n, 0, lines[0])
  <2>1. lines[0] = none
    BY <1>3, <1>8
  <2>2. ASSUME NEW b \in Int \ {0}, NEW offset \in Nat
        PROVE  Listed(none[b][offset], Leading(img, 0, b), Tells(img, n, 0, b, offset))
    <3>1. Leading(img, 0, b) = {} /\ none[b][offset] = <<>>
      BY DEF Leading, Indices
    <3> QED  BY <3>1, ListedNothing
  <2> HIDE DEF none
  <2> QED  BY <1>1, <2>1, <2>2 DEF LevelListed
<1>10. ASSUME NEW k \in 1..3, lines[k - 1] \in LevelLines, LevelListed(img, n, k - 1, lines[k - 1])
       PROVE  lines[k] \in LevelLines /\ LevelListed(img, n, k, lines[k])
  <2>1. lines[k] = NextLevel(img, n, k, lines[k - 1])
    BY <1>8
  <2>2. NextLevel(img, n, k, lines[k - 1]) \in LevelLines
    BY <1>10, NextLevelType
  <2>3. LevelListed(img, n, k, NextLevel(img, n, k, lines[k - 1]))
    BY <1>10, NextLevelListed
  <2> QED  BY <2>1, <2>2, <2>3
<1> DEFINE T == {k \in Nat : k <= 3 => lines[k] \in LevelLines /\ LevelListed(img, n, k, lines[k])}
<1>11. 0 \in T
  BY <1>9
<1>12. ASSUME NEW k \in Nat, k \in T PROVE k + 1 \in T
  <2> SUFFICES ASSUME NEW j \in 1..3, j = k + 1
               PROVE  lines[j] \in LevelLines /\ LevelListed(img, n, j, lines[j])
    OBVIOUS
  <2>1. j - 1 = k
    OBVIOUS
  <2> QED  BY <1>10, <1>12, <2>1
<1>13. level \in T
  <2> HIDE DEF T
  <2> QED  BY <1>11, <1>12, SetInduction
<1> QED  BY <1>13 DEF lines

-----------------------------------------------------------------------------
(* What the lines of the summary are about: <<kind, number, place>>.         *)

FreeBlockItems(img) == {<<"BFREE", b, <<>>>> : b \in img.free_blocks}
FreeInodeItems(img) == {<<"IFREE", n, <<>>>> : n \in img.free_inodes}
InodeItem(n) == <<"INODE", n, <<>>>>

\* The direct blocks of a directory that are read.
ReadBlocks(img, n) ==
  IF FileType(img.inode[n].mode) = "d"
  THEN 1..Cardinality({k \in 1..NDir : \A j \in 1..k : img.inode[n].block[j] # 0})
  ELSE {}
BlockEntryItems(img, n, k) ==
  {<<"DIRENT", n, <<k, j>>>> : j \in DOMAIN Entries(img, img.inode[n].block[k])}
EntryItems(img, n) == UNION {BlockEntryItems(img, n, k) : k \in ReadBlocks(img, n)}

\* The paths from a slot that lead to a block through an indirect block.
PathsBelow(img, n, start) ==
  {p \in PathsFrom(start) : Len(p) > 1 /\ BlockAt(img, n, p) # 0}
IndirectItems(img, n) ==
  {<<"INDIRECT", n, p>> : p \in UNION {PathsBelow(img, n, NDir + level) : level \in 1..3}}

ItemsOf(img, n) == {InodeItem(n)} \cup EntryItems(img, n) \cup IndirectItems(img, n)
InodesInUse(img) == {n \in 1..NumInodes : InUse(img, n)}
Items(img) == FreeBlockItems(img) \cup FreeInodeItems(img)
              \cup UNION {ItemsOf(img, n) : n \in InodesInUse(img)}

\* A line is about an item.
Says(img) ==
  {t \in Line \X Items(img) :
     /\ t[1].kind = t[2][1]
     /\ t[1].kind = "BFREE" => t[1].block = t[2][2]
     /\ t[1].kind = "IFREE" => t[1].inode = t[2][2]
     /\ t[1].kind = "INODE" => t[1] = InodeLine(img, t[2][2])
     /\ t[1].kind = "DIRENT" =>
          LET e == Entries(img, img.inode[t[2][2]].block[t[2][3][1]])[t[2][3][2]]
          IN  t[1].dir = t[2][2] /\ t[1].inode = e.inode /\ t[1].name = e.name
     /\ t[1].kind = "INDIRECT" =>
          /\ t[1].inode = t[2][2]
          /\ t[1].level = HolderLevel(t[2][3])
          /\ t[1].block = BlockAt(img, t[2][2], t[2][3])
          /\ t[1].offset >= Position(t[2][3])
          /\ FirstOfItsBlocks(img, t[2][2], t[2][3]) => t[1].offset = Position(t[2][3])}

\* What is in one of the sets P[i].
AllOf(P, X) == UNION {P[i] : i \in X}

\* Lists of different things, given one by one and flattened.
LEMMA ListedOver ==
  ASSUME NEW N \in Nat, NEW S, NEW s \in [1..N -> Seq(S)], NEW P, NEW R,
         \A i \in 1..N : Listed(s[i], P[i], R),
         \A i, j \in 1..N : i # j => P[i] \cap P[j] = {}
  PROVE  /\ FlattenSeq(s) \in Seq(S)
         /\ Listed(FlattenSeq(s), AllOf(P, 1..N), R)
<1>1. s \in Seq(Seq(S)) /\ Len(s) = N
  OBVIOUS
<1>2. \A i \in 1..Len(s) : Listed(s[i], P[i], R)
  BY <1>1
<1>3. \A i, j \in 1..Len(s) : i # j => P[i] \cap P[j] = {}
  BY <1>1
<1>4. FlattenSeq(s) \in Seq(S) /\ Listed(FlattenSeq(s), UNION {P[i] : i \in 1..Len(s)}, R)
  BY <1>1, <1>2, <1>3, ListedFlatten
<1> QED  BY <1>1, <1>4 DEF AllOf

\* The same, if only some of them are given.
LEMMA ListedSome ==
  ASSUME NEW N \in Nat, NEW S, NEW X \in SUBSET (1..N), NEW s \in [1..N -> Seq(S)],
         NEW P, NEW R,
         \A i \in 1..N : i \notin X => s[i] = <<>>,
         \A i \in X : Listed(s[i], P[i], R),
         \A i, j \in X : i # j => P[i] \cap P[j] = {}
  PROVE  /\ FlattenSeq(s) \in Seq(S)
         /\ Listed(FlattenSeq(s), AllOf(P, X), R)
<1> DEFINE Q == [i \in 1..N |-> IF i \in X THEN P[i] ELSE {}]
<1>1. \A i \in 1..N : i \notin X => s[i] = <<>> /\ Q[i] = {}
  OBVIOUS
<1>2. \A i \in X : Q[i] = P[i] /\ i \in 1..N
  OBVIOUS
<1>4. AllOf(Q, 1..N) = AllOf(P, X)
  BY DEF AllOf
<1> HIDE DEF Q
<1>5. \A i \in 1..N : Listed(s[i], Q[i], R)
  <2>1. Listed(<<>>, {}, R)
    BY ListedNothing
  <2> QED  BY <1>1, <1>2, <2>1
<1>6. \A i, j \in 1..N : i # j => Q[i] \cap Q[j] = {}
  BY <1>1, <1>2
<1> QED  BY <1>4, <1>5, <1>6, ListedOver

\* A line for each clear bit of the block bitmap.
LEMMA FreeBlocksListed ==
  ASSUME NEW img, ImageType(img)
  PROVE  /\ FreeBlocks(img) \in Seq(Line)
         /\ Listed(FreeBlocks(img), FreeBlockItems(img), Says(img))
<1> DEFINE X == img.free_blocks
           line(b) == [kind |-> "BFREE", block |-> b]
           item(b) == <<"BFREE", b, <<>>>>
           s == [b \in 1..Bits |-> IF b \in X THEN <<line(b)>> ELSE <<>>]
           P == [b \in X |-> {item(b)}]
           R == Says(img)
<1>1. X \in SUBSET (1..Bits)
  BY DEF ImageType
<1>2. ASSUME NEW b \in X
      PROVE  line(b) \in Line /\ <<line(b), item(b)>> \in R
  <2>1. line(b) \in Line
    BY <1>1 DEF Line
  <2>2. item(b) \in Items(img)
    BY DEF Items, FreeBlockItems
  <2>3. line(b).kind = "BFREE" /\ line(b).block = b
    OBVIOUS
  <2> HIDE DEF line
  <2> QED  BY <2>1, <2>2, <2>3 DEF Says
<1>3. FreeBlocks(img) = FlattenSeq(s)
  BY DEF FreeBlocks
<1>4. AllOf(P, X) = FreeBlockItems(img)
  BY DEF FreeBlockItems, AllOf
<1>5. \A a, b \in X : a # b => P[a] \cap P[b] = {}
  OBVIOUS
<1>6. \A b \in X : s[b] = <<line(b)>> /\ P[b] = {item(b)}
  BY <1>1
<1>7. s \in [1..Bits -> Seq(Line)] /\ \A b \in 1..Bits : b \notin X => s[b] = <<>>
  <2>1. \A b \in X : <<line(b)>> \in Seq(Line)
    <3> TAKE b \in X
    <3>1. line(b) \in Line
      BY <1>2
    <3> HIDE DEF line
    <3> QED  BY <3>1
  <2> HIDE DEF line, X
  <2> QED  BY <2>1
<1> HIDE DEF s, P, R, line, item, X
<1>8. \A b \in X : Listed(s[b], P[b], R)
  <2> TAKE b \in X
  <2>1. <<line(b), item(b)>> \in R
    BY <1>2
  <2>2. Listed(<<line(b)>>, {item(b)}, R)
    BY <2>1, ListedOne
  <2> QED  BY <1>6, <2>2
<1>9. FlattenSeq(s) \in Seq(Line) /\ Listed(FlattenSeq(s), AllOf(P, X), R)
  BY <1>1, <1>5, <1>7, <1>8, ImageAssumption, ListedSome
<1> QED  BY <1>3, <1>4, <1>9 DEF R

\* A line for each clear bit of the inode bitmap.
LEMMA FreeInodesListed ==
  ASSUME NEW img, ImageType(img)
  PROVE  /\ FreeInodes(img) \in Seq(Line)
         /\ Listed(FreeInodes(img), FreeInodeItems(img), Says(img))
<1> DEFINE X == img.free_inodes
           line(n) == [kind |-> "IFREE", inode |-> n]
           item(n) == <<"IFREE", n, <<>>>>
           s == [n \in 1..Bits |-> IF n \in X THEN <<line(n)>> ELSE <<>>]
           P == [n \in X |-> {item(n)}]
           R == Says(img)
<1>1. X \in SUBSET (1..Bits)
  BY DEF ImageType
<1>2. ASSUME NEW n \in X
      PROVE  line(n) \in Line /\ <<line(n), item(n)>> \in R
  <2>1. line(n) \in Line
    BY <1>1 DEF Line
  <2>2. item(n) \in Items(img)
    BY DEF Items, FreeInodeItems
  <2>3. line(n).kind = "IFREE" /\ line(n).inode = n
    OBVIOUS
  <2> HIDE DEF line
  <2> QED  BY <2>1, <2>2, <2>3 DEF Says
<1>3. FreeInodes(img) = FlattenSeq(s)
  BY DEF FreeInodes
<1>4. AllOf(P, X) = FreeInodeItems(img)
  BY DEF FreeInodeItems, AllOf
<1>5. \A m, n \in X : m # n => P[m] \cap P[n] = {}
  OBVIOUS
<1>6. \A n \in X : s[n] = <<line(n)>> /\ P[n] = {item(n)}
  BY <1>1
<1>7. s \in [1..Bits -> Seq(Line)] /\ \A n \in 1..Bits : n \notin X => s[n] = <<>>
  <2>1. \A n \in X : <<line(n)>> \in Seq(Line)
    <3> TAKE n \in X
    <3>1. line(n) \in Line
      BY <1>2
    <3> HIDE DEF line
    <3> QED  BY <3>1
  <2> HIDE DEF line, X
  <2> QED  BY <2>1
<1> HIDE DEF s, P, R, line, item, X
<1>8. \A n \in X : Listed(s[n], P[n], R)
  <2> TAKE n \in X
  <2>1. <<line(n), item(n)>> \in R
    BY <1>2
  <2>2. Listed(<<line(n)>>, {item(n)}, R)
    BY <2>1, ListedOne
  <2> QED  BY <1>6, <2>2
<1>9. FlattenSeq(s) \in Seq(Line) /\ Listed(FlattenSeq(s), AllOf(P, X), R)
  BY <1>1, <1>5, <1>7, <1>8, ImageAssumption, ListedSome
<1> QED  BY <1>3, <1>4, <1>9 DEF R

-----------------------------------------------------------------------------
(* The entries of a directory.                                               *)

\* The entries of a block.
LEMMA EntriesType ==
  ASSUME NEW img, ImageType(img), NEW b
  PROVE  Entries(img, b) \in Seq([inode : Int, name : STRING])
BY DEF ImageType, Entries

\* A line for each entry of a block.
LEMMA BlockEntriesListed ==
  ASSUME NEW img, ImageType(img), NEW n \in InodesInUse(img), NEW k \in ReadBlocks(img, n)
  PROVE  LET entry == Entries(img, img.inode[n].block[k])
             lines == [j \in DOMAIN entry |-> [kind |-> "DIRENT", dir |-> n,
                                               inode |-> entry[j].inode, name |-> entry[j].name]]
         IN  lines \in Seq(Line) /\ Listed(lines, BlockEntryItems(img, n, k), Says(img))
<1> DEFINE entry == Entries(img, img.inode[n].block[k])
           line(j) == [kind |-> "DIRENT", dir |-> n,
                       inode |-> entry[j].inode, name |-> entry[j].name]
           item(j) == <<"DIRENT", n, <<k, j>>>>
           lines == [j \in DOMAIN entry |-> line(j)]
           f == [j \in DOMAIN entry |-> item(j)]
           P == BlockEntryItems(img, n, k)
           R == Says(img)
<1>1. P = {item(j) : j \in DOMAIN entry}
  BY DEF BlockEntryItems
<1>2. entry \in Seq([inode : Int, name : STRING])
  BY EntriesType
<1>3. n \in Nat \ {0}
  BY DEF InodesInUse
<1>4. ASSUME NEW j \in DOMAIN entry PROVE line(j) \in Line /\ <<line(j), item(j)>> \in R
  <2> DEFINE e == entry[j]
  <2>1. e.inode \in Int /\ e.name \in STRING
    <3>1. e \in [inode : Int, name : STRING]
      <4> DEFINE S == [inode : Int, name : STRING]
      <4> HIDE DEF entry, S
      <4>1. entry \in Seq(S)
        BY <1>2 DEF S
      <4>2. entry[j] \in S
        BY <4>1
      <4> QED  BY <4>2 DEF S
    <3> HIDE DEF e
    <3> QED  BY <3>1
  <2>2. line(j) \in Line
    <3> HIDE DEF e, entry
    <3>1. line(j) = [kind |-> "DIRENT", dir |-> n, inode |-> e.inode, name |-> e.name]
      BY DEF e
    <3> HIDE DEF line
    <3> QED  BY <1>3, <2>1, <3>1 DEF Line
  <2>3. item(j) \in Items(img)
    <3>1. item(j) \in EntryItems(img, n)
      BY DEF EntryItems, BlockEntryItems
    <3> HIDE DEF item
    <3>2. item(j) \in ItemsOf(img, n)
      BY <3>1 DEF ItemsOf
    <3> QED  BY <3>2 DEF Items
  <2>4. line(j).kind = "DIRENT" /\ line(j).dir = n /\ line(j).inode = e.inode /\ line(j).name = e.name
    OBVIOUS
  <2>5. e = Entries(img, img.inode[item(j)[2]].block[item(j)[3][1]])[item(j)[3][2]]
        /\ item(j)[1] = "DIRENT" /\ item(j)[2] = n
    OBVIOUS
  <2> HIDE DEF line, item, e
  <2> QED  BY <2>2, <2>3, <2>4, <2>5 DEF Says
<1>5. DOMAIN lines = DOMAIN entry /\ DOMAIN entry = 1..Len(entry) /\ Len(entry) \in Nat
  <2>1. DOMAIN lines = DOMAIN entry
    OBVIOUS
  <2> HIDE DEF entry, lines
  <2> QED  BY <1>2, <2>1
<1>6. lines \in Seq(Line)
  <2>1. lines = [j \in DOMAIN entry |-> lines[j]] /\ \A j \in DOMAIN entry : lines[j] = line(j)
    OBVIOUS
  <2> HIDE DEF lines, line, entry, item
  <2>2. \A j \in 1..Len(entry) : lines[j] \in Line
    BY <1>4, <1>5, <2>1
  <2> QED  BY <1>5, <2>1, <2>2
<1>7. f \in [DOMAIN lines -> P]
  BY <1>1, <1>5
<1>8. Stands(f, lines, P, R)
  <2>1. \A j \in DOMAIN lines : <<lines[j], f[j]>> \in R
    <3>1. \A j \in DOMAIN lines : lines[j] = line(j) /\ f[j] = item(j) /\ j \in DOMAIN entry
      OBVIOUS
    <3> HIDE DEF lines, f, line, item, entry, R
    <3> QED  BY <1>4, <3>1
  <2>2. \A p \in P : \E j \in DOMAIN lines : f[j] = p
    BY <1>1, <1>5
  <2>3. \A i, j \in DOMAIN lines : f[i] = f[j] => i = j
    BY <1>5
  <2> QED  BY <2>1, <2>2, <2>3 DEF Stands
<1>9. Listed(lines, P, R)
  <2> HIDE DEF lines, P, R, f
  <2> QED  BY <1>7, <1>8 DEF Listed
<1> QED  BY <1>6, <1>9

\* A line for each entry of a directory.
LEMMA DirectoryListed ==
  ASSUME NEW img, ImageType(img), NEW n \in InodesInUse(img)
  PROVE  /\ Directory(img, n) \in Seq(Line)
         /\ Listed(Directory(img, n), EntryItems(img, n), Says(img))
<1> DEFINE used == {k \in 1..NDir : \A j \in 1..k : img.inode[n].block[j] # 0}
           N == Cardinality(used)
           entry(k) == Entries(img, img.inode[n].block[k])
           line(k, j) == [kind |-> "DIRENT", dir |-> n,
                          inode |-> entry(k)[j].inode, name |-> entry(k)[j].name]
           s == [k \in 1..N |-> [j \in DOMAIN entry(k) |-> line(k, j)]]
           P == [k \in 1..N |-> BlockEntryItems(img, n, k)]
           R == Says(img)
<1>1. CASE FileType(img.inode[n].mode) # "d"
  <2>1. Directory(img, n) = <<>> /\ EntryItems(img, n) = {}
    BY <1>1 DEF Directory, EntryItems, ReadBlocks
  <2> QED  BY <2>1, ListedNothing
<1>2. CASE FileType(img.inode[n].mode) = "d"
  <2>1. Directory(img, n) = FlattenSeq(s)
    BY <1>2 DEF Directory
  <2>2. ReadBlocks(img, n) = 1..N
    BY <1>2 DEF ReadBlocks
  <2>3. N \in Nat
    <3>1. IsFiniteSet(1..NDir) /\ used \subseteq 1..NDir
      BY ImageAssumption, FS_Interval
    <3>2. IsFiniteSet(used)
      <4> HIDE DEF used
      <4> QED  BY <3>1, FS_Subset
    <3> HIDE DEF used
    <3> QED  BY <3>2, FS_CardinalityType
  <2> HIDE DEF N
  <2>4. ASSUME NEW k \in 1..N PROVE s[k] \in Seq(Line) /\ Listed(s[k], P[k], R)
    <3>1. s[k] = [j \in DOMAIN entry(k) |-> line(k, j)] /\ P[k] = BlockEntryItems(img, n, k)
      OBVIOUS
    <3>2. LET e == Entries(img, img.inode[n].block[k])
              lines == [j \in DOMAIN e |-> [kind |-> "DIRENT", dir |-> n,
                                            inode |-> e[j].inode, name |-> e[j].name]]
          IN  lines \in Seq(Line) /\ Listed(lines, BlockEntryItems(img, n, k), Says(img))
      BY <2>2, BlockEntriesListed
    <3> HIDE DEF s, P
    <3> QED  BY <3>1, <3>2
  <2>5. s \in [1..N -> Seq(Line)]
    <3>1. s = [k \in 1..N |-> s[k]]
      OBVIOUS
    <3> HIDE DEF s, P, R
    <3> QED  BY <2>4, <3>1
  <2>6. \A k \in 1..N : Listed(s[k], P[k], R)
    BY <2>4
  <2>7. \A i, k \in 1..N : i # k => P[i] \cap P[k] = {}
    BY DEF BlockEntryItems
  <2>8. AllOf(P, 1..N) = EntryItems(img, n)
    BY <2>2 DEF AllOf, EntryItems
  <2> HIDE DEF s, P, R
  <2>9. FlattenSeq(s) \in Seq(Line) /\ Listed(FlattenSeq(s), AllOf(P, 1..N), R)
    BY <2>3, <2>5, <2>6, <2>7, ListedOver
  <2> QED  BY <2>1, <2>8, <2>9 DEF R
<1> QED  BY <1>1, <1>2

-----------------------------------------------------------------------------
(* The paths of an inode's blocks, and the three roots.                      *)

\* A sequence is a function.
LEMMA SequenceIsFunction ==
  ASSUME NEW S, NEW s \in Seq(S)
  PROVE  s \in [1..Len(s) -> S] /\ Len(s) \in Nat
OBVIOUS

\* A path is a slot and some indices.
LEMMA PathParts ==
  ASSUME NEW start \in Int, NEW q \in Seq(Pointer)
  PROVE  /\ <<start>> \o q \in Seq(Int)
         /\ Head(<<start>> \o q) = start
         /\ Tail(<<start>> \o q) = q
         /\ Len(<<start>> \o q) = Len(q) + 1 /\ Len(q) \in Nat
         /\ q \in Seq(Int)
         /\ \A k \in 1..Len(q) : (<<start>> \o q)[k + 1] = q[k]
<1> DEFINE p == <<start>> \o q
<1>1. q \in Seq(Int)
  <2>1. Pointer \subseteq Int
    BY DEF Pointer
  <2>2. q \in [1..Len(q) -> Pointer] /\ Len(q) \in Nat
    BY SequenceIsFunction
  <2>3. q \in [1..Len(q) -> Int]
    BY <2>1, <2>2
  <2> QED  BY <2>2, <2>3, FunctionIsSequence
<1>2. /\ p \in Seq(Int) /\ Len(p) = Len(q) + 1 /\ Len(q) \in Nat /\ p[1] = start
      /\ \A k \in 1..Len(q) : p[k + 1] = q[k]
  <2>1. /\ <<start>> \o q \in Seq(Int)
        /\ Len(<<start>> \o q) = Len(q) + 1 /\ Len(q) \in Nat
        /\ (<<start>> \o q)[1] = start
        /\ \A k \in 1..Len(q) : (<<start>> \o q)[k + 1] = q[k]
    BY <1>1, PutFirst
  <2> QED  BY <2>1
<1> HIDE DEF p
<1>3. Head(p) = start
  BY <1>2
<1>4. /\ Tail(p) \in Seq(Int) /\ Len(Tail(p)) = Len(q)
      /\ \A k \in 1..Len(q) : Tail(p)[k] = p[k + 1]
  BY <1>2
<1>5. Tail(p) = q
  <2>1. \A k \in 1..Len(Tail(p)) : Tail(p)[k] = q[k]
    BY <1>2, <1>4
  <2> QED  BY <1>1, <1>4, <2>1, SameElements
<1> QED  BY <1>1, <1>2, <1>3, <1>5 DEF p

\* The paths from a slot.
LEMMA PathsFromSlot ==
  ASSUME NEW start \in Slots
  PROVE  PathsFrom(start) = {<<start>> \o q : q \in {r \in Seq(Pointer) : Len(r) \in 0..Level(start)}}
<1>1. start \in Int /\ Level(start) \in 0..3
  BY ImageAssumption DEF Slots, Level
<1>2. UNION {[1..k -> 1..PerBlock] : k \in 0..Level(start)}
        = {r \in Seq(Pointer) : Len(r) \in 0..Level(start)}
  <2>1. ASSUME NEW k \in 0..Level(start), NEW r \in [1..k -> 1..PerBlock]
        PROVE  r \in Seq(Pointer) /\ Len(r) = k
    <3>1. k \in Nat
      BY <1>1
    <3>2. r \in [1..k -> Pointer]
      BY DEF Pointer
    <3> QED  BY <3>1, <3>2, FunctionIsSequence
  <2>2. ASSUME NEW r \in Seq(Pointer), Len(r) \in 0..Level(start)
        PROVE  r \in [1..Len(r) -> 1..PerBlock]
    BY SequenceIsFunction DEF Pointer
  <2> QED  BY <2>1, <2>2
<1> QED  BY <1>2 DEF PathsFrom

\* Where a path leads to.
LEMMA PathLeads ==
  ASSUME NEW img, NEW n, NEW start \in Int, NEW q \in Seq(Pointer)
  PROVE  BlockAt(img, n, <<start>> \o q) = Below(img, img.inode[n].block[start], q)
<1>1. Head(<<start>> \o q) = start /\ Tail(<<start>> \o q) = q
  BY PathParts
<1> QED  BY <1>1, Zenon DEF BlockAt

\* The first entries of the blocks on a path.
LEMMA PathFirst ==
  ASSUME NEW img, NEW n, NEW start \in Int, NEW q \in Seq(Pointer),
         FirstOfItsBlocks(img, n, <<start>> \o q)
  PROVE  FirstBelow(img, img.inode[n].block[start], q)
<1> DEFINE p == <<start>> \o q
           b == img.inode[n].block[start]
<1>1. /\ p \in Seq(Int) /\ q \in Seq(Int) /\ Len(p) = Len(q) + 1 /\ Len(q) \in Nat
      /\ \A k \in 1..Len(q) : p[k + 1] = q[k]
  <2>1. /\ <<start>> \o q \in Seq(Int)
        /\ Len(<<start>> \o q) = Len(q) + 1 /\ Len(q) \in Nat
        /\ q \in Seq(Int)
        /\ \A k \in 1..Len(q) : (<<start>> \o q)[k + 1] = q[k]
    BY PathParts
  <2> QED  BY <2>1
<1>2. \A m \in 2..Len(p) : \A j \in 2..p[m] - 1 :
        BlockAt(img, n, Append(SubSeq(p, 1, m - 1), j)) = 0
  <2>1. FirstOfItsBlocks(img, n, p)
    OBVIOUS
  <2> HIDE DEF p
  <2> QED  BY <2>1 DEF FirstOfItsBlocks
<1>3. ASSUME NEW k \in 1..Len(q), NEW j \in 2..q[k] - 1
      PROVE  Below(img, b, Append(SubSeq(q, 1, k - 1), j)) = 0
  <2> DEFINE t == Append(SubSeq(q, 1, k - 1), j)
  <2>0. q[k] \in Pointer
    <3>1. \A x \in Seq(Pointer) : \A i \in 1..Len(x) : x[i] \in Pointer
      OBVIOUS
    <3> QED  BY <3>1
  <2>1. j \in Pointer
    BY <2>0, ImageAssumption DEF Pointer
  <2>2. Append(SubSeq(p, 1, k), j) = <<start>> \o t
    <3>1. j \in Int
      OBVIOUS
    <3> QED  BY <1>1, <3>1, CutFirst
  <2>3. t \in Seq(Pointer)
    BY <2>1, CutFirst
  <2> HIDE DEF t, p, b
  <2>4. BlockAt(img, n, <<start>> \o t) = 0
    <3>1. ASSUME NEW m \in 2..Len(p), m = k + 1 PROVE BlockAt(img, n, <<start>> \o t) = 0
      <4>1. j \in 2..p[m] - 1 /\ m - 1 = k
        BY <1>1, <3>1
      <4>2. BlockAt(img, n, Append(SubSeq(p, 1, m - 1), j)) = 0
        BY <1>2, <4>1
      <4> QED  BY <2>2, <4>1, <4>2
    <3>2. k + 1 \in 2..Len(p)
      BY <1>1
    <3> QED  BY <3>1, <3>2
  <2>5. BlockAt(img, n, <<start>> \o t) = Below(img, b, t)
    BY <2>3, PathLeads DEF b
  <2> QED  BY <2>4, <2>5 DEF t
<1> QED  BY <1>3 DEF FirstBelow, b

\* The items of one of the three roots.
RootItems(img, n, level) == {<<"INDIRECT", n, p>> : p \in PathsBelow(img, n, NDir + level)}

\* The slot of a root.
LEMMA RootSlot ==
  ASSUME NEW level \in 1..3
  PROVE  NDir + level \in Slots /\ NDir + level \in Int /\ Level(NDir + level) = level
BY ImageAssumption DEF Slots, Level

\* A line that tells about indices below a root is about the path.
LEMMA TellsPath ==
  ASSUME NEW img, ImageType(img), NEW n \in InodesInUse(img), NEW level \in 1..3, NEW l,
         NEW q \in Leading(img, level, img.inode[n].block[NDir + level]),
         <<l, q>> \in Tells(img, n, level, img.inode[n].block[NDir + level], BaseOffset(level))
  PROVE  /\ <<"INDIRECT", n, <<NDir + level>> \o q>> \in RootItems(img, n, level)
         /\ <<l, <<"INDIRECT", n, <<NDir + level>> \o q>>>> \in Says(img)
<1> DEFINE start == NDir + level
           root == img.inode[n].block[start]
           p == <<start>> \o q
           item == <<"INDIRECT", n, p>>
<1>1. q \in Seq(Pointer) /\ Len(q) \in 1..level /\ Below(img, root, q) # 0
  BY DEF Leading, Indices
<1>2. start \in Slots /\ start \in Int /\ Level(start) = level
  BY RootSlot
<1>3. /\ l \in Line /\ l.kind = "INDIRECT" /\ l.inode = n
      /\ l.level = level + 1 - Len(q) /\ l.block = Below(img, root, q)
      /\ l.offset >= BaseOffset(level) + Before(level, q)
      /\ FirstBelow(img, root, q) => l.offset = BaseOffset(level) + Before(level, q)
  BY DEF Tells
<1> HIDE DEF start
<1>4. Head(p) = start /\ Tail(p) = q /\ Len(p) = Len(q) + 1
  BY <1>1, <1>2, PathParts
<1>5. BlockAt(img, n, p) = Below(img, root, q)
  BY <1>1, <1>2, PathLeads
<1>6. FirstOfItsBlocks(img, n, p) => FirstBelow(img, root, q)
  BY <1>1, <1>2, PathFirst
<1>7. p \in PathsFrom(start)
  <2>1. PathsFrom(start) = {<<start>> \o r : r \in {r \in Seq(Pointer) : Len(r) \in 0..Level(start)}}
    BY <1>2, PathsFromSlot
  <2>2. Len(q) \in 0..Level(start)
    BY <1>1, <1>2
  <2> QED  BY <1>1, <2>1, <2>2
<1> HIDE DEF p, root
<1>8. p \in PathsBelow(img, n, start)
  BY <1>1, <1>4, <1>5, <1>7 DEF PathsBelow
<1>9. item \in RootItems(img, n, level)
  BY <1>8 DEF RootItems, start
<1>10. item \in Items(img)
  <2>1. item \in IndirectItems(img, n)
    BY <1>8 DEF IndirectItems, start
  <2> HIDE DEF item
  <2>2. item \in ItemsOf(img, n)
    BY <2>1 DEF ItemsOf
  <2> QED  BY <2>2 DEF Items
<1>11. l.level = HolderLevel(p)
  BY <1>1, <1>2, <1>3, <1>4 DEF HolderLevel
<1>12. Position(p) = BaseOffset(level) + Before(level, q)
  BY <1>2, <1>4 DEF Position
<1>13. item[1] = "INDIRECT" /\ item[2] = n /\ item[3] = p
  OBVIOUS
<1> HIDE DEF item
<1>14. <<l, item>> \in Says(img)
  BY <1>3, <1>5, <1>6, <1>10, <1>11, <1>12, <1>13 DEF Says
<1> QED  BY <1>9, <1>14 DEF item, p, start

\* A line for each block that is below a root.
LEMMA RootListed ==
  ASSUME NEW img, ImageType(img), NEW n \in InodesInUse(img), NEW level \in 1..3,
         img.inode[n].block[NDir + level] # 0
  PROVE  LET lines == IndirectBlock(img, n)[level][img.inode[n].block[NDir + level]]
                                           [BaseOffset(level)]
         IN  lines \in Seq(Line) /\ Listed(lines, RootItems(img, n, level), Says(img))
<1> DEFINE start == NDir + level
           root == img.inode[n].block[start]
           base == BaseOffset(level)
           lines == IndirectBlock(img, n)[level][root][base]
           P == Leading(img, level, root)
           R == Tells(img, n, level, root, base)
           Q == RootItems(img, n, level)
           R2 == Says(img)
           item(q) == <<"INDIRECT", n, <<start>> \o q>>
           h == [q \in P |-> item(q)]
<1>1. start \in Slots /\ start \in Int /\ Level(start) = level
  BY RootSlot
<1>2. n \in Nat \ {0} /\ n \in 1..NumInodes
  BY DEF InodesInUse
<1>3. root \in Int \ {0}
  <2> HIDE DEF start
  <2>1. img.inode[n].block \in [Slots -> Int]
    BY <1>2 DEF ImageType
  <2>2. root \in Int
    BY <1>1, <2>1
  <2> QED  BY <2>2 DEF start
<1>4. base \in Nat
  <2>1. PerBlock * PerBlock \in Nat
    BY ImageAssumption, ProductType
  <2> DEFINE sq == PerBlock * PerBlock
  <2> HIDE DEF sq
  <2>2. base = NDir + (IF level > 1 THEN PerBlock ELSE 0) + (IF level > 2 THEN sq ELSE 0)
    BY DEF BaseOffset, sq
  <2> HIDE DEF base
  <2> QED  BY <2>1, <2>2, ImageAssumption DEF sq
<1>5. lines \in Seq(Line) /\ Listed(lines, P, R)
  <2>1. /\ IndirectBlock(img, n)[level] \in LevelLines
        /\ LevelListed(img, n, level, IndirectBlock(img, n)[level])
    BY <1>2, IndirectListed
  <2> DEFINE g == IndirectBlock(img, n)[level]
  <2> HIDE DEF g, root, base
  <2>2. g[root][base] \in Seq(Line)
    BY <1>3, <1>4, <2>1 DEF LevelLines, g
  <2>3. Listed(g[root][base], Leading(img, level, root), Tells(img, n, level, root, base))
    BY <1>3, <1>4, <2>1 DEF LevelListed, g
  <2> QED  BY <2>2, <2>3 DEF g
<1>6. ASSUME NEW l, NEW q \in P, <<l, q>> \in R
      PROVE  item(q) \in Q /\ <<l, item(q)>> \in R2
  <2>1. item(q) \in Q
    BY <1>6, TellsPath
  <2>2. <<l, item(q)>> \in R2
    BY <1>6, TellsPath
  <2> QED  BY <2>1, <2>2
<1>7. \A q \in P : q \in Seq(Pointer)
  BY DEF Leading, Indices
<1>8. \A p, q \in P : item(p) = item(q) => p = q
  <2> SUFFICES ASSUME NEW p \in P, NEW q \in P, item(p) = item(q) PROVE p = q
    OBVIOUS
  <2>1. <<start>> \o p = <<start>> \o q
    OBVIOUS
  <2>2. p \in Seq(Pointer) /\ q \in Seq(Pointer)
    BY <1>7
  <2> HIDE DEF start, P
  <2>3. Tail(<<start>> \o p) = p /\ Tail(<<start>> \o q) = q
    BY <1>1, <2>2, PathParts
  <2> QED  BY <2>1, <2>3
<1>9. \A x \in Q : \E q \in P : x = item(q)
  <2> SUFFICES ASSUME NEW p \in PathsBelow(img, n, start)
               PROVE  \E q \in P : p = <<start>> \o q
    BY DEF RootItems
  <2>1. p \in PathsFrom(start) /\ Len(p) > 1 /\ BlockAt(img, n, p) # 0
    BY DEF PathsBelow
  <2> HIDE DEF start
  <2>2. PathsFrom(start) = {<<start>> \o q : q \in {r \in Seq(Pointer) : Len(r) \in 0..Level(start)}}
    BY <1>1, PathsFromSlot
  <2>3. PICK q \in Seq(Pointer) : Len(q) \in 0..level /\ p = <<start>> \o q
    BY <1>1, <2>1, <2>2
  <2>4. Len(p) = Len(q) + 1
    BY <1>1, <2>3, PathParts
  <2>5. Below(img, root, q) # 0
    BY <1>1, <2>1, <2>3, PathLeads
  <2>6. Len(q) \in 1..level
    BY <2>1, <2>3, <2>4
  <2> HIDE DEF root
  <2>7. q \in P
    BY <2>3, <2>5, <2>6 DEF Leading, Indices
  <2> QED  BY <2>3, <2>7
<1>10. \A q \in P : item(q) \in Q
  <2> SUFFICES ASSUME NEW q \in P PROVE item(q) \in Q
    OBVIOUS
  <2>0. q \in Seq(Pointer) /\ Len(q) \in 1..level /\ Below(img, root, q) # 0
    BY DEF Leading, Indices
  <2> HIDE DEF start, P
  <2>1. PathsFrom(start) = {<<start>> \o r : r \in {r \in Seq(Pointer) : Len(r) \in 0..Level(start)}}
    BY <1>1, PathsFromSlot
  <2>2. <<start>> \o q \in PathsFrom(start)
    <3>1. Len(q) \in 0..Level(start)
      BY <1>1, <2>0
    <3> QED  BY <2>0, <2>1, <3>1
  <2>3. Len(<<start>> \o q) = Len(q) + 1
    BY <1>1, <2>0, PathParts
  <2>4. BlockAt(img, n, <<start>> \o q) # 0
    BY <1>1, <2>0, PathLeads
  <2>5. <<start>> \o q \in PathsBelow(img, n, start)
    <3> DEFINE p == <<start>> \o q
    <3> HIDE DEF p
    <3>1. p \in PathsBelow(img, n, start)
      BY <2>0, <2>2, <2>3, <2>4 DEF p, PathsBelow
    <3> QED  BY <3>1 DEF p
  <2> QED  BY <2>5 DEF RootItems, start
<1>11. Listed(lines, Q, R2)
  <2> HIDE DEF lines, P, R, Q, R2, item
  <2>1. h \in [P -> Q] /\ \A x \in Q : \E q \in P : h[q] = x
    BY <1>9, <1>10
  <2>2. \A p, q \in P : h[p] = h[q] => p = q
    BY <1>8
  <2>3. \A k \in DOMAIN lines : \A q \in P : <<lines[k], q>> \in R => <<lines[k], h[q]>> \in R2
    BY <1>6
  <2> HIDE DEF h
  <2> QED  BY <1>5, <2>1, <2>2, <2>3, ListedAs
<1> QED  BY <1>5, <1>11

\* A line for each block of an inode that is below a root.
LEMMA IndirectRootsListed ==
  ASSUME NEW img, ImageType(img), NEW n \in InodesInUse(img)
  PROVE  /\ IndirectRoots(img, n) \in Seq(Line)
         /\ Listed(IndirectRoots(img, n), IndirectItems(img, n), Says(img))
<1> DEFINE root(level) == img.inode[n].block[NDir + level]
           lines(level) == IndirectBlock(img, n)[level][root(level)][BaseOffset(level)]
           s == [level \in 1..3 |-> IF root(level) # 0 THEN lines(level) ELSE <<>>]
           P == [level \in 1..3 |-> RootItems(img, n, level)]
           R == Says(img)
<1>1. IndirectRoots(img, n) = FlattenSeq(s)
  BY DEF IndirectRoots
<1>2. ASSUME NEW level \in 1..3 PROVE s[level] \in Seq(Line) /\ Listed(s[level], P[level], R)
  <2>1. CASE root(level) # 0
    <3>1. s[level] = lines(level) /\ P[level] = RootItems(img, n, level)
      BY <2>1
    <3>2. lines(level) \in Seq(Line) /\ Listed(lines(level), RootItems(img, n, level), R)
      <4>1. LET l == IndirectBlock(img, n)[level][img.inode[n].block[NDir + level]]
                                                 [BaseOffset(level)]
            IN  l \in Seq(Line) /\ Listed(l, RootItems(img, n, level), Says(img))
        BY <2>1, RootListed
      <4> QED  BY <4>1
    <3> HIDE DEF s, P, lines, R
    <3> QED  BY <3>1, <3>2
  <2>2. CASE root(level) = 0
    <3>1. s[level] = <<>> /\ P[level] = RootItems(img, n, level)
      BY <2>2
    <3>2. PathsBelow(img, n, NDir + level) = {}
      <4> DEFINE start == NDir + level
      <4>1. start \in Slots /\ start \in Int
        BY RootSlot
      <4> HIDE DEF start
      <4>2. PathsFrom(start) = {<<start>> \o r : r \in {r \in Seq(Pointer) : Len(r) \in 0..Level(start)}}
        BY <4>1, PathsFromSlot
      <4>3. ASSUME NEW q \in Seq(Pointer) PROVE BlockAt(img, n, <<start>> \o q) = 0
        <5>1. BlockAt(img, n, <<start>> \o q) = Below(img, img.inode[n].block[start], q)
          BY <4>1, PathLeads
        <5>2. img.inode[n].block[start] = 0
          BY <2>2 DEF start
        <5> QED  BY <5>1, <5>2, BelowZero
      <4>4. \A p \in PathsFrom(start) : BlockAt(img, n, p) = 0
        BY <4>2, <4>3
      <4> QED  BY <4>4 DEF PathsBelow, start
    <3>3. RootItems(img, n, level) = {}
      BY <3>2 DEF RootItems
    <3>4. <<>> \in Seq(Line) /\ Listed(<<>>, {}, R)
      BY ListedNothing
    <3> HIDE DEF s, P, R
    <3> QED  BY <3>1, <3>3, <3>4
  <2> QED  BY <2>1, <2>2
<1>3. s \in [1..3 -> Seq(Line)]
  <2>1. s = [level \in 1..3 |-> s[level]]
    OBVIOUS
  <2> HIDE DEF s, P, R
  <2> QED  BY <1>2, <2>1
<1>4. \A i, j \in 1..3 : i # j => P[i] \cap P[j] = {}
  <2> SUFFICES ASSUME NEW i \in 1..3, NEW j \in 1..3, i # j,
                      NEW p \in PathsBelow(img, n, NDir + i), p \in PathsBelow(img, n, NDir + j)
               PROVE  FALSE
    BY DEF RootItems
  <2>1. ASSUME NEW k \in 1..3, p \in PathsBelow(img, n, NDir + k) PROVE Head(p) = NDir + k
    <3> DEFINE start == NDir + k
    <3>1. start \in Slots /\ start \in Int
      BY RootSlot
    <3> HIDE DEF start
    <3>2. PathsFrom(start) = {<<start>> \o r : r \in {r \in Seq(Pointer) : Len(r) \in 0..Level(start)}}
      BY <3>1, PathsFromSlot
    <3>3. p \in PathsFrom(start)
      BY <2>1 DEF PathsBelow, start
    <3>4. PICK q \in Seq(Pointer) : p = <<start>> \o q
      BY <3>2, <3>3
    <3> QED  BY <3>1, <3>4, PathParts DEF start
  <2>2. Head(p) = NDir + i /\ Head(p) = NDir + j
    BY <2>1
  <2> QED  BY <2>2, ImageAssumption
<1>5. AllOf(P, 1..3) = IndirectItems(img, n)
  BY DEF AllOf, IndirectItems, RootItems
<1>6. \A level \in 1..3 : Listed(s[level], P[level], R)
  BY <1>2
<1> HIDE DEF s, P, R
<1>7. FlattenSeq(s) \in Seq(Line) /\ Listed(FlattenSeq(s), AllOf(P, 1..3), R)
  BY <1>3, <1>4, <1>6, ListedOver
<1> QED  BY <1>1, <1>5, <1>7 DEF R

-----------------------------------------------------------------------------
(* The whole summary.                                                        *)

\* The line of an inode is about it.
LEMMA InodeLineListed ==
  ASSUME NEW img, ImageType(img), NEW n \in InodesInUse(img)
  PROVE  /\ InodeLine(img, n) \in Line
         /\ <<InodeLine(img, n), InodeItem(n)>> \in Says(img)
<1> DEFINE l == InodeLine(img, n)
           inode == img.inode[n]
<1>1. n \in 1..NumInodes /\ n \in Nat \ {0}
  BY DEF InodesInUse
<1>2. inode \in [mode : SUBSET Nat, links : Nat, block : [Slots -> Int]]
  BY <1>1 DEF ImageType
<1>3. /\ l.kind = "INODE" /\ l.inode = n
      /\ l = [kind |-> "INODE", inode |-> n, type |-> FileType(inode.mode),
              links |-> inode.links, block |-> inode.block]
  BY DEF InodeLine
<1>4. FileType(inode.mode) \in {"f", "d", "s", "?"}
  BY DEF FileType
<1>5. inode.links \in Int /\ inode.block \in [Slots -> Int]
  <2> HIDE DEF inode
  <2> QED  BY <1>2
<1> HIDE DEF l, inode
<1>6. l \in Line
  BY <1>1, <1>3, <1>4, <1>5 DEF Line
<1> DEFINE item == InodeItem(n)
<1>7. item \in Items(img)
  <2>1. item \in ItemsOf(img, n)
    BY DEF ItemsOf
  <2> HIDE DEF item
  <2> QED  BY <2>1 DEF Items
<1>8. item[1] = "INODE" /\ item[2] = n
  BY DEF InodeItem
<1> HIDE DEF item
<1>9. <<l, item>> \in Says(img)
  BY <1>3, <1>6, <1>7, <1>8 DEF Says, l
<1> QED  BY <1>6, <1>9 DEF l, item

\* The lines about an inode.
LEMMA InodeListed ==
  ASSUME NEW img, ImageType(img), NEW n \in InodesInUse(img)
  PROVE  LET lines == <<InodeLine(img, n)>> \o Directory(img, n) \o IndirectRoots(img, n)
         IN  lines \in Seq(Line) /\ Listed(lines, ItemsOf(img, n), Says(img))
<1> DEFINE R == Says(img)
           a == <<InodeLine(img, n)>>
           d == Directory(img, n)
           r == IndirectRoots(img, n)
           A == {InodeItem(n)}
           D == EntryItems(img, n)
           I == IndirectItems(img, n)
<1>1. a \in Seq(Line) /\ Listed(a, A, R)
  <2> DEFINE l == InodeLine(img, n)
             x == InodeItem(n)
  <2>1. l \in Line /\ <<l, x>> \in R
    BY InodeLineListed
  <2> HIDE DEF l, x, R
  <2>2. <<l>> \in Seq(Line) /\ Listed(<<l>>, {x}, R)
    BY <2>1, ListedOne
  <2> QED  BY <2>2 DEF l, x
<1>2. d \in Seq(Line) /\ Listed(d, D, R)
  BY DirectoryListed
<1>3. r \in Seq(Line) /\ Listed(r, I, R)
  BY IndirectRootsListed
<1>4. A \cap D = {}
  BY DEF InodeItem, EntryItems, BlockEntryItems
<1>5. (A \cup D) \cap I = {}
  BY DEF InodeItem, EntryItems, BlockEntryItems, IndirectItems
<1>6. ItemsOf(img, n) = (A \cup D) \cup I
  BY DEF ItemsOf
<1> HIDE DEF a, d, r, A, D, I, R
<1>7. a \o d \in Seq(Line) /\ Listed(a \o d, A \cup D, R)
  BY <1>1, <1>2, <1>4, ListedConcat
<1> DEFINE b == a \o d
<1> HIDE DEF b
<1>8. b \in Seq(Line) /\ Listed(b, A \cup D, R)
  BY <1>7 DEF b
<1>9. b \o r \in Seq(Line) /\ Listed(b \o r, (A \cup D) \cup I, R)
  BY <1>3, <1>5, <1>8, ListedConcat
<1> QED  BY <1>6, <1>9 DEF a, b, d, r, R

\* Items(img), without those about the bitmaps.
AllItemsOf(img) == UNION {ItemsOf(img, n) : n \in InodesInUse(img)}

\* The lines about the inodes in use.
LEMMA InodeSummaryListed ==
  ASSUME NEW img, ImageType(img)
  PROVE  /\ InodeSummary(img) \in Seq(Line)
         /\ Listed(InodeSummary(img), AllItemsOf(img), Says(img))
<1> DEFINE X == InodesInUse(img)
           lines(n) == <<InodeLine(img, n)>> \o Directory(img, n) \o IndirectRoots(img, n)
           s == [n \in 1..NumInodes |-> IF InUse(img, n) THEN lines(n) ELSE <<>>]
           P == [n \in X |-> ItemsOf(img, n)]
           R == Says(img)
<1>1. X \in SUBSET (1..NumInodes)
  BY DEF InodesInUse
<1>2. \A n \in X : lines(n) \in Seq(Line) /\ Listed(lines(n), ItemsOf(img, n), R)
  <2> TAKE n \in X
  <2> HIDE DEF X
  <2>1. LET l == <<InodeLine(img, n)>> \o Directory(img, n) \o IndirectRoots(img, n)
        IN  l \in Seq(Line) /\ Listed(l, ItemsOf(img, n), Says(img))
    BY InodeListed DEF X
  <2> QED  BY <2>1
<1>3. InodeSummary(img) = FlattenSeq(s)
  BY DEF InodeSummary
<1>4. AllOf(P, X) = AllItemsOf(img)
  BY DEF AllOf, AllItemsOf
<1>5. \A m, n \in X : m # n => P[m] \cap P[n] = {}
  BY DEF ItemsOf, InodeItem, EntryItems, BlockEntryItems, IndirectItems
<1>6. /\ \A n \in X : s[n] = lines(n) /\ P[n] = ItemsOf(img, n)
      /\ \A n \in 1..NumInodes : n \notin X => s[n] = <<>>
      /\ s = [n \in 1..NumInodes |-> s[n]]
  BY DEF InodesInUse
<1> HIDE DEF s, P, R, X, lines
<1>7. s \in [1..NumInodes -> Seq(Line)]
  <2>1. <<>> \in Seq(Line)
    OBVIOUS
  <2>2. \A n \in 1..NumInodes : s[n] \in Seq(Line)
    BY <1>2, <1>6, <2>1
  <2> QED  BY <1>6, <2>2
<1>8. \A n \in X : Listed(s[n], P[n], R)
  BY <1>2, <1>6
<1>9. FlattenSeq(s) \in Seq(Line) /\ Listed(FlattenSeq(s), AllOf(P, X), R)
  BY <1>1, <1>5, <1>6, <1>7, <1>8, ImageAssumption, ListedSome
<1> QED  BY <1>3, <1>4, <1>9 DEF R

\* The lines of the free blocks are the first.
FreeFirst(lines) ==
  \A j, k \in DOMAIN lines : j <= k /\ lines[k].kind = "BFREE" => lines[j].kind = "BFREE"

\* The summary has one line for each item, and begins with the free blocks.
LEMMA SummaryListed ==
  ASSUME NEW img, ImageType(img)
  PROVE  /\ Summary(img) \in Seq(Line)
         /\ Listed(Summary(img), Items(img), Says(img))
         /\ FreeFirst(Summary(img))
<1> DEFINE R == Says(img)
           a == FreeBlocks(img)
           b == FreeInodes(img)
           c == InodeSummary(img)
           A == FreeBlockItems(img)
           B == FreeInodeItems(img)
           C == AllItemsOf(img)
<1>1. a \in Seq(Line) /\ Listed(a, A, R)
  BY FreeBlocksListed
<1>2. b \in Seq(Line) /\ Listed(b, B, R)
  BY FreeInodesListed
<1>3. c \in Seq(Line) /\ Listed(c, C, R)
  BY InodeSummaryListed
<1>4. \A x \in A : x[1] = "BFREE"
  BY DEF FreeBlockItems
<1>5. \A x \in B \cup C : x[1] # "BFREE"
  BY DEF FreeInodeItems, AllItemsOf, ItemsOf, InodeItem, EntryItems, BlockEntryItems, IndirectItems
<1>6. A \cap B = {} /\ (A \cup B) \cap C = {}
  <2>1. B \cap C = {}
    BY DEF FreeInodeItems, AllItemsOf, ItemsOf, InodeItem, EntryItems, BlockEntryItems, IndirectItems
  <2> HIDE DEF A, B, C
  <2> QED  BY <1>4, <1>5, <2>1
<1>7. \A l, x : <<l, x>> \in R => l.kind = x[1]
  BY DEF Says
<1>8. Summary(img) = (a \o b) \o c /\ Items(img) = (A \cup B) \cup C
  BY DEF Summary, Items, AllItemsOf
<1> HIDE DEF a, b, c, A, B, C, R
<1>9. a \o b \in Seq(Line) /\ Listed(a \o b, A \cup B, R)
  BY <1>1, <1>2, <1>6, ListedConcat
<1> DEFINE d == a \o b
<1> HIDE DEF d
<1>10. d \in Seq(Line) /\ Listed(d, A \cup B, R)
  BY <1>9 DEF d
<1>11. d \o c \in Seq(Line) /\ Listed(d \o c, (A \cup B) \cup C, R)
  BY <1>3, <1>6, <1>10, ListedConcat
<1>12. \A L, P : Listed(L, P, R) => \A k \in DOMAIN L : \E p \in P : L[k].kind = p[1]
  <2> SUFFICES ASSUME NEW L, NEW P, Listed(L, P, R), NEW k \in DOMAIN L
               PROVE  \E p \in P : L[k].kind = p[1]
    OBVIOUS
  <2>1. PICK f \in [DOMAIN L -> P] : Stands(f, L, P, R)
    BY DEF Listed
  <2>2. <<L[k], f[k]>> \in R /\ f[k] \in P
    BY <2>1 DEF Stands
  <2> QED  BY <1>7, <2>2
<1>13. /\ \A k \in DOMAIN a : a[k].kind = "BFREE"
       /\ \A k \in DOMAIN b : b[k].kind # "BFREE"
       /\ \A k \in DOMAIN c : c[k].kind # "BFREE"
  BY <1>1, <1>2, <1>3, <1>4, <1>5, <1>12
<1>14. FreeFirst(d \o c)
  <2> DEFINE m == Len(a)
             e == d \o c
  <2>1. /\ m \in Nat /\ Len(b) \in Nat /\ Len(c) \in Nat
        /\ DOMAIN a = 1..m /\ DOMAIN b = 1..Len(b) /\ DOMAIN c = 1..Len(c)
    BY <1>1, <1>2, <1>3
  <2>2. /\ Len(d) = m + Len(b)
        /\ \A k \in 1..m : d[k] = a[k]
        /\ \A k \in 1..Len(d) : k > m => d[k] = b[k - m]
    BY <1>1, <1>2 DEF d
  <2>3. /\ DOMAIN e = 1..Len(d) + Len(c)
        /\ \A k \in 1..Len(d) : e[k] = d[k]
        /\ \A k \in 1..Len(d) + Len(c) : k > Len(d) => e[k] = c[k - Len(d)]
    BY <1>3, <1>10
  <2> HIDE DEF m, e
  <2>4. ASSUME NEW k \in DOMAIN e, k <= m PROVE e[k].kind = "BFREE"
    <3>1. k \in 1..m /\ k \in 1..Len(d)
      BY <2>1, <2>2, <2>3, <2>4
    <3> QED  BY <1>13, <2>1, <2>2, <2>3, <3>1
  <2>5. ASSUME NEW k \in DOMAIN e, k > m PROVE e[k].kind # "BFREE"
    <3>1. CASE k <= Len(d)
      <4>1. k \in 1..Len(d) /\ k - m \in 1..Len(b)
        BY <2>1, <2>2, <2>3, <2>5, <3>1
      <4>2. e[k] = b[k - m]
        BY <2>2, <2>3, <2>5, <4>1
      <4> QED  BY <1>13, <2>1, <4>1, <4>2
    <3>2. CASE k > Len(d)
      <4>1. k - Len(d) \in 1..Len(c)
        BY <2>1, <2>2, <2>3, <3>2
      <4>2. e[k] = c[k - Len(d)]
        BY <2>3, <3>2
      <4> QED  BY <1>13, <2>1, <4>1, <4>2
    <3>3. Len(d) \in Int /\ k \in Int
      BY <2>1, <2>2, <2>3
    <3> QED  BY <3>1, <3>2, <3>3
  <2>6. FreeFirst(e)
    <3> SUFFICES ASSUME NEW j \in DOMAIN e, NEW k \in DOMAIN e, j <= k, e[k].kind = "BFREE"
                 PROVE  e[j].kind = "BFREE"
      BY DEF FreeFirst
    <3>1. j \in Int /\ k \in Int /\ m \in Int
      BY <2>1, <2>2, <2>3
    <3>2. ~ (k > m)
      BY <2>5
    <3>3. j <= m
      BY <3>1, <3>2
    <3> QED  BY <2>4, <3>3
  <2> QED  BY <2>6 DEF e
<1> QED  BY <1>8, <1>11, <1>14 DEF d, R

-----------------------------------------------------------------------------
(* The items and the references of an image.                                 *)

\* The kinds of items.
LEMMA ItemKinds ==
  ASSUME NEW img, NEW x \in Items(img)
  PROVE  /\ x[1] = "BFREE" => x[2] \in img.free_blocks /\ x = <<"BFREE", x[2], <<>>>>
         /\ x[1] = "IFREE" => x[2] \in img.free_inodes /\ x = <<"IFREE", x[2], <<>>>>
         /\ x[1] = "INODE" => x[2] \in InodesInUse(img) /\ x = InodeItem(x[2])
         /\ x[1] = "INDIRECT" => /\ x[2] \in InodesInUse(img)
                                 /\ x = <<"INDIRECT", x[2], x[3]>>
                                 /\ \E level \in 1..3 : x[3] \in PathsBelow(img, x[2], NDir + level)
<1>1. CASE x \in FreeBlockItems(img)
  BY <1>1 DEF FreeBlockItems
<1>2. CASE x \in FreeInodeItems(img)
  BY <1>2 DEF FreeInodeItems
<1>3. ASSUME NEW n \in InodesInUse(img), x \in ItemsOf(img, n)
      PROVE  /\ x[1] \notin {"BFREE", "IFREE"}
             /\ x[1] = "INODE" => x[2] = n /\ x = InodeItem(n)
             /\ x[1] = "INDIRECT" => /\ x[2] = n /\ x = <<"INDIRECT", n, x[3]>>
                                     /\ \E level \in 1..3 : x[3] \in PathsBelow(img, n, NDir + level)
  <2>1. CASE x = InodeItem(n)
    BY <2>1 DEF InodeItem
  <2>2. CASE x \in EntryItems(img, n)
    BY <2>2 DEF EntryItems, BlockEntryItems
  <2>3. CASE x \in IndirectItems(img, n)
    <3>0. PICK level \in 1..3 : \E p \in PathsBelow(img, n, NDir + level) : x = <<"INDIRECT", n, p>>
      BY <2>3 DEF IndirectItems
    <3>1. PICK p \in PathsBelow(img, n, NDir + level) : x = <<"INDIRECT", n, p>>
      BY <3>0
    <3>2. x[1] = "INDIRECT" /\ x[2] = n /\ x[3] = p
      BY <3>1
    <3> QED  BY <3>1, <3>2
  <2> QED  BY <1>3, <2>1, <2>2, <2>3 DEF ItemsOf
<1>4. CASE \E n \in InodesInUse(img) : x \in ItemsOf(img, n)
  BY <1>3, <1>4
<1> QED  BY <1>1, <1>2, <1>4 DEF Items

\* A slot of an inode in use, and what is below a root.
LEMMA ReferenceKinds ==
  ASSUME NEW img, ImageType(img), NEW r \in References(img)
  PROVE  /\ r[1] \in InodesInUse(img) /\ r = <<r[1], r[2]>>
         /\ \/ \E start \in Slots : r[2] = <<start>>
            \/ \E level \in 1..3 : r[2] \in PathsBelow(img, r[1], NDir + level)
<1>1. /\ r[1] \in InodesInUse(img) /\ r[2] \in Paths /\ r = <<r[1], r[2]>>
      /\ BlockAt(img, r[1], r[2]) # 0
  BY DEF References, InodesInUse
<1>2. PICK start \in Slots : r[2] \in PathsFrom(start)
  BY <1>1 DEF Paths
<1>3. PICK q \in Seq(Pointer) : Len(q) \in 0..Level(start) /\ r[2] = <<start>> \o q
  BY <1>2, PathsFromSlot
<1>4. start \in 1..(NDir + 3) /\ NDir \in Nat
  BY ImageAssumption DEF Slots
<1>5. Len(r[2]) = Len(q) + 1 /\ Len(q) \in Nat
  <2>1. start \in Int
    BY <1>4
  <2> QED  BY <1>3, <2>1, PathParts
<1>6. CASE Len(q) = 0
  <2>1. q = <<>>
    BY <1>6
  <2>2. r[2] = <<start>>
    BY <1>3, <1>4, <2>1
  <2> QED  BY <1>1, <2>2
<1>7. CASE Len(q) # 0
  <2>1. start > NDir
    BY <1>3, <1>4, <1>5, <1>7 DEF Level
  <2>2. start - NDir \in 1..3 /\ start = NDir + (start - NDir)
    BY <1>4, <2>1
  <2>3. r[2] \in PathsBelow(img, r[1], start)
    BY <1>1, <1>2, <1>5, <1>7 DEF PathsBelow
  <2>4. PICK level \in 1..3 : start = NDir + level
    BY <2>2
  <2>5. r[2] \in PathsBelow(img, r[1], NDir + level)
    BY <2>3, <2>4
  <2> QED  BY <1>1, <2>5
<1> QED  BY <1>5, <1>6, <1>7

\* What a slot of an inode leads to.
LEMMA SlotReference ==
  ASSUME NEW img, ImageType(img), NEW n \in InodesInUse(img), NEW start \in Slots
  PROVE  /\ BlockAt(img, n, <<start>>) = img.inode[n].block[start]
         /\ img.inode[n].block[start] \in Int
         /\ img.inode[n].block[start] # 0 => <<n, <<start>>>> \in References(img)
         /\ Len(<<start>>) = 1
<1>1. start \in Int /\ Level(start) \in 0..3 /\ <<>> \in Seq(Pointer) /\ Len(<<>>) = 0
  BY ImageAssumption DEF Slots, Level
<1>2. <<start>> \o <<>> = <<start>>
  BY <1>1
<1>3. img.inode[n].block[start] \in Int
  <2>1. n \in 1..NumInodes
    BY DEF InodesInUse
  <2>2. img.inode[n].block \in [Slots -> Int]
    BY <2>1 DEF ImageType
  <2> QED  BY <2>2
<1>4. BlockAt(img, n, <<start>> \o <<>>) = Below(img, img.inode[n].block[start], <<>>)
  BY <1>1, PathLeads
<1>5. BlockAt(img, n, <<start>>) = img.inode[n].block[start]
  BY <1>2, <1>3, <1>4, BelowNone
<1>6. <<start>> \in Paths
  <2>1. <<start>> \o <<>> \in PathsFrom(start)
    <3>1. Len(<<>>) \in 0..Level(start)
      BY <1>1
    <3> QED  BY <1>1, <3>1, PathsFromSlot
  <2> QED  BY <1>2, <2>1 DEF Paths
<1> QED  BY <1>3, <1>5, <1>6 DEF References, InodesInUse

\* What a path below a root leads to.
LEMMA PathReference ==
  ASSUME NEW img, NEW n \in InodesInUse(img), NEW level \in 1..3,
         NEW p \in PathsBelow(img, n, NDir + level)
  PROVE  <<n, p>> \in References(img) /\ Len(p) > 1
<1>1. NDir + level \in Slots
  BY RootSlot
<1> QED  BY <1>1 DEF PathsBelow, References, InodesInUse, Paths

-----------------------------------------------------------------------------
(* The lines of the file and the image.                                      *)

\* The lines of the file stand for the items of the image.
Summarised == ImageType(image) /\ file = Summary(image)

\* The file lists the items of its image.
LEMMA FileItems ==
  ASSUME Summarised
  PROVE  /\ file \in Seq(Line)
         /\ \E f \in [DOMAIN file -> Items(image)] : Stands(f, file, Items(image), Says(image))
BY SummaryListed DEF Summarised, Listed

\* What a line and its item have in common.
LEMMA LineSays ==
  ASSUME NEW l, NEW x, <<l, x>> \in Says(image)
  PROVE  /\ l \in Line /\ x \in Items(image) /\ l.kind = x[1]
         /\ l.kind = "BFREE" => l.block = x[2]
         /\ l.kind = "IFREE" => l.inode = x[2]
         /\ l.kind = "INODE" => l = InodeLine(image, x[2])
         /\ l.kind = "INDIRECT" => l.block = BlockAt(image, x[2], x[3])
BY DEF Says

\* The BFREE lines are about the free blocks.
LEMMA FreeListedExact ==
  ASSUME Summarised, NEW b
  PROVE  FreeListed(b) <=> b \in image.free_blocks
<1>1. PICK f \in [DOMAIN file -> Items(image)] : Stands(f, file, Items(image), Says(image))
  BY FileItems
<1>2. ASSUME NEW k \in DOMAIN file, file[k].kind = "BFREE", file[k].block = b
      PROVE  b \in image.free_blocks
  <2>1. <<file[k], f[k]>> \in Says(image)
    BY <1>1 DEF Stands
  <2> DEFINE x == f[k]
             l == file[k]
  <2> HIDE DEF x, l
  <2>2. <<l, x>> \in Says(image) /\ l.kind = "BFREE" /\ l.block = b
    BY <1>2, <2>1 DEF x, l
  <2> QED  BY <2>2, LineSays, ItemKinds
<1>3. ASSUME b \in image.free_blocks PROVE FreeListed(b)
  <2> DEFINE x == <<"BFREE", b, <<>>>>
  <2>1. x \in Items(image) /\ x[1] = "BFREE" /\ x[2] = b
    BY <1>3 DEF Items, FreeBlockItems
  <2> HIDE DEF x
  <2>2. PICK k \in DOMAIN file : f[k] = x
    BY <1>1, <2>1 DEF Stands
  <2>3. <<file[k], x>> \in Says(image)
    BY <1>1, <2>2 DEF Stands
  <2>4. file[k].kind = "BFREE" /\ file[k].block = b
    BY <2>1, <2>3, LineSays
  <2> QED  BY <2>4 DEF FreeListed
<1> QED  BY <1>2, <1>3 DEF FreeListed

\* The IFREE lines are about the free inodes.
LEMMA FreeInodesExact ==
  ASSUME Summarised
  PROVE  (\E l \in Lines("IFREE") : l.inode > NumInodes)
           <=> ~ (image.free_inodes \subseteq 1..NumInodes)
<1>1. PICK f \in [DOMAIN file -> Items(image)] : Stands(f, file, Items(image), Says(image))
  BY FileItems
<1>2. \A n \in image.free_inodes : n \in Nat \ {0} /\ (n \in 1..NumInodes <=> ~ (n > NumInodes))
  BY ImageAssumption DEF Summarised, ImageType
<1>3. ASSUME NEW l \in Lines("IFREE") PROVE l.inode \in image.free_inodes
  <2>1. PICK k \in DOMAIN file : l = file[k]
    BY DEF Lines, ToSet
  <2>2. <<l, f[k]>> \in Says(image) /\ l.kind = "IFREE"
    BY <1>1, <2>1 DEF Stands, Lines
  <2> DEFINE x == f[k]
  <2> HIDE DEF x
  <2>3. <<l, x>> \in Says(image)
    BY <2>2 DEF x
  <2> QED  BY <2>2, <2>3, LineSays, ItemKinds
<1>4. ASSUME NEW n \in image.free_inodes PROVE \E l \in Lines("IFREE") : l.inode = n
  <2> DEFINE x == <<"IFREE", n, <<>>>>
  <2>1. x \in Items(image) /\ x[1] = "IFREE" /\ x[2] = n
    BY DEF Items, FreeInodeItems
  <2> HIDE DEF x
  <2>2. PICK k \in DOMAIN file : f[k] = x
    BY <1>1, <2>1 DEF Stands
  <2>3. <<file[k], x>> \in Says(image)
    BY <1>1, <2>2 DEF Stands
  <2>4. file[k].kind = "IFREE" /\ file[k].inode = n
    BY <2>1, <2>3, LineSays
  <2>5. file[k] \in Lines("IFREE")
    BY <2>4 DEF Lines, ToSet
  <2> QED  BY <2>4, <2>5
<1> QED  BY <1>2, <1>3, <1>4

\* The uses of blocks that the file tells of.
FileUses == {u \in (DOMAIN file) \X Slots : IsUse(u) /\ BlockOf(u) # 0}

\* ref is the reference that each of them is.
Refers(ref) ==
  /\ \A u \in FileUses : BlockAt(image, ref[u][1], ref[u][2]) = BlockOf(u)
  /\ \A u, v \in FileUses : ref[u] = ref[v] => u = v
  /\ \A r \in References(image) : \E u \in FileUses : ref[u] = r

\* Each of them is another reference, and every reference is told of.
LEMMA UsesAreReferences ==
  ASSUME Summarised
  PROVE  \E ref \in [FileUses -> References(image)] : Refers(ref)
<1>0. PICK f \in [DOMAIN file -> Items(image)] : Stands(f, file, Items(image), Says(image))
  BY FileItems
<1>1. /\ \A k \in DOMAIN file : <<file[k], f[k]>> \in Says(image)
      /\ \A x \in Items(image) : \E k \in DOMAIN file : f[k] = x
      /\ \A j, k \in DOMAIN file : f[j] = f[k] => j = k
  BY <1>0 DEF Stands
<1>n. ImageType(image) /\ NDir \in Nat /\ 1 \in Slots
  BY ImageAssumption DEF Summarised, Slots
<1> DEFINE path(u) == IF file[u[1]].kind = "INODE" THEN <<u[2]>> ELSE f[u[1]][3]
           to(u) == <<f[u[1]][2], path(u)>>
           ref == [u \in FileUses |-> to(u)]
<1>2. ASSUME NEW k \in DOMAIN file, file[k].kind = "INODE"
      PROVE  /\ f[k][2] \in InodesInUse(image) /\ f[k] = InodeItem(f[k][2])
             /\ file[k].block = image.inode[f[k][2]].block
  <2> DEFINE x == f[k]
             l == file[k]
  <2>1. <<l, x>> \in Says(image) /\ l.kind = "INODE"
    BY <1>1, <1>2
  <2> HIDE DEF x, l
  <2>2. x \in Items(image) /\ x[1] = "INODE" /\ l = InodeLine(image, x[2])
    BY <2>1, LineSays
  <2>3. x[2] \in InodesInUse(image) /\ x = InodeItem(x[2])
    BY <2>2, ItemKinds
  <2>4. l.block = image.inode[x[2]].block
    BY <2>2 DEF InodeLine
  <2> QED  BY <2>3, <2>4 DEF x, l
<1>3. ASSUME NEW k \in DOMAIN file, file[k].kind = "INDIRECT"
      PROVE  /\ f[k][2] \in InodesInUse(image) /\ f[k] = <<"INDIRECT", f[k][2], f[k][3]>>
             /\ <<f[k][2], f[k][3]>> \in References(image) /\ Len(f[k][3]) > 1
             /\ file[k].block = BlockAt(image, f[k][2], f[k][3])
             /\ file[k].block # 0
  <2> DEFINE x == f[k]
             l == file[k]
  <2>1. <<l, x>> \in Says(image) /\ l.kind = "INDIRECT"
    BY <1>1, <1>3
  <2> HIDE DEF x, l
  <2>2. x \in Items(image) /\ x[1] = "INDIRECT" /\ l.block = BlockAt(image, x[2], x[3])
    BY <2>1, LineSays
  <2>3. /\ x[2] \in InodesInUse(image) /\ x = <<"INDIRECT", x[2], x[3]>>
        /\ \E level \in 1..3 : x[3] \in PathsBelow(image, x[2], NDir + level)
    BY <2>2, ItemKinds
  <2>4. <<x[2], x[3]>> \in References(image) /\ Len(x[3]) > 1
    BY <2>3, PathReference
  <2>5. BlockAt(image, x[2], x[3]) # 0
    BY <2>3 DEF PathsBelow
  <2> QED  BY <2>2, <2>3, <2>4, <2>5 DEF x, l
<1>4. ASSUME NEW u \in FileUses
      PROVE  /\ u[1] \in DOMAIN file /\ u[2] \in Slots /\ u = <<u[1], u[2]>>
             /\ file[u[1]].kind \in {"INODE", "INDIRECT"}
             /\ file[u[1]].kind = "INDIRECT" => u[2] = 1
             /\ BlockOf(u) # 0
             /\ BlockOf(u) = IF file[u[1]].kind = "INODE" THEN file[u[1]].block[u[2]]
                             ELSE file[u[1]].block
  BY DEF FileUses, IsUse, BlockOf
<1>5. ASSUME NEW u \in FileUses
      PROVE  /\ to(u) \in References(image)
             /\ BlockAt(image, to(u)[1], to(u)[2]) = BlockOf(u)
             /\ file[u[1]].kind = "INODE" <=> Len(to(u)[2]) = 1
  <2> DEFINE n == f[u[1]][2]
  <2>1. CASE file[u[1]].kind = "INODE"
    <3>1. to(u) = <<n, <<u[2]>>>> /\ to(u)[1] = n /\ to(u)[2] = <<u[2]>>
      BY <2>1
    <3>2. BlockOf(u) = image.inode[n].block[u[2]] /\ n \in InodesInUse(image)
      BY <1>2, <1>4, <2>1
    <3> HIDE DEF n, to
    <3>3. u[2] \in Slots /\ BlockOf(u) # 0
      BY <1>4
    <3> QED  BY <1>n, <2>1, <3>1, <3>2, <3>3, SlotReference
  <2>2. CASE file[u[1]].kind = "INDIRECT"
    <3>1. to(u) = <<n, f[u[1]][3]>> /\ to(u)[1] = n /\ to(u)[2] = f[u[1]][3]
      BY <2>2
    <3> HIDE DEF to
    <3>2. Len(to(u)[2]) > 1 /\ ~ (Len(to(u)[2]) = 1)
      <4>1. Len(to(u)[2]) > 1
        BY <1>3, <1>4, <2>2, <3>1
      <4>2. \A m : m = 1 => ~ (m > 1)
        OBVIOUS
      <4> QED  BY <4>1, <4>2, Zenon
    <3> QED  BY <1>3, <1>4, <2>2, <3>1, <3>2
  <2> QED  BY <1>4, <2>1, <2>2
<1>6. ASSUME NEW u \in FileUses, NEW v \in FileUses, to(u) = to(v) PROVE u = v
  <2>1. (file[u[1]].kind = "INODE") <=> (file[v[1]].kind = "INODE")
    <3> HIDE DEF to
    <3>1. \A w \in FileUses : file[w[1]].kind = "INODE" <=> Len(to(w)[2]) = 1
      BY <1>5
    <3> QED  BY <1>6, <3>1
  <2>2. f[u[1]][2] = f[v[1]][2] /\ path(u) = path(v)
    BY <1>6
  <2>3. CASE file[u[1]].kind = "INODE"
    <3>1. file[v[1]].kind = "INODE" /\ u[2] = v[2]
      BY <2>1, <2>2, <2>3
    <3>2. f[u[1]] = f[v[1]]
      BY <1>2, <1>4, <2>2, <2>3, <3>1
    <3>3. u[1] = v[1]
      BY <1>1, <1>4, <3>2
    <3> QED  BY <1>4, <3>1, <3>3
  <2>4. CASE file[u[1]].kind = "INDIRECT"
    <3>1. file[v[1]].kind = "INDIRECT" /\ u[2] = 1 /\ v[2] = 1
      BY <1>4, <2>1, <2>4
    <3>2. f[u[1]] = f[v[1]]
      BY <1>3, <1>4, <2>2, <2>4, <3>1
    <3>3. u[1] = v[1]
      BY <1>1, <1>4, <3>2
    <3> QED  BY <1>4, <3>1, <3>3
  <2> QED  BY <1>4, <2>3, <2>4
<1>7. ASSUME NEW r \in References(image) PROVE \E u \in FileUses : to(u) = r
  <2>1. /\ r[1] \in InodesInUse(image) /\ r = <<r[1], r[2]>>
        /\ \/ \E s \in Slots : r[2] = <<s>>
           \/ \E level \in 1..3 : r[2] \in PathsBelow(image, r[1], NDir + level)
    BY <1>n, ReferenceKinds
  <2>2. BlockAt(image, r[1], r[2]) # 0
    BY DEF References
  <2>3. CASE \E s \in Slots : r[2] = <<s>>
    <3>1. PICK s \in Slots : r[2] = <<s>>
      BY <2>3
    <3> DEFINE x == InodeItem(r[1])
    <3>2. x \in Items(image) /\ x[1] = "INODE" /\ x[2] = r[1]
      <4>1. x \in ItemsOf(image, r[1])
        BY DEF ItemsOf
      <4>2. x[1] = "INODE" /\ x[2] = r[1]
        BY DEF InodeItem
      <4> QED  BY <2>1, <4>1, <4>2 DEF Items
    <3> HIDE DEF x
    <3>3. PICK k \in DOMAIN file : f[k] = x
      BY <1>1, <3>2
    <3>4. <<file[k], x>> \in Says(image)
      BY <1>1, <3>3
    <3>5. file[k].kind = "INODE"
      BY <3>2, <3>4, LineSays
    <3> DEFINE u == <<k, s>>
    <3>6. BlockOf(u) = image.inode[r[1]].block[s]
      BY <1>2, <3>2, <3>3, <3>5 DEF BlockOf
    <3>7. BlockOf(u) # 0
      BY <1>n, <2>1, <2>2, <3>1, <3>6, SlotReference
    <3>8. u \in FileUses
      BY <3>5, <3>7 DEF FileUses, IsUse
    <3>9. to(u) = r
      BY <2>1, <3>1, <3>2, <3>3, <3>5
    <3> QED  BY <3>8, <3>9
  <2>4. CASE \E level \in 1..3 : r[2] \in PathsBelow(image, r[1], NDir + level)
    <3> DEFINE x == <<"INDIRECT", r[1], r[2]>>
    <3>1. x \in Items(image) /\ x[1] = "INDIRECT" /\ x[2] = r[1] /\ x[3] = r[2]
      <4>1. x \in IndirectItems(image, r[1])
        BY <2>4 DEF IndirectItems
      <4>2. x \in ItemsOf(image, r[1])
        BY <4>1 DEF ItemsOf
      <4> QED  BY <2>1, <4>2 DEF Items
    <3> HIDE DEF x
    <3>2. PICK k \in DOMAIN file : f[k] = x
      BY <1>1, <3>1
    <3>3. <<file[k], x>> \in Says(image)
      BY <1>1, <3>2
    <3>4. file[k].kind = "INDIRECT"
      BY <3>1, <3>3, LineSays
    <3> DEFINE u == <<k, 1>>
    <3>5. BlockOf(u) # 0
      BY <1>3, <3>4 DEF BlockOf
    <3>6. u \in FileUses
      BY <1>n, <3>4, <3>5 DEF FileUses, IsUse
    <3>7. to(u) = r
      BY <2>1, <3>1, <3>2, <3>4
    <3> QED  BY <3>6, <3>7
  <2> QED  BY <2>1, <2>3, <2>4
<1> HIDE DEF to
<1>8. ref \in [FileUses -> References(image)]
  BY <1>5
<1>9. Refers(ref)
  BY <1>5, <1>6, <1>7 DEF Refers
<1> QED  BY <1>8, <1>9

\* The uses are of data blocks that are not free, none is of the block of another.
UsesRight(uses) ==
  /\ \A u \in uses : BlockOf(u) \in DataBlocks /\ ~FreeListed(BlockOf(u))
  /\ \A u, v \in uses : BlockOf(u) = BlockOf(v) => u = v

\* The file is one about which the audit of the blocks has nothing to say.
FileRight ==
  /\ UsesRight(FileUses)
  /\ \A b \in DataBlocks : \E k \in DOMAIN file : Mentions(file[k], b)

\* A block that is not 0 is mentioned as free or as used.
LEMMA MentionedAs ==
  ASSUME file \in Seq(Line), NEW b, b # 0
  PROVE  (\E k \in DOMAIN file : Mentions(file[k], b))
           <=> FreeListed(b) \/ \E u \in FileUses : BlockOf(u) = b
<1>1. 1 \in Slots
  BY ImageAssumption DEF Slots
<1>2. ASSUME NEW k \in DOMAIN file, Mentions(file[k], b)
      PROVE  FreeListed(b) \/ \E u \in FileUses : BlockOf(u) = b
  <2>1. CASE file[k].kind = "BFREE"
    BY <1>2, <2>1 DEF Mentions, FreeListed
  <2>2. CASE file[k].kind = "INDIRECT"
    <3>1. file[k].block = b
      BY <1>2, <2>2 DEF Mentions
    <3>2. <<k, 1>> \in FileUses /\ BlockOf(<<k, 1>>) = b
      BY <1>1, <2>2, <3>1 DEF FileUses, IsUse, BlockOf
    <3> QED  BY <3>2
  <2>3. CASE file[k].kind = "INODE"
    <3>1. PICK s \in Slots : file[k].block[s] = b
      BY <1>2, <2>3 DEF Mentions
    <3>2. <<k, s>> \in FileUses /\ BlockOf(<<k, s>>) = b
      BY <2>3, <3>1 DEF FileUses, IsUse, BlockOf
    <3> QED  BY <3>2
  <2>4. file[k].kind \in {"BFREE", "INDIRECT", "INODE"}
    BY <1>2 DEF Mentions
  <2> QED  BY <2>1, <2>2, <2>3, <2>4
<1>3. ASSUME FreeListed(b) PROVE \E k \in DOMAIN file : Mentions(file[k], b)
  BY <1>3 DEF FreeListed, Mentions
<1>4. ASSUME NEW u \in FileUses, BlockOf(u) = b PROVE \E k \in DOMAIN file : Mentions(file[k], b)
  <2>1. u[1] \in DOMAIN file /\ u[2] \in Slots /\ IsUse(u)
    BY DEF FileUses
  <2>2. Mentions(file[u[1]], b)
    BY <1>4, <2>1 DEF Mentions, IsUse, BlockOf
  <2> QED  BY <2>1, <2>2
<1> QED  BY <1>2, <1>3, <1>4

\* That is so exactly if the blocks of the image are consistent.
LEMMA FileTellsBlocks ==
  ASSUME Summarised
  PROVE  FileRight <=> BlocksConsistent(image)
<1> DEFINE used(r) == BlockAt(image, r[1], r[2])
           refs == References(image)
<1>1. PICK ref \in [FileUses -> refs] : Refers(ref)
  BY UsesAreReferences
<1>2. /\ \A u \in FileUses : used(ref[u]) = BlockOf(u) /\ ref[u] \in refs
      /\ \A u, v \in FileUses : ref[u] = ref[v] => u = v
      /\ \A r \in refs : \E u \in FileUses : ref[u] = r
  BY <1>1 DEF Refers
<1>3. \A b : FreeListed(b) <=> b \in image.free_blocks
  BY FreeListedExact
<1>4. \A b \in DataBlocks :
        (\E k \in DOMAIN file : Mentions(file[k], b))
          <=> b \in image.free_blocks \/ \E u \in FileUses : BlockOf(u) = b
  <2> TAKE b \in DataBlocks
  <2>1. b # 0 /\ file \in Seq(Line)
    BY DataBlockIsPositive, FileItems
  <2> QED  BY <1>3, <2>1, MentionedAs
<1>5. BlocksConsistent(image) <=>
        /\ {used(r) : r \in refs} = DataBlocks \ image.free_blocks
        /\ \A r, s \in refs : used(r) = used(s) => r = s
  BY DEF BlocksConsistent
<1> HIDE DEF used, refs
<1>6. ASSUME FileRight PROVE BlocksConsistent(image)
  <2>1. /\ \A u \in FileUses : BlockOf(u) \in DataBlocks \ image.free_blocks
        /\ \A u, v \in FileUses : BlockOf(u) = BlockOf(v) => u = v
        /\ \A b \in DataBlocks \ image.free_blocks : \E u \in FileUses : BlockOf(u) = b
    BY <1>3, <1>4, <1>6 DEF FileRight, UsesRight
  <2>2. \A r \in refs : used(r) \in DataBlocks \ image.free_blocks
    BY <1>2, <2>1
  <2>3. \A b \in DataBlocks \ image.free_blocks : \E r \in refs : used(r) = b
    BY <1>2, <2>1
  <2>4. \A r, s \in refs : used(r) = used(s) => r = s
    <3> SUFFICES ASSUME NEW r \in refs, NEW s \in refs, used(r) = used(s) PROVE r = s
      OBVIOUS
    <3>1. PICK u \in FileUses : ref[u] = r
      BY <1>2
    <3>2. PICK v \in FileUses : ref[v] = s
      BY <1>2
    <3>3. BlockOf(u) = BlockOf(v)
      BY <1>2, <3>1, <3>2
    <3> QED  BY <2>1, <3>1, <3>2, <3>3
  <2>5. {used(r) : r \in refs} = DataBlocks \ image.free_blocks
    BY <2>2, <2>3
  <2> QED  BY <1>5, <2>4, <2>5
<1>7. ASSUME BlocksConsistent(image) PROVE FileRight
  <2>1. /\ \A r \in refs : used(r) \in DataBlocks \ image.free_blocks
        /\ \A b \in DataBlocks \ image.free_blocks : \E r \in refs : used(r) = b
        /\ \A r, s \in refs : used(r) = used(s) => r = s
    BY <1>5, <1>7
  <2>2. \A u \in FileUses : BlockOf(u) \in DataBlocks \ image.free_blocks
    BY <1>2, <2>1
  <2>3. \A u, v \in FileUses : BlockOf(u) = BlockOf(v) => u = v
    <3> SUFFICES ASSUME NEW u \in FileUses, NEW v \in FileUses, BlockOf(u) = BlockOf(v) PROVE u = v
      OBVIOUS
    <3>1. used(ref[u]) = used(ref[v])
      BY <1>2
    <3>2. ref[u] = ref[v]
      BY <1>2, <2>1, <3>1
    <3> QED  BY <1>2, <3>2
  <2>4. \A b \in DataBlocks \ image.free_blocks : \E u \in FileUses : BlockOf(u) = b
    <3> TAKE b \in DataBlocks \ image.free_blocks
    <3>1. PICK r \in refs : used(r) = b
      BY <2>1
    <3>2. PICK u \in FileUses : ref[u] = r
      BY <1>2
    <3> QED  BY <1>2, <3>1, <3>2
  <2> QED  BY <1>3, <1>4, <2>2, <2>3, <2>4 DEF FileRight, UsesRight
<1> QED  BY <1>6, <1>7

\* The INDIRECT lines are those about the blocks below the roots, one about each.
LEMMA FileTellsTree ==
  ASSUME Summarised
  PROVE  LET below == {r \in References(image) : Len(r[2]) > 1}
             listed == {k \in DOMAIN file : file[k].kind = "INDIRECT"}
             lists(l, n, path) == /\ l.inode = n
                                  /\ l.level = HolderLevel(path)
                                  /\ l.block = BlockAt(image, n, path)
                                  /\ l.offset >= Position(path)
                                  /\ FirstOfItsBlocks(image, n, path) => l.offset = Position(path)
         IN  /\ \A r \in below : \E k \in listed : lists(file[k], r[1], r[2])
             /\ Cardinality(listed) = Cardinality(below)
<1> DEFINE below == {r \in References(image) : Len(r[2]) > 1}
           listed == {k \in DOMAIN file : file[k].kind = "INDIRECT"}
           lists(l, n, path) == /\ l.inode = n
                                /\ l.level = HolderLevel(path)
                                /\ l.block = BlockAt(image, n, path)
                                /\ l.offset >= Position(path)
                                /\ FirstOfItsBlocks(image, n, path) => l.offset = Position(path)
<1>0. PICK f \in [DOMAIN file -> Items(image)] : Stands(f, file, Items(image), Says(image))
  BY FileItems
<1>1. /\ \A k \in DOMAIN file : <<file[k], f[k]>> \in Says(image)
      /\ \A x \in Items(image) : \E k \in DOMAIN file : f[k] = x
      /\ \A j, k \in DOMAIN file : f[j] = f[k] => j = k
  BY <1>0 DEF Stands
<1>2. ASSUME NEW k \in listed
      PROVE  /\ f[k] = <<"INDIRECT", f[k][2], f[k][3]>>
             /\ <<f[k][2], f[k][3]>> \in below
             /\ lists(file[k], f[k][2], f[k][3])
  <2> DEFINE x == f[k]
             l == file[k]
  <2>1. <<l, x>> \in Says(image) /\ l.kind = "INDIRECT"
    BY <1>1
  <2> HIDE DEF x, l
  <2>2. lists(l, x[2], x[3]) /\ x \in Items(image) /\ x[1] = "INDIRECT"
    BY <2>1 DEF Says
  <2>3. /\ x[2] \in InodesInUse(image) /\ x = <<"INDIRECT", x[2], x[3]>>
        /\ \E level \in 1..3 : x[3] \in PathsBelow(image, x[2], NDir + level)
    BY <2>2, ItemKinds
  <2>4. <<x[2], x[3]>> \in References(image) /\ Len(x[3]) > 1
    BY <2>3, PathReference
  <2>5. <<x[2], x[3]>> \in below
    BY <2>4
  <2> HIDE DEF lists, below
  <2> QED  BY <2>2, <2>3, <2>5 DEF x, l
<1>3. ASSUME NEW r \in below PROVE \E k \in listed : r = <<f[k][2], f[k][3]>>
  <2>1. /\ r[1] \in InodesInUse(image) /\ r = <<r[1], r[2]>>
        /\ \/ \E s \in Slots : r[2] = <<s>>
           \/ \E level \in 1..3 : r[2] \in PathsBelow(image, r[1], NDir + level)
    BY ReferenceKinds DEF Summarised
  <2>2. \A s : ~ (Len(<<s>>) > 1)
    OBVIOUS
  <2>3. \E level \in 1..3 : r[2] \in PathsBelow(image, r[1], NDir + level)
    BY <2>1, <2>2
  <2> DEFINE x == <<"INDIRECT", r[1], r[2]>>
  <2>4. x \in Items(image) /\ x[1] = "INDIRECT" /\ x[2] = r[1] /\ x[3] = r[2]
    <3>1. x \in IndirectItems(image, r[1])
      BY <2>3 DEF IndirectItems
    <3>2. x \in ItemsOf(image, r[1])
      BY <3>1 DEF ItemsOf
    <3> QED  BY <2>1, <3>2 DEF Items
  <2> HIDE DEF x
  <2>5. PICK k \in DOMAIN file : f[k] = x
    BY <1>1, <2>4
  <2>6. <<file[k], x>> \in Says(image)
    BY <1>1, <2>5
  <2>7. file[k].kind = "INDIRECT"
    BY <2>4, <2>6, LineSays
  <2> QED  BY <2>1, <2>4, <2>5, <2>7
<1>4. ASSUME NEW r \in below PROVE \E k \in listed : lists(file[k], r[1], r[2])
  <2>1. PICK k \in listed : r = <<f[k][2], f[k][3]>>
    BY <1>3
  <2>2. r[1] = f[k][2] /\ r[2] = f[k][3]
    BY <2>1
  <2>3. lists(file[k], f[k][2], f[k][3])
    BY <1>2
  <2> HIDE DEF lists
  <2> QED  BY <2>2, <2>3
<1> DEFINE g == [k \in listed |-> <<f[k][2], f[k][3]>>]
<1>5. g \in [listed -> below] /\ \A r \in below : \E k \in listed : g[k] = r
  BY <1>2, <1>3
<1>6. \A j, k \in listed : g[j] = g[k] => j = k
  <2> SUFFICES ASSUME NEW j \in listed, NEW k \in listed, g[j] = g[k] PROVE j = k
    OBVIOUS
  <2>1. f[j][2] = f[k][2] /\ f[j][3] = f[k][3]
    OBVIOUS
  <2>2. f[j] = f[k]
    BY <1>2, <2>1
  <2> QED  BY <1>1, <2>2
<1>7. IsFiniteSet(listed)
  <2>1. DOMAIN file = 1..Len(file) /\ Len(file) \in Nat
    BY FileItems, FileIsTyped
  <2>2. IsFiniteSet(DOMAIN file)
    BY <2>1, FS_Interval
  <2>3. listed \subseteq DOMAIN file
    OBVIOUS
  <2> QED  BY <2>2, <2>3, FS_Subset
<1> HIDE DEF g, below, listed
<1>8. ExistsBijection(listed, below)
  <2>1. g \in Bijection(listed, below)
    BY <1>5, <1>6 DEF Bijection, Injection, Surjection, IsInjective
  <2> QED  BY <2>1 DEF ExistsBijection
<1>9. Cardinality(listed) = Cardinality(below)
  BY <1>7, <1>8, FS_Bijection
<1> QED  BY <1>4, <1>9 DEF below, listed

-----------------------------------------------------------------------------
(* What the audit of the blocks is behind, and what it knows.                *)

\* The part of the line that the audit is at which is behind it.
Passed(k, s) == \/ k < pos
                \/ k = pos /\ file[k].kind = "INODE" /\ s < slot

\* The audit has passed something about block b.
MentionPassed(k, b) ==
  CASE file[k].kind \in {"BFREE", "INDIRECT"} -> k < pos /\ file[k].block = b
    [] file[k].kind = "INODE" -> \E s \in Slots : Passed(k, s) /\ file[k].block[s] = b
    [] OTHER -> FALSE

NoneUnreferenced == \A m \in printed : m[1] # "UNREFERENCED BLOCK"

\* Where the audit of the blocks is.
AtPlace == /\ pos \in Nat \ {0}
           /\ slot \in 1..(NDir + 4)
           /\ pos \in DOMAIN file /\ file[pos].kind # "INODE" => slot = 1
           /\ pos \notin DOMAIN file => slot = 1

TypeInv == /\ image \in Images
           /\ pc \in {"lab3a", "blocks", "inodes", "directories", "exit", "done"}
           /\ pc = "lab3a" => pos = 1 /\ slot = 1 /\ DOMAIN block_dict = {} /\ printed = {}
           /\ pc # "lab3a" => file \in Seq(Line) /\ file = Summary(image)
           /\ pc = "blocks" => AtPlace

\* block_dict knows exactly the data blocks of what was passed.
KnowsPassed ==
  pc = "blocks" => \A b \in DataBlocks :
                     Known(b) <=> \E k \in DOMAIN file : MentionPassed(k, b)

ReferencesInv == TypeInv /\ KnowsPassed
                   /\ (pc = "blocks" => NoneUnreferenced) /\ UnreferencedExact

\* What a recorded use changes.
LEMMA RecordedKnows ==
  ASSUME NEW level, NEW n, NEW c, NEW b \in DataBlocks
  PROVE  /\ b \in DOMAIN Recorded(level, c, n) <=> b = c \/ Known(b)
         /\ Known(b) /\ b # c => Recorded(level, c, n)[b] = block_dict[b]
         /\ Recorded(level, b, n)[b] = <<n, level>>
<1>1. BlockError(level, b, n) = {}
  BY DataBlockIsRight
<1>2. CASE b = c
  BY <1>1, <1>2 DEF Recorded, Dict, Known
<1>3. CASE b # c
  BY <1>1, <1>3 DEF Recorded, Dict, Known
<1> QED  BY <1>2, <1>3

\* The audit keeps its place.
LEMMA TypeStep == TypeInv /\ [Next]_vars => TypeInv'
<1> SUFFICES ASSUME TypeInv, [Next]_vars PROVE TypeInv'
  OBVIOUS
<1> USE DEF TypeInv
<1>n. NDir \in Nat
  BY DataBlockIsPositive
<1>1. CASE Summarise
  <2>1. file' \in Seq(Line)
    BY <1>1, SummaryAssumption, SummaryListed DEF Summarise
  <2>2. AtPlace'
    BY <1>1, <1>n DEF Summarise, AtPlace
  <2> QED  BY <1>1, <2>1, <2>2 DEF Summarise
<1>2. CASE FreeLine \/ InodeLineDone \/ IndirectLine \/ OtherLine
  <2>1. pc = "blocks" /\ UNCHANGED <<image, file, pc>> /\ pos' = pos + 1 /\ pos \in DOMAIN file
    BY <1>2 DEF FreeLine, InodeLineDone, IndirectLine, OtherLine, AtLine, NextLine
  <2>2. slot' = 1
    BY <1>2 DEF FreeLine, InodeLineDone, IndirectLine, OtherLine, AtLine, AtPlace
  <2>3. AtPlace'
    BY <2>1, <2>2, <1>n DEF AtPlace
  <2> QED  BY <2>1, <2>3
<1>3. CASE InodeBlock \/ InodeNoBlock
  <2>1. /\ pc = "blocks" /\ UNCHANGED <<image, file, pc, pos>>
        /\ slot' = slot + 1 /\ slot \in Slots /\ pos \in DOMAIN file /\ file[pos].kind = "INODE"
    BY <1>3 DEF InodeBlock, InodeNoBlock, AtLine
  <2>2. slot \in 1..(NDir + 3)
    BY <2>1 DEF Slots
  <2>3. AtPlace'
    BY <2>1, <2>2, <1>n DEF AtPlace
  <2> QED  BY <2>1, <2>3
<1>4. CASE Unreferenced \/ InodeAudit \/ DirectoryAudit \/ Exit
  BY <1>4 DEF Unreferenced, InodeAudit, DirectoryAudit, Exit
<1>5. CASE UNCHANGED vars
  BY <1>5 DEF vars, AtPlace
<1> QED  BY <1>1, <1>2, <1>3, <1>4, <1>5 DEF Next, Step, CheckSummary, Terminated

\* A line is behind the audit when the audit is at the next one.
LEMMA MentionByLine ==
  ASSUME TypeInv, pc = "blocks", pos \in DOMAIN file, UNCHANGED file,
         pos' = pos + 1, slot' = 1, file[pos].kind = "INODE" => slot \notin Slots,
         NEW k \in DOMAIN file, NEW b
  PROVE  MentionPassed(k, b)' <=>
           MentionPassed(k, b) \/ (k = pos /\ file[k].kind # "INODE" /\ Mentions(file[k], b))
<1>1. k \in Nat /\ pos \in Nat /\ slot \in Int /\ file[k].kind \in {"BFREE", "IFREE", "INODE", "DIRENT", "INDIRECT"}
  BY FileIsTyped, LineIsTyped DEF TypeInv, AtPlace
<1>2. \A s \in Slots : s \in Int /\ ~(s < 1)
  BY DEF Slots
<1>3. CASE file[k].kind \in {"BFREE", "INDIRECT"}
  BY <1>1, <1>3 DEF MentionPassed, Mentions
<1>4. CASE file[k].kind = "INODE"
  <2>1. k = pos => \A s \in Slots : s < slot
    BY <1>4, DataBlockIsPositive DEF Slots, TypeInv, AtPlace
  <2>2. \A s \in Slots : Passed(k, s)' <=> Passed(k, s)
    BY <1>1, <1>2, <1>4, <2>1 DEF Passed
  <2> QED  BY <1>4, <2>2 DEF MentionPassed
<1>5. CASE file[k].kind \in {"IFREE", "DIRENT"}
  BY <1>5 DEF MentionPassed, Mentions
<1> QED  BY <1>1, <1>3, <1>4, <1>5

\* Within a line of an inode, the audit passes one block at a time.
LEMMA MentionBySlot ==
  ASSUME TypeInv, pc = "blocks", pos \in DOMAIN file, UNCHANGED <<file, pos>>,
         slot \in Slots, slot' = slot + 1, file[pos].kind = "INODE",
         NEW k \in DOMAIN file, NEW b
  PROVE  MentionPassed(k, b)' <=>
           MentionPassed(k, b) \/ (k = pos /\ file[pos].block[slot] = b)
<1>1. k \in Nat /\ pos \in Nat /\ slot \in Int /\ file[k].kind \in {"BFREE", "IFREE", "INODE", "DIRENT", "INDIRECT"}
  BY FileIsTyped, LineIsTyped DEF TypeInv, AtPlace, Slots
<1>2. \A s \in Slots : s \in Int
  BY DEF Slots
<1>3. CASE file[k].kind = "INODE"
  <2>1. \A s \in Slots : Passed(k, s)' <=> Passed(k, s) \/ (k = pos /\ s = slot)
    BY <1>1, <1>2, <1>3 DEF Passed
  <2> QED  BY <1>3, <2>1 DEF MentionPassed
<1>4. CASE file[k].kind # "INODE"
  BY <1>1, <1>4 DEF MentionPassed
<1> QED  BY <1>3, <1>4

\* Every step of the audit of the blocks records what it passes.
LEMMA KnowsStep == TypeInv /\ KnowsPassed /\ [Next]_vars => KnowsPassed'
<1> SUFFICES ASSUME TypeInv, KnowsPassed, [Next]_vars, pc' = "blocks",
                    NEW b \in DataBlocks
             PROVE  Known(b)' <=> \E k \in DOMAIN file' : MentionPassed(k, b)'
  BY DEF KnowsPassed, DataBlocks, FreeInode
<1> DEFINE passed == \E k \in DOMAIN file : MentionPassed(k, b)
<1>0. CASE Summarise
  <2>1. DOMAIN block_dict = {} /\ UNCHANGED <<block_dict, pos, slot>> /\ pos = 1 /\ slot = 1
    BY <1>0 DEF Summarise, TypeInv
  <2>2. file' \in Seq(Line)
    BY TypeStep, <1>0 DEF TypeInv
  <2>3. \A k \in DOMAIN file' : k \in Nat \ {0} /\ file'[k].kind \in {"BFREE", "IFREE", "INODE", "DIRENT", "INDIRECT"}
    BY <2>2, LineIsTyped
  <2>4. \A k \in DOMAIN file' : ~MentionPassed(k, b)'
    <3> SUFFICES ASSUME NEW k \in DOMAIN file' PROVE ~MentionPassed(k, b)'
      OBVIOUS
    <3>1. ~(k < pos') /\ \A s \in Slots : ~(s < slot')
      BY <2>1, <2>3 DEF Slots
    <3> QED  BY <2>3, <3>1 DEF MentionPassed, Passed
  <2> QED  BY <2>1, <2>4 DEF Known
<1> SUFFICES ASSUME ~Summarise PROVE Known(b)' <=> \E k \in DOMAIN file' : MentionPassed(k, b)'
  BY <1>0
<1>1. pc = "blocks" /\ UNCHANGED file /\ file \in Seq(Line)
  BY DEF TypeInv, Next, Step, CheckSummary, Terminated, vars, FreeLine, InodeBlock, InodeNoBlock,
         InodeLineDone, IndirectLine, OtherLine, AtLine, NextLine, Unreferenced,
         InodeAudit, DirectoryAudit, Exit
<1>2. Known(b) <=> passed
  BY <1>1 DEF KnowsPassed
<1>3. CASE UNCHANGED vars
  BY <1>1, <1>2, <1>3 DEF vars, Known, MentionPassed, Passed
<1>4. CASE FreeLine \/ IndirectLine \/ OtherLine
  <2>1. pos \in DOMAIN file /\ file[pos].kind # "INODE" /\ pos' = pos + 1 /\ slot' = 1
    BY <1>1, <1>4 DEF FreeLine, IndirectLine, OtherLine, AtLine, NextLine, TypeInv, AtPlace
  <2>2. (\E k \in DOMAIN file : MentionPassed(k, b)') <=> passed \/ Mentions(file[pos], b)
    BY <1>1, <2>1, MentionByLine
  <2>3. CASE FreeLine
    BY <1>1, <1>2, <2>2, <2>3 DEF FreeLine, AtLine, Dict, Known, Mentions
  <2>4. CASE IndirectLine
    BY <1>1, <1>2, <2>2, <2>4, RecordedKnows DEF IndirectLine, AtLine, Known, Mentions
  <2>5. CASE OtherLine
    BY <1>1, <1>2, <2>2, <2>5 DEF OtherLine, AtLine, Known, Mentions
  <2> QED  BY <1>4, <2>3, <2>4, <2>5
<1>5. CASE InodeLineDone
  <2>1. (\E k \in DOMAIN file : MentionPassed(k, b)') <=> passed
    BY <1>1, <1>5, MentionByLine DEF InodeLineDone, AtLine, NextLine
  <2> QED  BY <1>1, <1>2, <1>5, <2>1 DEF InodeLineDone, Known
<1>6. CASE InodeBlock \/ InodeNoBlock
  <2>1. (\E k \in DOMAIN file : MentionPassed(k, b)') <=> passed \/ file[pos].block[slot] = b
    BY <1>1, <1>6, MentionBySlot DEF InodeBlock, InodeNoBlock, AtLine
  <2>2. CASE InodeBlock
    BY <1>1, <1>2, <2>1, <2>2, RecordedKnows DEF InodeBlock, Known
  <2>3. CASE InodeNoBlock
    BY <1>1, <1>2, <2>1, <2>3, DataBlockIsPositive DEF InodeNoBlock, Known
  <2> QED  BY <1>6, <2>2, <2>3
<1>7. CASE Unreferenced \/ InodeAudit \/ DirectoryAudit \/ Exit
  BY <1>7 DEF Unreferenced, InodeAudit, DirectoryAudit, Exit
<1> QED  BY <1>3, <1>4, <1>5, <1>6, <1>7 DEF Next, Step, CheckSummary, Terminated

\* No message of the audit of a line is about an unreferenced block.
LEMMA NoneUnreferencedStep ==
  pc = "blocks" /\ NoneUnreferenced /\ [Next]_vars /\ pc' = "blocks" => NoneUnreferenced'
<1> SUFFICES ASSUME pc = "blocks", NoneUnreferenced, [Next]_vars, pc' = "blocks",
                    NEW m \in printed'
             PROVE  m[1] # "UNREFERENCED BLOCK"
  BY DEF NoneUnreferenced
<1>1. \A level, b, n : \A c \in BlockError(level, b, n) \cup Conflict(level, b, n) :
        c[1] # "UNREFERENCED BLOCK"
  <2> SUFFICES ASSUME NEW level, NEW b, NEW n,
                      NEW c \in BlockError(level, b, n) \cup Conflict(level, b, n)
               PROVE  c[1] # "UNREFERENCED BLOCK"
    OBVIOUS
  <2>1. \A x, y, z : /\ <<"RESERVED", x, y, z>>[1] = "RESERVED"
                     /\ <<"INVALID", x, y, z>>[1] = "INVALID"
                     /\ <<"DUPLICATE", x, y, z>>[1] = "DUPLICATE"
                     /\ <<"ALLOCATED BLOCK", x>>[1] = "ALLOCATED BLOCK"
    OBVIOUS
  <2>2. CASE c \in Conflict(level, b, n)
    <3>1. PICK x, y : c \in {<<"ALLOCATED BLOCK", b>>, <<"DUPLICATE", x, b, y>>, <<"DUPLICATE", level, b, n>>}
      BY <2>2, Zenon DEF Conflict
    <3> QED  BY <2>1, <3>1
  <2>3. CASE c \in BlockError(level, b, n)
    <3>1. BlockError(level, b, n) \in {{<<"RESERVED", level, b, n>>}, {<<"INVALID", level, b, n>>}, {}}
      BY DEF BlockError
    <3>2. c = <<"RESERVED", level, b, n>> \/ c = <<"INVALID", level, b, n>>
      BY <2>3, <3>1
    <3> QED  BY <2>1, <3>2
  <2> QED  BY <2>2, <2>3
<1>2. CASE FreeLine \/ InodeNoBlock \/ InodeLineDone \/ OtherLine \/ UNCHANGED vars
  BY <1>2 DEF NoneUnreferenced, FreeLine, InodeNoBlock, InodeLineDone, OtherLine, vars
<1>3. CASE InodeBlock
  BY <1>1, <1>3 DEF NoneUnreferenced, InodeBlock, PrintFatal
<1>4. CASE IndirectLine
  BY <1>1, <1>4 DEF NoneUnreferenced, IndirectLine, PrintFatal
<1>5. CASE Summarise \/ Unreferenced \/ InodeAudit \/ DirectoryAudit \/ Exit
  BY <1>5 DEF Summarise, Unreferenced, InodeAudit, DirectoryAudit, Exit
<1> QED  BY <1>2, <1>3, <1>4, <1>5 DEF Next, Step, CheckSummary, Terminated

\* At the end of the file everything in it is behind the audit.
LEMMA AllPassed ==
  ASSUME TypeInv, pc = "blocks", pos \notin DOMAIN file, NEW k \in DOMAIN file, NEW b
  PROVE  MentionPassed(k, b) <=> Mentions(file[k], b)
<1>1. k \in Nat /\ k < pos /\ file[k].kind \in {"BFREE", "IFREE", "INODE", "DIRENT", "INDIRECT"}
  BY FileIsTyped, LineIsTyped DEF TypeInv, AtPlace
<1> QED  BY <1>1 DEF MentionPassed, Mentions, Passed

\* The other audits print no message of that kind either.
LEMMA LaterMessages ==
  ASSUME InodeAudit \/ DirectoryAudit \/ Exit, NEW b
  PROVE  <<"UNREFERENCED BLOCK", b>> \in printed' <=> <<"UNREFERENCED BLOCK", b>> \in printed
<1> DEFINE u == <<"UNREFERENCED BLOCK", b>>
<1>1. u[1] = "UNREFERENCED BLOCK"
  OBVIOUS
<1>2. \A x, y, z : /\ <<"ALLOCATED INODE", x>>[1] = "ALLOCATED INODE"
                   /\ <<"UNALLOCATED INODE", x>>[1] = "UNALLOCATED INODE"
                   /\ <<"LINKS", x, y, z>>[1] = "LINKS"
  OBVIOUS
<1>3. \A t, x, y, z : <<t, x, y, z>>[1] = t
  OBVIOUS
<1> HIDE DEF u
<1>4. CASE InodeAudit
  BY <1>1, <1>2, <1>4 DEF InodeAudit, u
<1>5. CASE DirectoryAudit
  <2>1. \A text, entries : text # "UNREFERENCED BLOCK" => u \notin EntryMessages(text, entries)
    <3> SUFFICES ASSUME NEW text, NEW entries, text # "UNREFERENCED BLOCK",
                        NEW m \in EntryMessages(text, entries)
                 PROVE  m # u
      OBVIOUS
    <3>1. PICK l \in entries : m = <<text, l.dir, l.name, l.inode>>
      BY Zenon DEF EntryMessages
    <3>2. \A x, y, z : <<text, x, y, z>>[1] = text
      BY <1>3
    <3>3. m[1] = text
      BY <3>1, <3>2, Zenon
    <3> QED  BY <1>1, <3>3
  <2>2. /\ u \notin {<<"LINKS", l.inode, 0, l.links>> :
                       l \in {m \in Reached("INODE") : ParentDir(m.inode) = 0}}
        /\ u \notin {<<"LINKS", n, DirCount(n), ListLinks(n)>> : n \in Miscounted}
    BY <1>1, <1>2
  <2> QED  BY <1>5, <2>1, <2>2 DEF DirectoryAudit, u
<1>6. CASE Exit
  BY <1>6 DEF Exit
<1> QED  BY <1>4, <1>5, <1>6

\* What the audit knows tells which messages it prints.
LEMMA ReferencesStep == ReferencesInv /\ [Next]_vars => ReferencesInv'
<1> SUFFICES ASSUME ReferencesInv, [Next]_vars PROVE ReferencesInv'
  OBVIOUS
<1>1. TypeInv' /\ KnowsPassed'
  BY TypeStep, KnowsStep DEF ReferencesInv
<1>2. pc' = "blocks" => NoneUnreferenced'
  <2>1. pc' = "blocks" => pc = "blocks" \/ Summarise
    BY DEF Next, Step, CheckSummary, Terminated, vars, FreeLine, InodeBlock, InodeNoBlock,
           InodeLineDone, IndirectLine, OtherLine, AtLine, NextLine, Unreferenced,
           InodeAudit, DirectoryAudit, Exit
  <2>2. Summarise => NoneUnreferenced'
    BY DEF Summarise, NoneUnreferenced, ReferencesInv, TypeInv
  <2> QED  BY <2>1, <2>2, NoneUnreferencedStep DEF ReferencesInv
<1>3. UnreferencedExact'
  <2> SUFFICES ASSUME pc' \notin {"lab3a", "blocks"}, NEW b \in DataBlocks
               PROVE  <<"UNREFERENCED BLOCK", b>> \in printed'
                        <=> \A k \in DOMAIN file' : ~Mentions(file'[k], b)
    BY DEF UnreferencedExact, Mentions, DataBlocks, FreeInode
  <2>1. CASE Unreferenced
    <3>1. pc = "blocks" /\ pos \notin DOMAIN file /\ UNCHANGED file
      BY <2>1 DEF Unreferenced
    <3>2. Known(b) <=> \E k \in DOMAIN file : Mentions(file[k], b)
      BY <3>1, AllPassed DEF ReferencesInv, KnowsPassed
    <3>3. <<"UNREFERENCED BLOCK", b>>[1] = "UNREFERENCED BLOCK"
      OBVIOUS
    <3>4. <<"UNREFERENCED BLOCK", b>> \notin printed
      BY <3>1, <3>3 DEF ReferencesInv, NoneUnreferenced
    <3>5. \A d : <<"UNREFERENCED BLOCK", b>> = <<"UNREFERENCED BLOCK", d>> => b = d
      OBVIOUS
    <3>6. <<"UNREFERENCED BLOCK", b>> \in printed' <=> ~Known(b)
      BY <2>1, <3>4, <3>5 DEF Unreferenced, PrintFatal
    <3> QED  BY <3>1, <3>2, <3>6
  <2>2. CASE InodeAudit \/ DirectoryAudit \/ Exit
    <3>1. pc \notin {"lab3a", "blocks"} /\ UNCHANGED file
      BY <2>2 DEF InodeAudit, DirectoryAudit, Exit
    <3> QED  BY <2>2, <3>1, LaterMessages DEF ReferencesInv, UnreferencedExact
  <2>3. CASE UNCHANGED vars
    BY <2>3 DEF vars, ReferencesInv, UnreferencedExact
  <2>4. CASE Summarise \/ FreeLine \/ InodeBlock \/ InodeNoBlock \/ InodeLineDone
               \/ IndirectLine \/ OtherLine
    BY <2>4 DEF Summarise, FreeLine, InodeBlock, InodeNoBlock, InodeLineDone, IndirectLine,
                OtherLine, AtLine, NextLine
  <2> QED  BY <2>1, <2>2, <2>3, <2>4 DEF Next, Step, CheckSummary, Terminated
<1> QED  BY <1>1, <1>2, <1>3 DEF ReferencesInv

\* A data block is reported as unreferenced exactly if no line of the summary is
\* about it, whatever the lines are and whichever come first (lab3b.py:44-102).
THEOREM UnreferencedReported == Spec => []UnreferencedExact
<1>1. Init => ReferencesInv
  BY DEF Init, ReferencesInv, TypeInv, KnowsPassed, UnreferencedExact
<1>2. ReferencesInv => UnreferencedExact
  BY DEF ReferencesInv
<1> QED  BY <1>1, <1>2, ReferencesStep, PTL DEF Spec
-----------------------------------------------------------------------------
(* The users that share a block: block_dict remembers the only one so far, or *)
(* else every one has been named.                                             *)

PassedUses(b) == {u \in Uses(b) : Passed(u[1], u[2])}
User(u) == <<file[u[1]].inode, LevelOf(u)>>

Remembered(b) ==
  /\ Known(b) => block_dict[b] # FREE
  /\ \A u \in PassedUses(b) :
       NamedSharer(u) \/ (PassedUses(b) = {u} /\ Known(b) /\ block_dict[b] = User(u))

SharersInv ==
  /\ TypeInv
  /\ KnowsPassed
  /\ pc = "blocks" => \A b \in DataBlocks : ~FreeListed(b) => Remembered(b)
  /\ SharersNamed

\* A use is at a block of a line, and its user is not the free list.
LEMMA UseIsTyped ==
  ASSUME file \in Seq(Line), NEW b, NEW u \in Uses(b)
  PROVE  /\ u[1] \in DOMAIN file /\ u[1] \in Nat /\ u[2] \in Slots /\ u = <<u[1], u[2]>>
         /\ file[u[1]].kind \in {"INODE", "INDIRECT"}
         /\ file[u[1]].kind = "INDIRECT" => u[2] = 1
         /\ User(u) # FREE
<1>1. u \in (DOMAIN file) \X Slots /\ IsUse(u)
  BY DEF Uses
<1>2. file[u[1]].kind \in {"INODE", "INDIRECT"} /\ (file[u[1]].kind = "INDIRECT" => u[2] = 1)
  BY <1>1 DEF IsUse
<1>3. file[u[1]].inode # 0
  BY <1>1, <1>2, FileIsTyped, LineIsTyped
<1> QED  BY <1>1, <1>2, <1>3, FileIsTyped DEF User, FREE

\* A block that is not in block_dict has no user yet.
LEMMA UnknownUnused ==
  ASSUME TypeInv, KnowsPassed, pc = "blocks", NEW b \in DataBlocks, ~Known(b)
  PROVE  PassedUses(b) = {}
<1> SUFFICES ASSUME NEW u \in PassedUses(b) PROVE FALSE
  OBVIOUS
<1>1. file \in Seq(Line) /\ u \in Uses(b) /\ Passed(u[1], u[2])
  BY DEF PassedUses, TypeInv
<1>2. MentionPassed(u[1], b)
  BY <1>1, UseIsTyped DEF MentionPassed, Passed, Uses, BlockOf
<1> QED  BY <1>1, <1>2, UseIsTyped DEF KnowsPassed

\* A step that passes use w of block b, and prints the conflict or records w.
LEMMA OneMoreUse ==
  ASSUME TypeInv, KnowsPassed, pc = "blocks", UNCHANGED file,
         NEW b \in DataBlocks, Remembered(b), NEW w \in Uses(b),
         PassedUses(b)' = PassedUses(b) \cup {w},
         printed \subseteq printed',
         Known(b) => Conflict(LevelOf(w), b, file[w[1]].inode) \subseteq printed',
         Known(b)',
         (Known(b) /\ block_dict'[b] = block_dict[b]) \/ block_dict'[b] = User(w)
  PROVE  Remembered(b)'
<1>1. file \in Seq(Line)
  BY DEF TypeInv
<1>2. block_dict'[b] # FREE
  BY <1>1, UseIsTyped DEF Remembered
<1>3. ASSUME NEW u \in PassedUses(b)'
      PROVE  NamedSharer(u)' \/ (PassedUses(b)' = {u} /\ Known(b)' /\ block_dict'[b] = User(u)')
  <2>1. UNCHANGED <<LevelOf(u), BlockOf(u), User(u)>>
    BY DEF LevelOf, BlockOf, User
  <2>2. CASE Known(b)
    <3>1. {<<"DUPLICATE", block_dict[b][2], b, block_dict[b][1]>>,
           <<"DUPLICATE", LevelOf(w), b, file[w[1]].inode>>} \subseteq printed'
      BY <2>2 DEF Conflict, Remembered
    <3>2. CASE u = w
      BY <2>1, <3>1, <3>2 DEF NamedSharer, Uses
    <3>3. CASE u \in PassedUses(b)
      <4>1. CASE NamedSharer(u)
        BY <2>1, <4>1 DEF NamedSharer
      <4>2. CASE block_dict[b] = User(u)
        <5>1. block_dict[b][1] = file[u[1]].inode /\ block_dict[b][2] = LevelOf(u)
          BY <4>2 DEF User
        <5>2. BlockOf(u) = b
          BY <3>3 DEF PassedUses, Uses
        <5> QED  BY <2>1, <3>1, <5>1, <5>2 DEF NamedSharer
      <4> QED  BY <3>3, <4>1, <4>2 DEF Remembered
    <3> QED  BY <3>2, <3>3
  <2>3. CASE ~Known(b)
    <3>1. PassedUses(b)' = {w} /\ u = w
      BY <2>3, UnknownUnused
    <3> QED  BY <2>1, <2>3, <3>1 DEF User, LevelOf
  <2> QED  BY <2>2, <2>3
<1> QED  BY <1>2, <1>3 DEF Remembered

\* A step that passes no use of block b.
LEMMA NoMoreUse ==
  ASSUME UNCHANGED file, NEW b, Remembered(b),
         PassedUses(b)' = PassedUses(b), printed \subseteq printed',
         Known(b)' <=> Known(b), Known(b) => block_dict'[b] = block_dict[b]
  PROVE  Remembered(b)'
<1>1. \A u : UNCHANGED <<LevelOf(u), BlockOf(u), User(u)>>
  BY DEF LevelOf, BlockOf, User
<1>2. \A u : NamedSharer(u) => NamedSharer(u)'
  BY <1>1 DEF NamedSharer
<1> QED  BY <1>1, <1>2 DEF Remembered

\* Passing a line, and passing a block of an inode.
LEMMA UsesByLine ==
  ASSUME TypeInv, pc = "blocks", pos \in DOMAIN file, UNCHANGED file,
         pos' = pos + 1, slot' = 1, file[pos].kind = "INODE" => slot \notin Slots,
         NEW b
  PROVE  PassedUses(b)' = PassedUses(b) \cup {u \in Uses(b) : u[1] = pos /\ file[pos].kind # "INODE"}
<1>1. Uses(b)' = Uses(b) /\ file \in Seq(Line)
  BY DEF Uses, IsUse, BlockOf, TypeInv
<1>2. ASSUME NEW u \in Uses(b)
      PROVE  Passed(u[1], u[2])' <=> Passed(u[1], u[2]) \/ (u[1] = pos /\ file[pos].kind # "INODE")
  <2>1. u[1] \in Nat /\ pos \in Nat /\ slot \in Int /\ u[2] \in Slots /\ ~(u[2] < 1)
    BY <1>1, UseIsTyped DEF TypeInv, AtPlace, Slots
  <2>2. file[pos].kind = "INODE" => u[2] < slot
    BY <2>1, DataBlockIsPositive DEF Slots, TypeInv, AtPlace
  <2> QED  BY <2>1, <2>2 DEF Passed
<1> QED  BY <1>1, <1>2 DEF PassedUses

\* Within a line of an inode, the audit passes one use at a time.
LEMMA UsesBySlot ==
  ASSUME TypeInv, pc = "blocks", pos \in DOMAIN file, UNCHANGED <<file, pos>>,
         slot \in Slots, slot' = slot + 1, file[pos].kind = "INODE", NEW b
  PROVE  PassedUses(b)' = PassedUses(b) \cup {u \in Uses(b) : u = <<pos, slot>>}
<1>1. Uses(b)' = Uses(b) /\ file \in Seq(Line)
  BY DEF Uses, IsUse, BlockOf, TypeInv
<1>2. ASSUME NEW u \in Uses(b)
      PROVE  Passed(u[1], u[2])' <=> Passed(u[1], u[2]) \/ u = <<pos, slot>>
  <2>1. u[1] \in Nat /\ pos \in Nat /\ slot \in Int /\ u[2] \in Int /\ u = <<u[1], u[2]>>
    BY <1>1, UseIsTyped DEF TypeInv, AtPlace, Slots
  <2>2. Passed(u[1], u[2])' <=> Passed(u[1], u[2]) \/ (u[1] = pos /\ u[2] = slot)
    BY <2>1 DEF Passed
  <2> QED  BY <2>1, <2>2
<1> QED  BY <1>1, <1>2 DEF PassedUses

\* Every step of the audit of the blocks remembers or names the users.
LEMMA RememberStep ==
  ASSUME SharersInv, [Next]_vars, pc = "blocks", pc' = "blocks",
         NEW b \in DataBlocks, ~FreeListed(b)
  PROVE  Remembered(b)'
<1> USE DEF SharersInv
<1>1. Remembered(b) /\ file \in Seq(Line) /\ pos \in Nat \ {0} /\ KnowsPassed /\ TypeInv
  BY DEF TypeInv, AtPlace
<1>2. CASE UNCHANGED vars
  BY <1>1, <1>2 DEF vars, Remembered, PassedUses, Passed, Uses, IsUse, BlockOf, LevelOf, User,
                    NamedSharer, Known
<1>3. CASE FreeLine \/ OtherLine \/ InodeLineDone
  <2>1. /\ pos \in DOMAIN file /\ pos' = pos + 1 /\ slot' = 1
        /\ UNCHANGED <<file, printed>>
        /\ file[pos].kind \in {"BFREE", "IFREE", "DIRENT", "INODE"}
        /\ file[pos].kind = "INODE" => slot \notin Slots
    BY <1>1, <1>3 DEF FreeLine, OtherLine, InodeLineDone, AtLine, NextLine, TypeInv, AtPlace
  <2>2. PassedUses(b)' = PassedUses(b)
    <3>1. \A u \in Uses(b) : ~(u[1] = pos /\ file[pos].kind # "INODE")
      BY <1>1, <2>1, UseIsTyped
    <3>2. PassedUses(b)' = PassedUses(b) \cup {u \in Uses(b) : u[1] = pos /\ file[pos].kind # "INODE"}
      BY <1>1, <2>1, UsesByLine
    <3> QED  BY <3>1, <3>2
  <2>3. (Known(b)' <=> Known(b)) /\ (Known(b) => block_dict'[b] = block_dict[b])
    <3>1. CASE FreeLine
      <4>1. file[pos].block # b
        BY <3>1 DEF FreeLine, AtLine, FreeListed
      <4> QED  BY <3>1, <4>1 DEF FreeLine, Dict, Known
    <3>2. CASE OtherLine \/ InodeLineDone
      BY <3>2 DEF OtherLine, InodeLineDone, Known
    <3> QED  BY <1>3, <3>1, <3>2
  <2> QED  BY <1>1, <2>1, <2>2, <2>3, NoMoreUse
<1>4. CASE InodeNoBlock
  <2>1. /\ pos \in DOMAIN file /\ UNCHANGED <<file, pos, printed, block_dict>>
        /\ slot \in Slots /\ slot' = slot + 1 /\ file[pos].kind = "INODE"
        /\ file[pos].block[slot] = 0
    BY <1>4 DEF InodeNoBlock, AtLine
  <2>2. \A u \in Uses(b) : u # <<pos, slot>>
    BY <2>1, DataBlockIsPositive DEF Uses, BlockOf
  <2>3. PassedUses(b)' = PassedUses(b)
    BY <1>1, <2>1, <2>2, UsesBySlot
  <2> QED  BY <1>1, <2>1, <2>3, NoMoreUse DEF Known
<1>5. CASE InodeBlock
  <2> DEFINE c == file[pos].block[slot]
             n == file[pos].inode
             w == <<pos, slot>>
  <2>1. /\ pos \in DOMAIN file /\ UNCHANGED <<file, pos>>
        /\ slot \in Slots /\ slot' = slot + 1 /\ file[pos].kind = "INODE"
    BY <1>5 DEF InodeBlock, AtLine
  <2>2. /\ Known(c) => printed' = printed \cup Conflict(Level(slot), c, n) /\ UNCHANGED block_dict
        /\ ~Known(c) => block_dict' = Recorded(Level(slot), c, n)
        /\ printed \subseteq printed'
    BY <1>5 DEF InodeBlock, PrintFatal
  <2>3. PassedUses(b)' = PassedUses(b) \cup {u \in Uses(b) : u = w}
    BY <1>1, <2>1, UsesBySlot
  <2>4. CASE c = b
    <3>1. w \in Uses(b) /\ LevelOf(w) = Level(slot) /\ file[w[1]].inode = n
      BY <2>1, <2>4 DEF Uses, IsUse, BlockOf, LevelOf
    <3>2. PassedUses(b)' = PassedUses(b) \cup {w}
      BY <2>3, <3>1
    <3>3. Known(b)' /\ ((Known(b) /\ block_dict'[b] = block_dict[b]) \/ block_dict'[b] = User(w))
      BY <2>2, <2>4, <3>1, RecordedKnows DEF Known, User
    <3> HIDE DEF w, c, n
    <3> QED  BY <1>1, <2>1, <2>2, <2>4, <3>1, <3>2, <3>3, OneMoreUse
  <2>5. CASE c # b
    <3>1. PassedUses(b)' = PassedUses(b)
      <4>1. \A u \in Uses(b) : u # w
        BY <2>1, <2>5 DEF Uses, BlockOf
      <4> QED  BY <2>3, <4>1
    <3>2. (Known(b)' <=> Known(b)) /\ (Known(b) => block_dict'[b] = block_dict[b])
      BY <2>2, <2>5, RecordedKnows DEF Known
    <3> QED  BY <1>1, <2>1, <2>2, <3>1, <3>2, NoMoreUse
  <2> QED  BY <2>4, <2>5
<1>6. CASE IndirectLine
  <2> DEFINE c == file[pos].block
             n == file[pos].inode
             level == file[pos].level
             w == <<pos, 1>>
  <2>1. /\ pos \in DOMAIN file /\ UNCHANGED file /\ pos' = pos + 1 /\ slot' = 1
        /\ file[pos].kind = "INDIRECT" /\ 1 \in Slots
    BY <1>1, <1>6, DataBlockIsPositive DEF IndirectLine, AtLine, NextLine, TypeInv, AtPlace, Slots
  <2>2. /\ Known(c) => Conflict(level, c, n) \subseteq printed'
        /\ block_dict' = Recorded(level, c, n)
        /\ printed \subseteq printed'
    BY <1>6 DEF IndirectLine, PrintFatal
  <2>3. PassedUses(b)' = PassedUses(b) \cup {u \in Uses(b) : u[1] = pos}
    BY <1>1, <2>1, UsesByLine
  <2>4. \A u \in Uses(b) : u[1] = pos => u = w
    BY <1>1, <2>1, UseIsTyped
  <2>5. CASE c = b
    <3>1. w \in Uses(b) /\ LevelOf(w) = level /\ file[w[1]].inode = n
      BY <2>1, <2>5 DEF Uses, IsUse, BlockOf, LevelOf
    <3>2. PassedUses(b)' = PassedUses(b) \cup {w}
      BY <2>3, <2>4, <3>1
    <3>3. Known(b)' /\ block_dict'[b] = User(w)
      BY <2>2, <2>5, <3>1, RecordedKnows DEF Known, User
    <3> HIDE DEF w, c, n, level
    <3> QED  BY <1>1, <2>1, <2>2, <2>5, <3>1, <3>2, <3>3, OneMoreUse
  <2>6. CASE c # b
    <3>1. PassedUses(b)' = PassedUses(b)
      <4>1. \A u \in Uses(b) : u[1] # pos
        BY <2>1, <2>4, <2>6 DEF Uses, BlockOf
      <4> QED  BY <2>3, <4>1
    <3>2. (Known(b)' <=> Known(b)) /\ (Known(b) => block_dict'[b] = block_dict[b])
      BY <2>2, <2>6, RecordedKnows DEF Known
    <3> QED  BY <1>1, <2>1, <2>2, <3>1, <3>2, NoMoreUse
  <2> QED  BY <2>5, <2>6
<1>7. CASE Summarise \/ Unreferenced \/ InodeAudit \/ DirectoryAudit \/ Exit
  BY <1>7 DEF Summarise, Unreferenced, InodeAudit, DirectoryAudit, Exit
<1> QED  BY <1>2, <1>3, <1>4, <1>5, <1>6, <1>7 DEF Next, Step, CheckSummary, Terminated

\* The sharers are remembered or named to the end.
LEMMA SharersStep == SharersInv /\ [Next]_vars => SharersInv'
<1> SUFFICES ASSUME SharersInv, [Next]_vars PROVE SharersInv'
  OBVIOUS
<1>1. TypeInv' /\ KnowsPassed'
  BY TypeStep, KnowsStep DEF SharersInv
<1>2. CASE Summarise
  <2>1. SharersNamed'
    BY <1>2 DEF Summarise, SharersNamed
  <2>2. \A b \in DataBlocks : Remembered(b)'
    <3> SUFFICES ASSUME NEW b \in DataBlocks PROVE Remembered(b)'
      OBVIOUS
    <3>1. pc' = "blocks" /\ ~Known(b)'
      BY <1>2 DEF Summarise, SharersInv, TypeInv, Known
    <3>2. PassedUses(b)' = {}
      <4>1. \A k \in DOMAIN file' : ~MentionPassed(k, b)'
        BY <1>1, <3>1 DEF KnowsPassed, DataBlocks, FreeInode
      <4>2. file' \in Seq(Line)
        BY <1>1, <3>1 DEF TypeInv
      <4>3. pos' = 1 /\ slot' = 1
        BY <1>2 DEF Summarise, SharersInv, TypeInv
      <4> SUFFICES ASSUME NEW u \in Uses(b)', Passed(u[1], u[2])' PROVE FALSE
        BY DEF PassedUses
      <4>4. u[1] \in DOMAIN file' /\ u[2] \in Slots
        BY DEF Uses
      <4>5. u[1] \in Nat \ {0} /\ u[2] \in Nat \ {0}
        BY <4>2, <4>4 DEF Slots
      <4> QED  BY <4>3, <4>5 DEF Passed
    <3> QED  BY <3>1, <3>2 DEF Remembered
  <2> QED  BY <1>1, <2>1, <2>2 DEF SharersInv, DataBlocks, FreeInode
<1>3. CASE pc = "blocks" /\ pc' = "blocks"
  <2>1. UNCHANGED file
    BY <1>3 DEF Next, Step, CheckSummary, Terminated, vars, FreeLine, InodeBlock, InodeNoBlock,
           InodeLineDone, IndirectLine, OtherLine, AtLine, NextLine, Unreferenced,
           InodeAudit, DirectoryAudit, Exit, Summarise
  <2>2. \A b \in DataBlocks : ~FreeListed(b)' => Remembered(b)'
    BY <1>3, <2>1, RememberStep DEF FreeListed
  <2> QED  BY <1>1, <1>3, <2>2 DEF SharersInv, SharersNamed, DataBlocks, FreeInode
<1>4. CASE Unreferenced
  <2>1. /\ pc = "blocks" /\ pc' = "inodes" /\ pos \notin DOMAIN file /\ UNCHANGED file
        /\ printed \subseteq printed' /\ file \in Seq(Line)
    BY <1>4 DEF Unreferenced, PrintFatal, SharersInv, TypeInv
  <2>2. SharersNamed'
    <3> SUFFICES ASSUME NEW b \in DataBlocks, ~FreeListed(b)', NEW u \in Uses(b)', NEW v \in Uses(b)', u # v
                 PROVE  NamedSharer(u)'
      BY DEF SharersNamed, DataBlocks, FreeInode
    <3>1. ~FreeListed(b) /\ u \in Uses(b) /\ v \in Uses(b)
      BY <2>1 DEF FreeListed, Uses, IsUse, BlockOf
    <3>2. u \in PassedUses(b) /\ v \in PassedUses(b)
      <4>1. pos > Len(file) /\ Len(file) \in Nat /\ pos \in Nat
        BY <2>1, FileIsTyped DEF SharersInv, TypeInv, AtPlace
      <4>2. u[1] < pos /\ v[1] < pos
        BY <2>1, <3>1, <4>1, UseIsTyped, FileIsTyped
      <4> QED  BY <3>1, <4>2 DEF PassedUses, Passed
    <3>3. NamedSharer(u)
      BY <2>1, <3>1, <3>2 DEF SharersInv, Remembered
    <3> QED  BY <2>1, <3>3 DEF NamedSharer, LevelOf, BlockOf
  <2> QED  BY <1>1, <2>1, <2>2 DEF SharersInv
<1>5. CASE InodeAudit \/ DirectoryAudit \/ Exit \/ (UNCHANGED vars /\ pc # "blocks")
  <2>1. /\ pc # "blocks" /\ pc' # "blocks" /\ UNCHANGED file /\ printed \subseteq printed'
        /\ pc' \notin {"lab3a", "blocks"} => pc \notin {"lab3a", "blocks"}
    BY <1>5 DEF InodeAudit, DirectoryAudit, Exit, vars
  <2>2. SharersNamed'
    <3> SUFFICES ASSUME pc' \notin {"lab3a", "blocks"}, NEW b \in DataBlocks, ~FreeListed(b)',
                        NEW u \in Uses(b)', NEW v \in Uses(b)', u # v
                 PROVE  NamedSharer(u)'
      BY DEF SharersNamed, DataBlocks, FreeInode
    <3>1. ~FreeListed(b) /\ u \in Uses(b) /\ v \in Uses(b)
      BY <2>1 DEF FreeListed, Uses, IsUse, BlockOf
    <3>2. NamedSharer(u)
      BY <2>1, <3>1 DEF SharersInv, SharersNamed
    <3> QED  BY <2>1, <3>2 DEF NamedSharer, LevelOf, BlockOf
  <2> QED  BY <1>1, <2>1, <2>2 DEF SharersInv
<1>6. Summarise \/ (pc = "blocks" /\ pc' = "blocks") \/ Unreferenced \/ InodeAudit
        \/ DirectoryAudit \/ Exit \/ (UNCHANGED vars /\ pc # "blocks")
  BY DEF Next, Step, CheckSummary, Terminated, vars, FreeLine, InodeBlock, InodeNoBlock,
         InodeLineDone, IndirectLine, OtherLine, AtLine, NextLine
<1> QED  BY <1>2, <1>3, <1>4, <1>5, <1>6

\* If several inodes, or several places of one, use a data block that is not free,
\* each of them is named in a message, the first included, although only one is
\* remembered in block_dict (lab3b.py:72-97).
THEOREM SharersReported == Spec => []SharersNamed
<1>1. Init => SharersInv
  BY DEF Init, SharersInv, TypeInv, KnowsPassed, SharersNamed
<1>2. SharersInv => SharersNamed
  BY DEF SharersInv
<1> QED  BY <1>1, <1>2, SharersStep, PTL DEF Spec

-----------------------------------------------------------------------------
(* Which entries break the audit off.                                        *)

\* The front part of the numbers up to N is the numbers up to its size.
LEMMA FrontPart ==
  ASSUME NEW N \in Nat, NEW X \in SUBSET (1..N), \A k \in X : \A j \in 1..k : j \in X
  PROVE  X = 1..Cardinality(X)
<1> DEFINE S == {n \in Nat : n <= N => (\E m \in 0..n : X \cap (1..n) = 1..m)}
<1>1. 0 \in S
  <2>1. X \cap (1..0) = 1..0 /\ 0 \in 0..0
    OBVIOUS
  <2> QED  BY <2>1
<1>2. ASSUME NEW n \in Nat, n \in S PROVE n + 1 \in S
  <2> SUFFICES ASSUME n + 1 <= N PROVE \E m \in 0..(n + 1) : X \cap (1..(n + 1)) = 1..m
    OBVIOUS
  <2>1. PICK m \in 0..n : X \cap (1..n) = 1..m
    BY <1>2
  <2>2. CASE n + 1 \in X
    <3>1. X \cap (1..(n + 1)) = 1..(n + 1)
      BY <2>2
    <3> QED  BY <3>1
  <2>3. CASE n + 1 \notin X
    <3>1. X \cap (1..(n + 1)) = 1..m
      BY <2>1, <2>3
    <3> QED  BY <3>1
  <2> QED  BY <2>2, <2>3
<1>3. N \in S
  <2> HIDE DEF S
  <2> QED  BY <1>1, <1>2, SetInduction
<1>4. \E m \in 0..N : X \cap (1..N) = 1..m
  <2>1. N <= N
    OBVIOUS
  <2> QED  BY <1>3, <2>1
<1> HIDE DEF S
<1>p. PICK m \in 0..N : X \cap (1..N) = 1..m
  BY <1>4
<1>5. X = 1..m /\ m \in Nat
  <2>1. X \cap (1..N) = X
    OBVIOUS
  <2>2. m \in Nat
    OBVIOUS
  <2> QED  BY <1>p, <2>1, <2>2
<1>6. Cardinality(1..m) = m
  BY <1>5, FS_Interval
<1> QED  BY <1>5, <1>6

\* The blocks of a directory that are read are those before the first that is 0.
LEMMA FrontIsRead ==
  ASSUME NEW img, NEW n, FileType(img.inode[n].mode) = "d"
  PROVE  ReadBlocks(img, n) = {k \in 1..NDir : \A j \in 1..k : img.inode[n].block[j] # 0}
<1> DEFINE X == {k \in 1..NDir : \A j \in 1..k : img.inode[n].block[j] # 0}
<1>1. X \in SUBSET (1..NDir) /\ NDir \in Nat
  BY ImageAssumption
<1>2. ASSUME NEW k \in X, NEW j \in 1..k PROVE j \in X
  <2>1. j \in 1..NDir /\ \A i \in 1..j : i \in 1..k
    BY <1>1
  <2> QED  BY <2>1
<1>3. ReadBlocks(img, n) = 1..Cardinality(X)
  BY DEF ReadBlocks
<1> HIDE DEF X
<1>4. ReadBlocks(img, n) = X
  BY <1>1, <1>2, <1>3, FrontPart
<1> QED  BY <1>4 DEF X

\* What an item of an entry is.
LEMMA EntryKind ==
  ASSUME NEW img, NEW x \in Items(img), x[1] = "DIRENT"
  PROVE  \E n \in InodesInUse(img) : \E k \in ReadBlocks(img, n) :
           \E j \in DOMAIN Entries(img, img.inode[n].block[k]) : x = <<"DIRENT", n, <<k, j>>>>
<1>1. x \notin FreeBlockItems(img) /\ x \notin FreeInodeItems(img)
  BY DEF FreeBlockItems, FreeInodeItems
<1>2. PICK n \in InodesInUse(img) : x \in ItemsOf(img, n)
  BY <1>1 DEF Items
<1>3. x # InodeItem(n)
  BY DEF InodeItem
<1>4. x \notin IndirectItems(img, n)
  <2> SUFFICES ASSUME x \in IndirectItems(img, n) PROVE FALSE
    OBVIOUS
  <2>1. PICK p : x = <<"INDIRECT", n, p>>
    BY DEF IndirectItems
  <2> QED  BY <2>1
<1>5. x \in EntryItems(img, n)
  BY <1>2, <1>3, <1>4 DEF ItemsOf
<1>6. PICK k \in ReadBlocks(img, n) : x \in BlockEntryItems(img, n, k)
  BY <1>5 DEF EntryItems
<1> QED  BY <1>6 DEF BlockEntryItems

\* An entry that is read is an item.
LEMMA EntryIsItem ==
  ASSUME NEW img, NEW n \in InodesInUse(img), NEW k \in ReadBlocks(img, n),
         NEW j \in DOMAIN Entries(img, img.inode[n].block[k])
  PROVE  <<"DIRENT", n, <<k, j>>>> \in Items(img)
<1> DEFINE x == <<"DIRENT", n, <<k, j>>>>
<1>1. x \in BlockEntryItems(img, n, k)
  BY DEF BlockEntryItems
<1> HIDE DEF x
<1>2. x \in EntryItems(img, n)
  BY <1>1 DEF EntryItems
<1>3. x \in ItemsOf(img, n)
  BY <1>2 DEF ItemsOf
<1>4. x \in Items(img)
  BY <1>3 DEF Items
<1> QED  BY <1>4 DEF x

\* The lines on which the audit of the directories breaks off are those of the
\* entries that are too negative.
LEMMA BrokenExact ==
  ASSUME Summarised
  PROVE  Broken <=> EntryBreaks(image)
<1>1. PICK f \in [DOMAIN file -> Items(image)] : Stands(f, file, Items(image), Says(image))
  BY FileItems
<1> DEFINE at(n, k) == Entries(image, image.inode[n].block[k])
           low(i) == i < -(NumInodes + 1)
<1>2. ASSUME Broken PROVE EntryBreaks(image)
  <2>1. PICK i \in DOMAIN file : file[i].kind = "DIRENT" /\ low(file[i].inode)
    BY <1>2 DEF Broken, Breaks, Lines, ToSet
  <2> DEFINE x == f[i]
             l == file[i]
  <2>2. <<l, x>> \in Says(image) /\ l.kind = "DIRENT" /\ low(l.inode)
    BY <1>1, <2>1 DEF Stands
  <2> HIDE DEF x, l, low
  <2>3. x \in Items(image) /\ x[1] = "DIRENT"
    BY <2>2, LineSays
  <2>4. PICK n \in InodesInUse(image) : \E k \in ReadBlocks(image, n) :
           \E j \in DOMAIN at(n, k) : x = <<"DIRENT", n, <<k, j>>>>
    BY <2>3, EntryKind
  <2>5. PICK k \in ReadBlocks(image, n) :
           \E j \in DOMAIN at(n, k) : x = <<"DIRENT", n, <<k, j>>>>
    BY <2>4
  <2>6. PICK j \in DOMAIN at(n, k) : x = <<"DIRENT", n, <<k, j>>>>
    BY <2>5
  <2>7. x[2] = n /\ x[3][1] = k /\ x[3][2] = j
    BY <2>6
  <2>8. low(at(n, k)[j].inode)
    BY <2>2, <2>7 DEF Says
  <2>9. FileType(image.inode[n].mode) = "d"
    BY <2>5 DEF ReadBlocks
  <2>10. k \in 1..NDir /\ \A i2 \in 1..k : image.inode[n].block[i2] # 0
    BY <2>9, FrontIsRead
  <2>11. n \in 1..NumInodes /\ InUse(image, n)
    BY DEF InodesInUse
  <2>12. \E e \in ToSet(at(n, k)) : low(e.inode)
    BY <2>8 DEF ToSet
  <2> QED  BY <2>9, <2>10, <2>11, <2>12 DEF EntryBreaks, low
<1>3. ASSUME EntryBreaks(image) PROVE Broken
  <2>1. PICK n \in 1..NumInodes : \E k \in 1..NDir :
           /\ InUse(image, n) /\ FileType(image.inode[n].mode) = "d"
           /\ \A j \in 1..k : image.inode[n].block[j] # 0
           /\ \E e \in ToSet(at(n, k)) : low(e.inode)
    BY <1>3 DEF EntryBreaks
  <2>2. PICK k \in 1..NDir :
           /\ InUse(image, n) /\ FileType(image.inode[n].mode) = "d"
           /\ \A j \in 1..k : image.inode[n].block[j] # 0
           /\ \E e \in ToSet(at(n, k)) : low(e.inode)
    BY <2>1
  <2>3. n \in InodesInUse(image) /\ k \in ReadBlocks(image, n)
    BY <2>2, FrontIsRead DEF InodesInUse
  <2>4. PICK j \in DOMAIN at(n, k) : low(at(n, k)[j].inode)
    BY <2>2 DEF ToSet
  <2> DEFINE x == <<"DIRENT", n, <<k, j>>>>
  <2>5. x \in Items(image)
    BY <2>3, EntryIsItem
  <2>6. x[1] = "DIRENT" /\ x[2] = n /\ x[3][1] = k /\ x[3][2] = j
    OBVIOUS
  <2> HIDE DEF x, low
  <2>7. PICK i \in DOMAIN file : f[i] = x
    BY <1>1, <2>5 DEF Stands
  <2>8. <<file[i], x>> \in Says(image)
    BY <1>1, <2>7 DEF Stands
  <2>9. file[i].kind = "DIRENT" /\ file[i].inode = at(n, k)[j].inode
    <3>1. file[i].kind = "DIRENT"
      BY <2>6, <2>8, LineSays
    <3> QED  BY <2>6, <2>8, <3>1 DEF Says
  <2>10. file[i] \in Lines("DIRENT") /\ low(file[i].inode)
    BY <2>4, <2>9 DEF Lines, ToSet
  <2> QED  BY <2>9, <2>10 DEF Broken, Breaks, low
<1> QED  BY <1>2, <1>3

-----------------------------------------------------------------------------
(* How the audit ends, and what its exit status tells.                       *)

EndInv ==
  /\ exit2_flag \in {0, 1}
  /\ status \in {"running", "traceback", "exit0", "exit2"}
  /\ pc \in {"lab3a", "blocks", "inodes"} => status = "running"
  /\ pc = "lab3a" => exit2_flag = 0
  /\ status = "running" => pc # "done"
  /\ status \in {"exit0", "exit2"} => pc = "done" /\ (status = "exit2" <=> exit2_flag = 1)
  /\ status = "traceback" => /\ pc \in {"directories", "exit"}
                             /\ ~ (image.free_inodes \subseteq 1..NumInodes) \/ EntryBreaks(image)
  /\ pc \in {"directories", "exit", "done"} /\ status # "traceback" =>
       image.free_inodes \subseteq 1..NumInodes
  /\ pc \in {"exit", "done"} /\ status # "traceback" => ~EntryBreaks(image)

\* The status follows the flag and the free inodes.
LEMMA EndStep == TypeInv /\ EndInv /\ [Next]_vars => EndInv'
<1> SUFFICES ASSUME TypeInv, EndInv, [Next]_vars PROVE EndInv'
  OBVIOUS
<1>1. CASE UNCHANGED vars
  BY <1>1 DEF vars, EndInv
<1>2. CASE status = "running" /\ Summarise
  BY <1>2 DEF Summarise, EndInv
<1>3. CASE status = "running" /\ CheckSummary
  <2>1. exit2_flag' \in {0, 1}
    BY <1>3 DEF CheckSummary, EndInv, FreeLine, InodeBlock, InodeNoBlock, InodeLineDone,
                IndirectLine, OtherLine, Unreferenced, PrintFatal
  <2>2. pc' \in {"blocks", "inodes"} /\ UNCHANGED <<image, status>>
    BY <1>3 DEF CheckSummary, FreeLine, InodeBlock, InodeNoBlock, InodeLineDone,
                IndirectLine, OtherLine, Unreferenced, AtLine, NextLine
  <2> QED  BY <1>3, <2>1, <2>2 DEF EndInv
<1>4. CASE status = "running" /\ InodeAudit
  <2>1. (\E l \in Lines("IFREE") : l.inode > NumInodes)
           <=> ~ (image.free_inodes \subseteq 1..NumInodes)
    BY <1>4, FreeInodesExact, SummaryAssumption DEF InodeAudit, TypeInv, Summarised
  <2> QED  BY <1>4, <2>1 DEF InodeAudit, EndInv
<1>5. CASE status = "running" /\ DirectoryAudit
  <2>1. Broken <=> EntryBreaks(image)
    BY <1>5, BrokenExact, SummaryAssumption DEF DirectoryAudit, TypeInv, Summarised
  <2> QED  BY <1>5, <2>1 DEF DirectoryAudit, EndInv
<1>6. CASE status = "running" /\ Exit
  BY <1>6 DEF Exit, EndInv
<1>7. CASE Terminated
  BY <1>7 DEF Terminated, vars, EndInv
<1> QED  BY <1>1, <1>2, <1>3, <1>4, <1>5, <1>6, <1>7 DEF Next, Step

\* The audit ends with the whole summary in the file.
LEMMA EndedIsSummarised ==
  ASSUME TypeInv, EndInv, status # "running" PROVE Summarised
BY SummaryAssumption DEF TypeInv, EndInv, Summarised

\* However deep the blocks of a file are, indirectBlock lists each of them once,
\* with the right level and no offset before its place (lab3a.c:115-153).
THEOREM TreeListed == Spec => []TreeIsListed
<1>1. Init => TypeInv /\ EndInv
  BY DEF Init, TypeInv, EndInv
<1>2. TypeInv /\ EndInv => TreeIsListed
  BY EndedIsSummarised, FileTellsTree DEF TreeIsListed
<1> QED  BY <1>1, <1>2, TypeStep, EndStep, PTL DEF Spec

\* The uses of blocks behind the audit.
PassedFileUses == {u \in FileUses : Passed(u[1], u[2])}

\* exit2_flag tells whether a use behind the audit is wrong, in the end whether
\* anything about the blocks is.
FlagTells ==
  /\ pc = "blocks" => (exit2_flag = 0 <=> UsesRight(PassedFileUses))
  /\ pc \notin {"lab3a", "blocks"} => (exit2_flag = 0 <=> FileRight)

ExitInv == TypeInv /\ KnowsPassed /\ EndInv /\ FlagTells

\* A use in the file is at a block of a line.
LEMMA FileUseIsTyped ==
  ASSUME file \in Seq(Line), NEW u \in FileUses
  PROVE  /\ u[1] \in DOMAIN file /\ u[1] \in Nat /\ u[2] \in Slots /\ u = <<u[1], u[2]>>
         /\ file[u[1]].kind \in {"INODE", "INDIRECT"}
         /\ file[u[1]].kind = "INDIRECT" => u[2] = 1
<1>1. PICK b : b = BlockOf(u)
  OBVIOUS
<1>2. u \in Uses(b)
  BY <1>1 DEF FileUses, Uses
<1> QED  BY <1>2, UseIsTyped

\* Passing a line, and passing a block of an inode.
LEMMA FileUsesByLine ==
  ASSUME TypeInv, pc = "blocks", pos \in DOMAIN file, UNCHANGED file,
         pos' = pos + 1, slot' = 1, file[pos].kind = "INODE" => slot \notin Slots
  PROVE  PassedFileUses' =
           PassedFileUses \cup {u \in FileUses : u[1] = pos /\ file[pos].kind # "INODE"}
<1>1. FileUses' = FileUses
  BY DEF FileUses, IsUse, BlockOf
<1>2. ASSUME NEW u \in FileUses
      PROVE  Passed(u[1], u[2])' <=> Passed(u[1], u[2]) \/ (u[1] = pos /\ file[pos].kind # "INODE")
  <2>1. PICK b : b = BlockOf(u)
    OBVIOUS
  <2>2. u \in Uses(b) /\ u \in Uses(b)'
    BY <2>1 DEF FileUses, Uses, IsUse, BlockOf
  <2>3. PassedUses(b)' = PassedUses(b) \cup {v \in Uses(b) : v[1] = pos /\ file[pos].kind # "INODE"}
    BY UsesByLine
  <2> QED  BY <2>2, <2>3 DEF PassedUses
<1> QED  BY <1>1, <1>2 DEF PassedFileUses

\* Within a line of an inode, the audit passes one use at a time.
LEMMA FileUsesBySlot ==
  ASSUME TypeInv, pc = "blocks", pos \in DOMAIN file, UNCHANGED <<file, pos>>,
         slot \in Slots, slot' = slot + 1, file[pos].kind = "INODE"
  PROVE  PassedFileUses' = PassedFileUses \cup {u \in FileUses : u = <<pos, slot>>}
<1>1. FileUses' = FileUses
  BY DEF FileUses, IsUse, BlockOf
<1>2. ASSUME NEW u \in FileUses
      PROVE  Passed(u[1], u[2])' <=> Passed(u[1], u[2]) \/ u = <<pos, slot>>
  <2>1. PICK b : b = BlockOf(u)
    OBVIOUS
  <2>2. u \in Uses(b) /\ u \in Uses(b)'
    BY <2>1 DEF FileUses, Uses, IsUse, BlockOf
  <2>3. PassedUses(b)' = PassedUses(b) \cup {v \in Uses(b) : v = <<pos, slot>>}
    BY UsesBySlot
  <2> QED  BY <2>2, <2>3 DEF PassedUses
<1> QED  BY <1>1, <1>2 DEF PassedFileUses

\* When the audit is at a use, a data block that it knows is one that is free or
\* has a user behind the audit: the lines about free blocks come first.
LEMMA KnownAs ==
  ASSUME TypeInv, KnowsPassed, pc = "blocks", pos \in DOMAIN file, file[pos].kind # "BFREE",
         NEW b \in DataBlocks
  PROVE  Known(b) <=> FreeListed(b) \/ \E u \in PassedFileUses : BlockOf(u) = b
<1>1. /\ file \in Seq(Line) /\ FreeFirst(file) /\ pos \in Nat /\ b # 0
      /\ Known(b) <=> \E k \in DOMAIN file : MentionPassed(k, b)
  BY SummaryListed, SummaryAssumption, DataBlockIsPositive DEF TypeInv, AtPlace, KnowsPassed
<1>2. 1 \in Slots
  BY DataBlockIsPositive DEF Slots
<1>3. ASSUME NEW k \in DOMAIN file, MentionPassed(k, b)
      PROVE  FreeListed(b) \/ \E u \in PassedFileUses : BlockOf(u) = b
  <2>1. CASE file[k].kind = "BFREE"
    BY <1>3, <2>1 DEF MentionPassed, FreeListed
  <2>2. CASE file[k].kind = "INDIRECT"
    <3>1. k < pos /\ file[k].block = b
      BY <1>3, <2>2 DEF MentionPassed
    <3>2. <<k, 1>> \in PassedFileUses /\ BlockOf(<<k, 1>>) = b
      BY <1>1, <1>2, <2>2, <3>1 DEF PassedFileUses, FileUses, IsUse, BlockOf, Passed
    <3> QED  BY <3>2
  <2>3. CASE file[k].kind = "INODE"
    <3>1. PICK s \in Slots : Passed(k, s) /\ file[k].block[s] = b
      BY <1>3, <2>3 DEF MentionPassed
    <3>2. <<k, s>> \in PassedFileUses /\ BlockOf(<<k, s>>) = b
      BY <1>1, <2>3, <3>1 DEF PassedFileUses, FileUses, IsUse, BlockOf
    <3> QED  BY <3>2
  <2>4. file[k].kind \in {"BFREE", "INDIRECT", "INODE"}
    BY <1>3 DEF MentionPassed
  <2> QED  BY <2>1, <2>2, <2>3, <2>4
<1>4. ASSUME FreeListed(b) PROVE \E k \in DOMAIN file : MentionPassed(k, b)
  <2>1. PICK k \in DOMAIN file : file[k].kind = "BFREE" /\ file[k].block = b
    BY <1>4 DEF FreeListed
  <2>2. ~ (pos <= k)
    BY <1>1, <2>1 DEF FreeFirst
  <2>3. k \in Nat
    BY <1>1, FileIsTyped
  <2>4. MentionPassed(k, b)
    BY <1>1, <2>1, <2>2, <2>3 DEF MentionPassed
  <2> QED  BY <2>4
<1>5. ASSUME NEW u \in PassedFileUses, BlockOf(u) = b
      PROVE  \E k \in DOMAIN file : MentionPassed(k, b)
  <2>1. u \in FileUses /\ Passed(u[1], u[2])
    BY DEF PassedFileUses
  <2>2. MentionPassed(u[1], b)
    BY <1>1, <1>5, <2>1, FileUseIsTyped DEF MentionPassed, Passed, BlockOf
  <2> QED  BY <1>1, <2>1, <2>2, FileUseIsTyped
<1> QED  BY <1>1, <1>3, <1>4, <1>5

\* An INDIRECT line is about a block.
LEMMA IndirectIsBlock ==
  ASSUME Summarised, NEW k \in DOMAIN file, file[k].kind = "INDIRECT"
  PROVE  file[k].block # 0
<1>1. PICK f \in [DOMAIN file -> Items(image)] : Stands(f, file, Items(image), Says(image))
  BY FileItems
<1> DEFINE x == f[k]
           l == file[k]
<1>2. <<l, x>> \in Says(image) /\ l.kind = "INDIRECT"
  BY <1>1 DEF Stands
<1> HIDE DEF x, l
<1>3. x \in Items(image) /\ x[1] = "INDIRECT" /\ l.block = BlockAt(image, x[2], x[3])
  BY <1>2, LineSays
<1>4. \E level \in 1..3 : x[3] \in PathsBelow(image, x[2], NDir + level)
  BY <1>3, ItemKinds
<1> QED  BY <1>3, <1>4 DEF PathsBelow, l

\* A block other than 0 may be used exactly if it is a data block.
LEMMA ErrorTells ==
  ASSUME NEW b \in Int, b # 0, NEW level, NEW n
  PROVE  BlockError(level, b, n) = {} <=> b \in DataBlocks
<1>1. FreeInode \in Nat \ {0} /\ NumBlocks \in Nat
  BY DataBlockIsPositive, ImageAssumption
<1>2. \A text : {<<text, level, b, n>>} # {}
  OBVIOUS
<1>3. CASE b > 0 /\ b < FreeInode
  <2>1. ~ (b < 0 \/ (b >= FreeInode /\ b > NumBlocks - 1)) /\ b \notin DataBlocks
    BY <1>1, <1>3 DEF DataBlocks
  <2> QED  BY <1>2, <1>3, <2>1 DEF BlockError
<1>4. CASE b < 0 \/ (b >= FreeInode /\ b > NumBlocks - 1)
  <2>1. ~ (b > 0 /\ b < FreeInode) /\ b \notin DataBlocks
    BY <1>1, <1>4 DEF DataBlocks
  <2> QED  BY <1>2, <1>4, <2>1 DEF BlockError
<1>5. CASE b \in DataBlocks
  BY <1>5, DataBlockIsRight
<1> QED  BY <1>1, <1>3, <1>4, <1>5 DEF DataBlocks

\* A step that passes use w and prints what is wrong with it.
LEMMA OneMoreTells ==
  ASSUME TypeInv, KnowsPassed, EndInv, FlagTells,
         pc = "blocks", pos \in DOMAIN file, file[pos].kind # "BFREE", UNCHANGED file,
         NEW w \in FileUses, ~Passed(w[1], w[2]), PassedFileUses' = PassedFileUses \cup {w},
         exit2_flag' = 0 <=> exit2_flag = 0 /\ ~Known(BlockOf(w)) /\ BlockOf(w) \in DataBlocks
  PROVE  exit2_flag' = 0 <=> UsesRight(PassedFileUses)'
<1> DEFINE P == PassedFileUses
           Q == P \cup {w}
           right(uses) == /\ \A u \in uses : BlockOf(u) \in DataBlocks /\ ~FreeListed(BlockOf(u))
                          /\ \A u, v \in uses : BlockOf(u) = BlockOf(v) => u = v
<1>1. UsesRight(PassedFileUses)' <=> right(Q)
  BY DEF UsesRight, BlockOf, FreeListed, DataBlocks, FreeInode
<1>2. exit2_flag = 0 <=> right(P)
  BY DEF FlagTells, UsesRight
<1>3. w \notin P
  BY DEF PassedFileUses
<1>4. right(Q) <=> /\ right(P)
                   /\ BlockOf(w) \in DataBlocks
                   /\ ~FreeListed(BlockOf(w))
                   /\ \A u \in P : BlockOf(u) # BlockOf(w)
  BY <1>3
<1>5. BlockOf(w) \in DataBlocks =>
        (Known(BlockOf(w)) <=> FreeListed(BlockOf(w)) \/ \E u \in P : BlockOf(u) = BlockOf(w))
  BY KnownAs
<1> HIDE DEF right
<1> QED  BY <1>1, <1>2, <1>4, <1>5

\* A step that passes no use and prints nothing.
LEMMA NoMoreTells ==
  ASSUME FlagTells, pc = "blocks", UNCHANGED <<file, exit2_flag>>,
         PassedFileUses' = PassedFileUses
  PROVE  exit2_flag' = 0 <=> UsesRight(PassedFileUses)'
BY DEF FlagTells, UsesRight, BlockOf, FreeListed, DataBlocks, FreeInode

\* Every step of the audit of a line keeps account in exit2_flag.
LEMMA FlagStep ==
  ASSUME ExitInv, [Next]_vars, pc = "blocks", pc' = "blocks"
  PROVE  exit2_flag' = 0 <=> UsesRight(PassedFileUses)'
<1> USE DEF ExitInv
<1>1. file \in Seq(Line) /\ pos \in Nat \ {0} /\ exit2_flag \in {0, 1} /\ 1 \in Slots
  BY DataBlockIsPositive DEF TypeInv, AtPlace, EndInv, Slots
<1>2. CASE UNCHANGED vars
  <2>1. UNCHANGED <<file, exit2_flag>> /\ PassedFileUses' = PassedFileUses
    BY <1>2 DEF vars, PassedFileUses, FileUses, Passed, IsUse, BlockOf
  <2> QED  BY <2>1, NoMoreTells
<1>3. CASE FreeLine \/ OtherLine \/ InodeLineDone
  <2>1. /\ pos \in DOMAIN file /\ pos' = pos + 1 /\ slot' = 1
        /\ UNCHANGED <<file, exit2_flag>>
        /\ file[pos].kind \in {"BFREE", "IFREE", "DIRENT", "INODE"}
        /\ file[pos].kind = "INODE" => slot \notin Slots
    BY <1>1, <1>3 DEF FreeLine, OtherLine, InodeLineDone, AtLine, NextLine, TypeInv, AtPlace
  <2>2. \A u \in FileUses : ~ (u[1] = pos /\ file[pos].kind # "INODE")
    BY <1>1, <2>1, FileUseIsTyped
  <2>3. PassedFileUses' = PassedFileUses
    BY <2>1, <2>2, FileUsesByLine
  <2> QED  BY <2>1, <2>3, NoMoreTells
<1>4. CASE InodeNoBlock
  <2>1. /\ pos \in DOMAIN file /\ UNCHANGED <<file, pos, exit2_flag>>
        /\ slot \in Slots /\ slot' = slot + 1 /\ file[pos].kind = "INODE"
        /\ file[pos].block[slot] = 0
    BY <1>4 DEF InodeNoBlock, AtLine
  <2>2. \A u \in FileUses : u # <<pos, slot>>
    BY <2>1 DEF FileUses, BlockOf
  <2>3. PassedFileUses' = PassedFileUses
    BY <2>1, <2>2, FileUsesBySlot
  <2> QED  BY <2>1, <2>3, NoMoreTells
<1>5. CASE InodeBlock
  <2> DEFINE c == file[pos].block[slot]
             n == file[pos].inode
             w == <<pos, slot>>
  <2>1. /\ pos \in DOMAIN file /\ UNCHANGED <<file, pos>> /\ c # 0
        /\ slot \in Slots /\ slot' = slot + 1 /\ file[pos].kind = "INODE"
    BY <1>5 DEF InodeBlock, AtLine
  <2>2. /\ Known(c) => PrintFatal(Conflict(Level(slot), c, n))
        /\ ~Known(c) => PrintFatal(BlockError(Level(slot), c, n))
    BY <1>5 DEF InodeBlock
  <2>3. w \in FileUses /\ BlockOf(w) = c /\ ~Passed(w[1], w[2])
    <3>1. w \in FileUses /\ BlockOf(w) = c
      BY <2>1 DEF FileUses, IsUse, BlockOf
    <3>2. ~ (pos < pos) /\ ~ (slot < slot)
      BY <1>1, <2>1 DEF Slots
    <3> QED  BY <3>1, <3>2 DEF Passed
  <2>4. PassedFileUses' = PassedFileUses \cup {w}
    BY <2>1, <2>3, FileUsesBySlot
  <2>5. c \in Int
    <3>1. file[pos] \in Line
      BY <1>1, <2>1, FileIsTyped
    <3>2. file[pos].block \in [Slots -> Int]
      BY <2>1, <3>1, LineIsTyped
    <3> QED  BY <2>1, <3>2
  <2> HIDE DEF c, n, w
  <2>6. /\ BlockError(Level(slot), c, n) = {} <=> c \in DataBlocks
        /\ Conflict(Level(slot), c, n) # {}
    <3>1. Conflict(Level(slot), c, n) # {}
      BY DEF Conflict
    <3> QED  BY <2>1, <2>5, <3>1, ErrorTells
  <2>7. exit2_flag' = 0 <=> exit2_flag = 0 /\ ~Known(c) /\ c \in DataBlocks
    <3>1. CASE Known(c)
      BY <2>2, <2>6, <3>1 DEF PrintFatal
    <3>2. CASE ~Known(c)
      BY <2>2, <2>6, <3>2 DEF PrintFatal
    <3> QED  BY <3>1, <3>2
  <2> QED  BY <2>1, <2>3, <2>4, <2>7, OneMoreTells
<1>6. CASE IndirectLine
  <2> DEFINE c == file[pos].block
             n == file[pos].inode
             level == file[pos].level
             w == <<pos, 1>>
             known == IF Known(c) THEN Conflict(level, c, n) ELSE {}
  <2>1. /\ pos \in DOMAIN file /\ UNCHANGED file /\ pos' = pos + 1 /\ slot' = 1
        /\ file[pos].kind = "INDIRECT"
    BY <1>1, <1>6 DEF IndirectLine, AtLine, NextLine, TypeInv, AtPlace
  <2>2. PrintFatal(known \cup BlockError(level, c, n))
    BY <1>6 DEF IndirectLine
  <2>3. c # 0
    BY <1>1, <2>1, SummaryAssumption, IndirectIsBlock DEF TypeInv, Summarised
  <2>4. w \in FileUses /\ BlockOf(w) = c /\ ~Passed(w[1], w[2])
    <3>1. w \in FileUses /\ BlockOf(w) = c
      BY <1>1, <2>1, <2>3 DEF FileUses, IsUse, BlockOf
    <3>2. ~ (pos < pos)
      BY <1>1
    <3> QED  BY <2>1, <3>1, <3>2 DEF Passed
  <2>5. PassedFileUses' = PassedFileUses \cup {w}
    <3>1. PassedFileUses' = PassedFileUses \cup {u \in FileUses : u[1] = pos}
      BY <2>1, FileUsesByLine
    <3>2. \A u \in FileUses : u[1] = pos => u = w
      BY <1>1, <2>1, FileUseIsTyped
    <3> QED  BY <2>4, <3>1, <3>2
  <2>6. c \in Int
    <3>1. file[pos] \in Line
      BY <1>1, <2>1, FileIsTyped
    <3> QED  BY <2>1, <3>1 DEF Line
  <2>7. /\ BlockError(level, c, n) = {} <=> c \in DataBlocks
        /\ Conflict(level, c, n) # {}
    <3> HIDE DEF c, n, level
    <3>1. Conflict(level, c, n) # {}
      BY DEF Conflict
    <3> QED  BY <2>3, <2>6, <3>1, ErrorTells
  <2>8. exit2_flag' = 0 <=> exit2_flag = 0 /\ ~Known(c) /\ c \in DataBlocks
    <3> HIDE DEF c, n, level
    <3>1. known \cup BlockError(level, c, n) = {} <=> ~Known(c) /\ c \in DataBlocks
      BY <2>7
    <3> QED  BY <1>1, <2>2, <3>1 DEF PrintFatal
  <2> HIDE DEF c, n, level, w, known
  <2> QED  BY <2>1, <2>4, <2>5, <2>8, OneMoreTells
<1>7. CASE Summarise \/ Unreferenced \/ InodeAudit \/ DirectoryAudit \/ Exit
  BY <1>7 DEF Summarise, Unreferenced, InodeAudit, DirectoryAudit, Exit
<1> QED  BY <1>2, <1>3, <1>4, <1>5, <1>6, <1>7 DEF Next, Step, CheckSummary, Terminated

\* Behind the last line, the flag tells about the whole file.
LEMMA UnreferencedTells ==
  ASSUME ExitInv, Unreferenced PROVE exit2_flag' = 0 <=> FileRight
<1>1. /\ pc = "blocks" /\ pos \notin DOMAIN file /\ file \in Seq(Line) /\ exit2_flag \in {0, 1}
      /\ TypeInv
  BY DEF Unreferenced, ExitInv, TypeInv, EndInv
<1>2. PassedFileUses = FileUses
  <2>1. pos > Len(file) /\ Len(file) \in Nat /\ pos \in Nat
    BY <1>1, FileIsTyped DEF TypeInv, AtPlace
  <2>2. \A u \in FileUses : u[1] < pos
    BY <1>1, <2>1, FileUseIsTyped, FileIsTyped
  <2> QED  BY <2>2 DEF PassedFileUses, Passed
<1>3. \A b \in DataBlocks : Known(b) <=> \E k \in DOMAIN file : Mentions(file[k], b)
  BY <1>1, AllPassed DEF ExitInv, KnowsPassed
<1>4. exit2_flag' = 0 <=> exit2_flag = 0 /\ \A b \in DataBlocks : Known(b)
  <2> DEFINE unknown == {d \in DataBlocks : ~Known(d)}
             messages == {<<"UNREFERENCED BLOCK", b>> : b \in unknown}
  <2>1. messages = {} <=> unknown = {}
    OBVIOUS
  <2>2. unknown = {} <=> \A b \in DataBlocks : Known(b)
    OBVIOUS
  <2> HIDE DEF messages
  <2>3. exit2_flag' = IF messages = {} THEN exit2_flag ELSE 1
    BY DEF Unreferenced, PrintFatal, messages
  <2> HIDE DEF unknown
  <2> QED  BY <1>1, <2>1, <2>2, <2>3
<1>5. exit2_flag = 0 <=> UsesRight(FileUses)
  BY <1>1, <1>2 DEF ExitInv, FlagTells
<1> QED  BY <1>3, <1>4, <1>5 DEF FileRight

\* The flag is right to the end.
LEMMA ExitStep == ExitInv /\ [Next]_vars => ExitInv'
<1> SUFFICES ASSUME ExitInv, [Next]_vars PROVE ExitInv'
  OBVIOUS
<1>1. TypeInv' /\ KnowsPassed' /\ EndInv'
  BY TypeStep, KnowsStep, EndStep DEF ExitInv
<1>2. ASSUME UNCHANGED file PROVE FileRight' <=> FileRight
  BY <1>2 DEF FileRight, UsesRight, FileUses, IsUse, BlockOf, FreeListed, Mentions, DataBlocks, FreeInode
<1>3. CASE Summarise
  <2>1. pc' = "blocks" /\ exit2_flag' = 0 /\ pos' = 1 /\ slot' = 1
    BY <1>3 DEF Summarise, ExitInv, TypeInv, EndInv
  <2>2. file' \in Seq(Line)
    BY <1>1, <2>1 DEF TypeInv
  <2>3. PassedFileUses' = {}
    <3> SUFFICES ASSUME NEW u \in FileUses', Passed(u[1], u[2])' PROVE FALSE
      BY DEF PassedFileUses
    <3>1. u[1] \in DOMAIN file' /\ u[2] \in Slots
      BY DEF FileUses
    <3>2. u[1] \in Nat \ {0} /\ u[2] \in Nat \ {0}
      BY <2>2, <3>1 DEF Slots
    <3> QED  BY <2>1, <3>2 DEF Passed
  <2>4. UsesRight(PassedFileUses)'
    BY <2>3 DEF UsesRight
  <2> QED  BY <1>1, <2>1, <2>4 DEF ExitInv, FlagTells
<1>4. CASE pc = "blocks" /\ pc' = "blocks"
  BY <1>1, <1>4, FlagStep DEF ExitInv, FlagTells
<1>5. CASE Unreferenced
  <2>1. pc' = "inodes" /\ UNCHANGED file
    BY <1>5 DEF Unreferenced
  <2> QED  BY <1>1, <1>2, <1>5, <2>1, UnreferencedTells DEF ExitInv, FlagTells
<1>6. CASE InodeAudit \/ DirectoryAudit \/ Exit \/ (UNCHANGED vars /\ pc # "blocks")
  <2>1. /\ UNCHANGED <<file, exit2_flag>> /\ pc # "blocks" /\ pc' # "blocks"
        /\ pc' \notin {"lab3a", "blocks"} => pc \notin {"lab3a", "blocks"}
    BY <1>6 DEF InodeAudit, DirectoryAudit, Exit, vars
  <2> QED  BY <1>1, <1>2, <2>1 DEF ExitInv, FlagTells
<1>7. Summarise \/ (pc = "blocks" /\ pc' = "blocks") \/ Unreferenced \/ InodeAudit
        \/ DirectoryAudit \/ Exit \/ (UNCHANGED vars /\ pc # "blocks")
  BY DEF Next, Step, CheckSummary, Terminated, vars, FreeLine, InodeBlock, InodeNoBlock,
         InodeLineDone, IndirectLine, OtherLine, AtLine, NextLine
<1> QED  BY <1>3, <1>4, <1>5, <1>6, <1>7

\* The exit status is 2 exactly if the blocks of the image are inconsistent, and
\* the program breaks off exactly if a bit behind the last inode is clear or an entry
\* that is read has an inode too negative for the lists, as %d prints it
\* (lab3b.py:14-102, 130, 187-189, 219-221).
THEOREM ExitStatusTold == Spec => []ExitStatusTellsBlocks
<1>1. Init => ExitInv
  BY DEF Init, ExitInv, TypeInv, KnowsPassed, EndInv, FlagTells
<1>2. ExitInv => ExitStatusTellsBlocks
  <2> SUFFICES ASSUME ExitInv, status # "running" PROVE ExitStatusTellsBlocks
    BY DEF ExitStatusTellsBlocks
  <2>1. FileRight <=> BlocksConsistent(image)
    BY EndedIsSummarised, FileTellsBlocks DEF ExitInv
  <2>2. exit2_flag = 0 <=> FileRight
    BY DEF ExitInv, EndInv, FlagTells
  <2>3. CASE status = "traceback"
    BY <2>3 DEF ExitInv, EndInv, ExitStatusTellsBlocks
  <2>4. CASE status \in {"exit0", "exit2"}
    <3>1. /\ image.free_inodes \subseteq 1..NumInodes /\ ~EntryBreaks(image)
          /\ status = IF exit2_flag = 0 THEN "exit0" ELSE "exit2"
      BY <2>4 DEF ExitInv, EndInv
    <3> QED  BY <2>1, <2>2, <3>1 DEF ExitStatusTellsBlocks
  <2> QED  BY <2>3, <2>4 DEF ExitInv, EndInv
<1> QED  BY <1>1, <1>2, ExitStep, PTL DEF Spec

-----------------------------------------------------------------------------
(* The lines of the entries, and the entries of the image.                   *)

\* Of a plain directory, every block is read.
LEMMA AllRead ==
  ASSUME NEW img, ImageType(img), PlainDirectories(img), NEW n \in InodesInUse(img)
  PROVE  /\ n \in Directories(img) <=> FileType(img.inode[n].mode) = "d"
         /\ ReadBlocks(img, n) = IF n \in Directories(img)
                                 THEN {k \in 1..NDir : img.inode[n].block[k] # 0} ELSE {}
<1> DEFINE block == img.inode[n].block
           X == {k \in 1..NDir : \A j \in 1..k : block[j] # 0}
<1>1. n \in 1..NumInodes /\ InUse(img, n)
  BY DEF InodesInUse
<1>2. n \in Directories(img) <=> FileType(img.inode[n].mode) = "d"
  <2>1. img.inode[n].mode = {14} => FileType(img.inode[n].mode) = "d"
    BY DEF FileType
  <2> QED  BY <1>1, <2>1 DEF Directories, PlainDirectories
<1>3. CASE n \in Directories(img)
  <2>1. X = {k \in 1..NDir : block[k] # 0}
    <3>1. \A k \in 1..NDir : block[k] # 0 => \A j \in 1..k : block[j] # 0
      BY <1>1, <1>2, <1>3 DEF PlainDirectories
    <3>2. \A k \in 1..NDir : k \in 1..k
      OBVIOUS
    <3> QED  BY <3>1, <3>2
  <2>2. X = 1..Cardinality(X)
    <3>1. X \in SUBSET (1..NDir) /\ NDir \in Nat
      BY ImageAssumption
    <3>2. ASSUME NEW k \in X, NEW j \in 1..k PROVE j \in X
      <4>1. j \in 1..NDir /\ \A i \in 1..j : i \in 1..k
        BY <3>1
      <4> QED  BY <4>1
    <3> HIDE DEF X
    <3> QED  BY <3>1, <3>2, FrontPart
  <2> QED  BY <1>2, <1>3, <2>1, <2>2 DEF ReadBlocks
<1>4. CASE n \notin Directories(img)
  BY <1>2, <1>4 DEF ReadBlocks
<1> QED  BY <1>2, <1>3, <1>4

\* The lines of the file about entries.
EntryLines == {k \in DOMAIN file : file[k].kind = "DIRENT"}

\* entry[k] is the entry that line k is about.
Enters(entry) ==
  /\ \A k \in EntryLines : /\ entry[k].dir = file[k].dir
                           /\ entry[k].inode = file[k].inode
                           /\ entry[k].name = file[k].name
  /\ \A j, k \in EntryLines : entry[j] = entry[k] => j = k
  /\ \A e \in AllEntries(image) : \E k \in EntryLines : entry[k] = e

\* Every entry has its line.
LEMMA LinesAreEntries ==
  ASSUME Summarised, PlainDirectories(image)
  PROVE  \E entry \in [EntryLines -> AllEntries(image)] : Enters(entry)
<1>0. PICK f \in [DOMAIN file -> Items(image)] : Stands(f, file, Items(image), Says(image))
  BY FileItems
<1>1. /\ \A k \in DOMAIN file : <<file[k], f[k]>> \in Says(image)
      /\ \A x \in Items(image) : \E k \in DOMAIN file : f[k] = x
      /\ \A j, k \in DOMAIN file : f[j] = f[k] => j = k
  BY <1>0 DEF Stands
<1> DEFINE at(n, k) == Entries(image, image.inode[n].block[k])
           of(n, k, j) == [dir |-> n, at |-> <<k, j>>, inode |-> at(n, k)[j].inode,
                           name |-> at(n, k)[j].name]
           entry == [k \in EntryLines |-> of(f[k][2], f[k][3][1], f[k][3][2])]
<1>2. ASSUME NEW n \in InodesInUse(image), NEW k \in ReadBlocks(image, n), NEW j \in DOMAIN at(n, k)
      PROVE  of(n, k, j) \in AllEntries(image)
  <2>1. n \in Directories(image) /\ k \in 1..NDir /\ image.inode[n].block[k] # 0
    BY AllRead DEF Summarised
  <2>2. of(n, k, j) \in EntriesAt(image, n, k)
    BY <2>1 DEF EntriesAt
  <2> HIDE DEF of
  <2> QED  BY <2>1, <2>2 DEF AllEntries
<1>3. ASSUME NEW e \in AllEntries(image)
      PROVE  \E n \in InodesInUse(image) : \E k \in ReadBlocks(image, n) :
               \E j \in DOMAIN at(n, k) : e = of(n, k, j)
  <2>1. PICK n \in Directories(image) : \E k \in 1..NDir : e \in EntriesAt(image, n, k)
    BY DEF AllEntries
  <2>2. PICK k \in 1..NDir : e \in EntriesAt(image, n, k)
    BY <2>1
  <2>3. n \in InodesInUse(image)
    BY DEF Directories, InodesInUse
  <2>4. image.inode[n].block[k] # 0
    BY <2>2 DEF EntriesAt
  <2>5. k \in ReadBlocks(image, n)
    BY <2>3, <2>4, AllRead DEF Summarised
  <2>6. \E j \in DOMAIN at(n, k) : e = of(n, k, j)
    BY <2>2, <2>4 DEF EntriesAt
  <2> QED  BY <2>3, <2>5, <2>6
<1>4. ASSUME NEW i \in EntryLines
      PROVE  \E n \in InodesInUse(image) : \E k \in ReadBlocks(image, n) :
               \E j \in DOMAIN at(n, k) :
                 /\ f[i] = <<"DIRENT", n, <<k, j>>>>
                 /\ file[i].dir = n /\ file[i].inode = at(n, k)[j].inode
                 /\ file[i].name = at(n, k)[j].name
  <2> DEFINE x == f[i]
             l == file[i]
  <2>1. <<l, x>> \in Says(image) /\ l.kind = "DIRENT"
    BY <1>1 DEF EntryLines
  <2> HIDE DEF x, l
  <2>2. x \in Items(image) /\ x[1] = "DIRENT"
    BY <2>1, LineSays
  <2>3. PICK n \in InodesInUse(image) : \E k \in ReadBlocks(image, n) :
           \E j \in DOMAIN Entries(image, image.inode[n].block[k]) : x = <<"DIRENT", n, <<k, j>>>>
    BY <2>2, EntryKind
  <2>4. PICK k \in ReadBlocks(image, n) :
           \E j \in DOMAIN Entries(image, image.inode[n].block[k]) : x = <<"DIRENT", n, <<k, j>>>>
    BY <2>3
  <2>5. PICK j \in DOMAIN at(n, k) : x = <<"DIRENT", n, <<k, j>>>>
    BY <2>4
  <2>6. x[2] = n /\ x[3][1] = k /\ x[3][2] = j
    BY <2>5
  <2>7. l.dir = n /\ l.inode = at(n, k)[j].inode /\ l.name = at(n, k)[j].name
    BY <2>1, <2>6 DEF Says
  <2> QED  BY <2>5, <2>7 DEF x, l
<1>5. ASSUME NEW i \in EntryLines
      PROVE  /\ entry[i] \in AllEntries(image)
             /\ entry[i].dir = file[i].dir /\ entry[i].inode = file[i].inode
             /\ entry[i].name = file[i].name
             /\ f[i] = <<"DIRENT", entry[i].dir, entry[i].at>>
  <2>p. PICK n \in InodesInUse(image) : \E m, j :
           /\ m \in ReadBlocks(image, n) /\ j \in DOMAIN at(n, m)
           /\ f[i] = <<"DIRENT", n, <<m, j>>>>
           /\ file[i].dir = n /\ file[i].inode = at(n, m)[j].inode
           /\ file[i].name = at(n, m)[j].name
    BY <1>4
  <2>1. PICK m, j :
           /\ m \in ReadBlocks(image, n) /\ j \in DOMAIN at(n, m)
           /\ f[i] = <<"DIRENT", n, <<m, j>>>>
           /\ file[i].dir = n /\ file[i].inode = at(n, m)[j].inode
           /\ file[i].name = at(n, m)[j].name
    BY <2>p
  <2>2. entry[i] = of(n, m, j)
    <3>1. f[i][2] = n /\ f[i][3][1] = m /\ f[i][3][2] = j
      BY <2>1
    <3> HIDE DEF of
    <3> QED  BY <3>1
  <2>3. of(n, m, j) \in AllEntries(image)
    BY <1>2, <2>1
  <2>4. /\ of(n, m, j).dir = n /\ of(n, m, j).at = <<m, j>>
        /\ of(n, m, j).inode = at(n, m)[j].inode /\ of(n, m, j).name = at(n, m)[j].name
    OBVIOUS
  <2> HIDE DEF entry, of, at
  <2> QED  BY <2>1, <2>2, <2>3, <2>4
<1>6. ASSUME NEW e \in AllEntries(image) PROVE \E i \in EntryLines : entry[i] = e
  <2>p. PICK n \in InodesInUse(image) : \E m, j :
           m \in ReadBlocks(image, n) /\ j \in DOMAIN at(n, m) /\ e = of(n, m, j)
    BY <1>3
  <2>1. PICK m, j :
           m \in ReadBlocks(image, n) /\ j \in DOMAIN at(n, m) /\ e = of(n, m, j)
    BY <2>p
  <2> DEFINE x == <<"DIRENT", n, <<m, j>>>>
  <2>2. x \in Items(image)
    <3>1. x \in BlockEntryItems(image, n, m)
      BY <2>1 DEF BlockEntryItems
    <3> HIDE DEF x
    <3>2. x \in EntryItems(image, n)
      BY <2>1, <3>1 DEF EntryItems
    <3>3. x \in ItemsOf(image, n)
      BY <3>2 DEF ItemsOf
    <3> QED  BY <3>3 DEF Items
  <2>3. PICK i \in DOMAIN file : f[i] = x
    <3> HIDE DEF x
    <3> QED  BY <1>1, <2>2
  <2>4. file[i].kind = x[1]
    <3> HIDE DEF x
    <3> QED  BY <1>1, <2>3, LineSays
  <2>5. i \in EntryLines
    BY <2>4 DEF EntryLines
  <2>6. entry[i] = of(n, m, j)
    <3>1. f[i][2] = n /\ f[i][3][1] = m /\ f[i][3][2] = j
      BY <2>3
    <3> HIDE DEF of, x
    <3> QED  BY <2>5, <3>1
  <2> QED  BY <2>1, <2>5, <2>6
<1>7. \A i, j \in EntryLines : entry[i] = entry[j] => i = j
  <2> HIDE DEF entry
  <2> SUFFICES ASSUME NEW i \in EntryLines, NEW j \in EntryLines, entry[i] = entry[j] PROVE i = j
    OBVIOUS
  <2>1. f[i] = f[j]
    BY <1>5
  <2> QED  BY <1>1, <2>1 DEF EntryLines
<1>8. entry \in [EntryLines -> AllEntries(image)]
  BY <1>5
<1> HIDE DEF entry
<1> QED  BY <1>5, <1>6, <1>7, <1>8 DEF Enters

-----------------------------------------------------------------------------
(* The tables of the inode and directory audits, and the image.              *)

\* The lines about inodes are those in use, and those that are free.
LEMMA InodeLinesExact ==
  ASSUME Summarised
  PROVE  /\ \A n : InodeAllocated(n) <=> n \in InodesInUse(image)
         /\ \A n : InodeFree(n) <=> n \in image.free_inodes
         /\ \A l \in Lines("INODE") : l.inode \in InodesInUse(image) /\ l = InodeLine(image, l.inode)
<1>1. PICK f \in [DOMAIN file -> Items(image)] : Stands(f, file, Items(image), Says(image))
  BY FileItems
<1>2. ASSUME NEW l \in Lines("INODE")
      PROVE  l.inode \in InodesInUse(image) /\ l = InodeLine(image, l.inode)
  <2>1. PICK k \in DOMAIN file : l = file[k]
    BY DEF Lines, ToSet
  <2> DEFINE x == f[k]
  <2>2. <<l, x>> \in Says(image) /\ l.kind = "INODE"
    BY <1>1, <2>1 DEF Stands, Lines
  <2> HIDE DEF x
  <2>3. x \in Items(image) /\ x[1] = "INODE" /\ l = InodeLine(image, x[2])
    BY <2>2, LineSays
  <2>4. x[2] \in InodesInUse(image) /\ l.inode = x[2]
    BY <2>3, ItemKinds DEF InodeLine
  <2> QED  BY <2>3, <2>4
<1>3. ASSUME NEW n \in InodesInUse(image) PROVE InodeAllocated(n)
  <2> DEFINE x == InodeItem(n)
  <2>1. x \in Items(image) /\ x[1] = "INODE" /\ x[2] = n
    <3>1. x \in ItemsOf(image, n)
      BY DEF ItemsOf
    <3>2. x[1] = "INODE" /\ x[2] = n
      BY DEF InodeItem
    <3> HIDE DEF x
    <3> QED  BY <3>1, <3>2 DEF Items
  <2> HIDE DEF x
  <2>2. PICK k \in DOMAIN file : f[k] = x
    BY <1>1, <2>1 DEF Stands
  <2>3. <<file[k], x>> \in Says(image)
    BY <1>1, <2>2 DEF Stands
  <2>4. file[k].kind = "INODE" /\ file[k] = InodeLine(image, n)
    BY <2>1, <2>3, LineSays
  <2>5. file[k].inode = n
    BY <2>4 DEF InodeLine
  <2>6. file[k] \in Lines("INODE")
    BY <2>4 DEF Lines, ToSet
  <2> QED  BY <2>5, <2>6 DEF InodeAllocated
<1>4. ASSUME NEW l \in Lines("IFREE") PROVE l.inode \in image.free_inodes
  <2>1. PICK k \in DOMAIN file : l = file[k]
    BY DEF Lines, ToSet
  <2> DEFINE x == f[k]
  <2>2. <<l, x>> \in Says(image) /\ l.kind = "IFREE"
    BY <1>1, <2>1 DEF Stands, Lines
  <2> HIDE DEF x
  <2> QED  BY <2>2, LineSays, ItemKinds
<1>5. ASSUME NEW n \in image.free_inodes PROVE InodeFree(n)
  <2> DEFINE x == <<"IFREE", n, <<>>>>
  <2>1. x \in Items(image) /\ x[1] = "IFREE" /\ x[2] = n
    BY DEF Items, FreeInodeItems
  <2> HIDE DEF x
  <2>2. PICK k \in DOMAIN file : f[k] = x
    BY <1>1, <2>1 DEF Stands
  <2>3. <<file[k], x>> \in Says(image)
    BY <1>1, <2>2 DEF Stands
  <2>4. file[k].kind = "IFREE" /\ file[k].inode = n
    BY <2>1, <2>3, LineSays
  <2>5. file[k] \in Lines("IFREE")
    BY <2>4 DEF Lines, ToSet
  <2> QED  BY <2>4, <2>5 DEF InodeFree
<1> QED  BY <1>2, <1>3, <1>4, <1>5 DEF InodeAllocated, InodeFree

\* The audit sees the directories of the image, and their link counts.
LEMMA DirectoriesExact ==
  ASSUME Summarised, PlainDirectories(image), NEW n
  PROVE  /\ IsDirectory(n) <=> n \in Directories(image)
         /\ n \in Directories(image) => ListLinks(n) = image.inode[n].links
<1>1. ASSUME IsDirectory(n) PROVE n \in Directories(image)
  <2>1. PICK l \in Lines("INODE") : l.inode = n /\ l.type = "d"
    BY <1>1 DEF IsDirectory
  <2>2. n \in InodesInUse(image) /\ l = InodeLine(image, n)
    BY <2>1, InodeLinesExact
  <2>3. FileType(image.inode[n].mode) = "d"
    BY <2>1, <2>2 DEF InodeLine
  <2> QED  BY <2>2, <2>3, AllRead DEF Summarised
<1>2. ASSUME n \in Directories(image)
      PROVE  IsDirectory(n) /\ ListLinks(n) = image.inode[n].links
  <2>1. n \in InodesInUse(image)
    BY <1>2 DEF Directories, InodesInUse
  <2>2. FileType(image.inode[n].mode) = "d"
    BY <1>2, <2>1, AllRead DEF Summarised
  <2>3. \E l \in Lines("INODE") : l.inode = n
    BY <2>1, InodeLinesExact DEF InodeAllocated
  <2>4. \A l \in Lines("INODE") : l.inode = n => l.type = "d" /\ l.links = image.inode[n].links
    <3> SUFFICES ASSUME NEW l \in Lines("INODE"), l.inode = n
                 PROVE  l.type = "d" /\ l.links = image.inode[n].links
      OBVIOUS
    <3>1. l = InodeLine(image, n)
      BY InodeLinesExact
    <3> QED  BY <2>2, <3>1 DEF InodeLine
  <2>5. IsDirectory(n)
    BY <2>3, <2>4 DEF IsDirectory
  <2>6. (CHOOSE l \in Lines("INODE") : l.inode = n).links = image.inode[n].links
    BY <2>3, <2>4
  <2> QED  BY <2>5, <2>6 DEF ListLinks
<1> QED  BY <1>1, <1>2

\* A finite set of numbers has a greatest.
LEMMA GreatestIn ==
  ASSUME NEW N \in Nat, NEW X \in SUBSET (1..N), X # {} PROVE Max(X) \in X
<1> DEFINE top(m, n) == m \in X /\ \A k \in X : k <= n => k <= m
           S == {n \in Nat : (\E k \in X : k <= n) => \E m \in X : top(m, n)}
<1>1. 0 \in S
  OBVIOUS
<1>2. ASSUME NEW n \in Nat, n \in S PROVE n + 1 \in S
  <2> SUFFICES ASSUME \E k \in X : k <= n + 1 PROVE \E m \in X : top(m, n + 1)
    OBVIOUS
  <2>1. CASE n + 1 \in X
    <3>1. top(n + 1, n + 1)
      BY <2>1
    <3> QED  BY <2>1, <3>1
  <2>2. CASE n + 1 \notin X
    <3>1. \A k \in X : k <= n + 1 => k <= n
      <4> TAKE k \in X
      <4>1. k \in Nat /\ k # n + 1
        BY <2>2
      <4> QED  BY <1>2, <4>1
    <3>2. PICK m \in X : top(m, n)
      BY <1>2, <3>1
    <3>3. top(m, n + 1)
      BY <3>1, <3>2
    <3> QED  BY <3>3
  <2> QED  BY <2>1, <2>2
<1>3. N \in S
  <2> HIDE DEF S
  <2> QED  BY <1>1, <1>2, SetInduction
<1>4. PICK m \in X : top(m, N)
  BY <1>3
<1>5. \A k \in X : m >= k
  BY <1>4
<1> QED  BY <1>5 DEF Max

\* The entries with a name of their own that name inode n.
Names(n) == {e \in AllEntries(image) : e.inode = n /\ e.name \notin Dots}

\* The parent of an inode is a directory with an entry for it.
LEMMA ParentExact ==
  ASSUME Summarised, PlainDirectories(image), NEW n, n # 2
  PROVE  /\ ParentDir(n) = 0 <=> Names(n) = {}
         /\ ParentDir(n) # 0 => \E e \in Names(n) : e.dir = ParentDir(n)
<1>1. PICK entry \in [EntryLines -> AllEntries(image)] : Enters(entry)
  BY LinesAreEntries
<1>2. /\ \A k \in EntryLines : /\ entry[k] \in AllEntries(image)
                               /\ entry[k].dir = file[k].dir
                               /\ entry[k].inode = file[k].inode
                               /\ entry[k].name = file[k].name
      /\ \A e \in AllEntries(image) : \E k \in EntryLines : entry[k] = e
  BY <1>1 DEF Enters
<1>3. Naming(n) = {k \in EntryLines : file[k].inode = n /\ file[k].name \notin Dots}
  BY DEF Naming, EntryLines
<1>4. ParentDir(n) = LastOf(Naming(n))
  BY DEF ParentDir
<1>5. Naming(n) = {} <=> Names(n) = {}
  BY <1>2, <1>3 DEF Names
<1>6. ASSUME Naming(n) # {}
      PROVE  ParentDir(n) # 0 /\ \E e \in Names(n) : e.dir = ParentDir(n)
  <2>1. file \in Seq(Line)
    BY FileItems
  <2>2. Naming(n) \in SUBSET (1..Len(file)) /\ Len(file) \in Nat
    BY <2>1, FileIsTyped DEF Naming
  <2> DEFINE k == Max(Naming(n))
  <2>3. k \in Naming(n)
    BY <1>6, <2>2, GreatestIn
  <2>4. ParentDir(n) = file[k].dir
    BY <1>4, <1>6 DEF LastOf
  <2> HIDE DEF k
  <2>5. k \in EntryLines /\ entry[k] \in Names(n)
    BY <1>2, <1>3, <2>3 DEF Names
  <2>6. file[k].dir # 0
    <3>1. file[k] \in Line /\ file[k].kind = "DIRENT"
      BY <2>1, <2>5, FileIsTyped DEF EntryLines
    <3> QED  BY <3>1 DEF Line
  <2> QED  BY <1>2, <2>4, <2>5, <2>6
<1>7. Naming(n) = {} => ParentDir(n) = 0
  BY <1>4 DEF LastOf
<1> QED  BY <1>5, <1>6, <1>7

\* The entries that name an inode are counted.
LEMMA CountExact ==
  ASSUME Summarised, PlainDirectories(image), NEW n
  PROVE  /\ Cardinality({k \in DOMAIN file : file[k].kind = "DIRENT" /\ file[k].inode = n})
              = Cardinality({e \in AllEntries(image) : e.inode = n})
         /\ IsFiniteSet({e \in AllEntries(image) : e.inode = n})
<1>1. PICK entry \in [EntryLines -> AllEntries(image)] : Enters(entry)
  BY LinesAreEntries
<1>2. /\ \A k \in EntryLines : entry[k] \in AllEntries(image) /\ entry[k].inode = file[k].inode
      /\ \A j, k \in EntryLines : entry[j] = entry[k] => j = k
      /\ \A e \in AllEntries(image) : \E k \in EntryLines : entry[k] = e
  BY <1>1 DEF Enters
<1> DEFINE S == {k \in DOMAIN file : file[k].kind = "DIRENT" /\ file[k].inode = n}
           T == {e \in AllEntries(image) : e.inode = n}
           g == [k \in S |-> entry[k]]
<1>3. S \subseteq EntryLines /\ \A k \in EntryLines : k \in S <=> file[k].inode = n
  BY DEF EntryLines
<1>4. \A k \in S : g[k] = entry[k] /\ g[k] \in T
  BY <1>2, <1>3
<1>5. \A e \in T : \E k \in S : g[k] = e
  <2> SUFFICES ASSUME NEW e \in T PROVE \E k \in S : g[k] = e
    OBVIOUS
  <2>1. PICK k \in EntryLines : entry[k] = e
    BY <1>2
  <2>2. k \in S
    BY <1>2, <1>3, <2>1
  <2> QED  BY <1>4, <2>1, <2>2
<1>6. IsFiniteSet(S)
  <2>1. DOMAIN file = 1..Len(file) /\ Len(file) \in Nat
    BY FileItems, FileIsTyped
  <2>2. IsFiniteSet(DOMAIN file)
    BY <2>1, FS_Interval
  <2>3. S \subseteq DOMAIN file
    OBVIOUS
  <2> QED  BY <2>2, <2>3, FS_Subset
<1>7. g \in [S -> T]
  BY <1>4
<1> HIDE DEF g, S, T
<1>8. ExistsBijection(S, T)
  <2>1. \A j, k \in S : g[j] = g[k] => j = k
    BY <1>2, <1>3, <1>4
  <2>2. g \in Bijection(S, T)
    BY <1>5, <1>7, <2>1 DEF Bijection, Injection, Surjection, IsInjective
  <2> QED  BY <2>2 DEF ExistsBijection
<1>9. Cardinality(T) = Cardinality(S) /\ IsFiniteSet(T)
  BY <1>6, <1>8, FS_Bijection
<1> QED  BY <1>9 DEF S, T

\* If all entries name inodes that exist, no index counts from the end of the list.
LEMMA CountedExact ==
  ASSUME Summarised, NEW n, \A l \in Lines("DIRENT") : InRange(l.inode), IsDirectory(n)
  PROVE  DirCount(n) = Cardinality({k \in DOMAIN file : file[k].kind = "DIRENT"
                                                         /\ file[k].inode = n})
<1>1. \A k \in DOMAIN file : file[k].kind = "DIRENT" =>
        file[k].inode <= NumInodes /\ Cell(file[k].inode) = file[k].inode
  <2> SUFFICES ASSUME NEW k \in DOMAIN file, file[k].kind = "DIRENT"
               PROVE  file[k].inode <= NumInodes /\ Cell(file[k].inode) = file[k].inode
    OBVIOUS
  <2> DEFINE l == file[k]
  <2>1. InRange(l.inode) /\ l \in Line /\ l.kind = "DIRENT"
    BY FileItems, FileIsTyped DEF Lines, ToSet
  <2> HIDE DEF l
  <2>2. l.inode \in Int
    BY <2>1 DEF Line
  <2>3. l.inode <= NumInodes /\ Cell(l.inode) = l.inode
    BY <2>1, <2>2 DEF InRange, Cell
  <2> QED  BY <2>3 DEF l
<1>2. {k \in DOMAIN file : /\ file[k].kind = "DIRENT"
                           /\ file[k].inode <= NumInodes
                           /\ Cell(file[k].inode) = n}
        = {k \in DOMAIN file : file[k].kind = "DIRENT" /\ file[k].inode = n}
  BY <1>1
<1> QED  BY <1>2 DEF DirCount

-----------------------------------------------------------------------------
(* What the inode and directory audits are silent about.                     *)

FileInodesRight == \A n \in Audited \ ReservedInodes : InodeAllocated(n) <=> ~InodeFree(n)

FileEntriesRight ==
  /\ \A l \in Lines("DIRENT") : ~Invalid(l) /\ ~Unallocated(l) /\ ~WrongLink(l)
  /\ \A l \in Lines("INODE") : ParentDir(l.inode) # 0
  /\ \A n \in Audited : DirCount(n) = ListLinks(n)

\* The audit of the inodes prints nothing exactly if what it looks at is right.
LEMMA InodesTell ==
  ASSUME InodeAudit, status' = "running" PROVE printed' = {} <=> printed = {} /\ FileInodesRight
<1> DEFINE both == {m \in Audited \ ReservedInodes : InodeAllocated(m) /\ InodeFree(m)}
           neither == {m \in Audited \ ReservedInodes : ~InodeAllocated(m) /\ ~InodeFree(m)}
           a == {<<"ALLOCATED INODE", n>> : n \in both}
           u == {<<"UNALLOCATED INODE", n>> : n \in neither}
<1>1. printed' = printed \cup a \cup u
  BY DEF InodeAudit
<1>2. (a = {} <=> both = {}) /\ (u = {} <=> neither = {})
  OBVIOUS
<1>3. both = {} /\ neither = {} <=> FileInodesRight
  BY DEF FileInodesRight
<1> HIDE DEF a, u, both, neither
<1> QED  BY <1>1, <1>2, <1>3

\* The audit of the entries prints nothing exactly if what it looks at is right.
LEMMA EntriesTell ==
  ASSUME DirectoryAudit, Summarised
  PROVE  printed' = {} <=> printed = {} /\ FileEntriesRight
<1> DEFINE invalid == {l \in Lines("DIRENT") : Invalid(l)}
           free == {l \in Lines("DIRENT") : Unallocated(l)}
           wrong == {l \in Reached("DIRENT") : WrongLink(l)}
           orphans == {m \in Reached("INODE") : ParentDir(m.inode) = 0}
           a == EntryMessages("INVALID INODE", invalid)
           b == EntryMessages("UNALLOCATED INODE", free)
           c == EntryMessages("LINK", wrong)
           d == {<<"LINKS", l.inode, 0, l.links>> : l \in orphans}
           e == {<<"LINKS", n, DirCount(n), ListLinks(n)>> : n \in Miscounted}
<1>1. printed' = printed \cup a \cup b \cup c \cup d \cup e
  BY DEF DirectoryAudit
<1>2. /\ a = {} <=> invalid = {}
      /\ b = {} <=> free = {}
      /\ c = {} <=> wrong = {}
  BY DEF EntryMessages
<1>3. d = {} <=> orphans = {}
  OBVIOUS
<1>4. e = {} <=> Miscounted = {}
  OBVIOUS
<1>5. CASE Broken
  <2>1. PICK k \in DOMAIN file : file[k].kind = "DIRENT" /\ file[k].inode < -(NumInodes + 1)
    BY <1>5 DEF Broken, Breaks, Lines, ToSet
  <2>2. file[k] \in Lines("DIRENT")
    BY <2>1 DEF Lines, ToSet
  <2>3. Invalid(file[k])
    <3>1. file[k] \in Line
      BY FileItems, FileIsTyped
    <3> DEFINE l == file[k]
    <3>2. l \in Line /\ l.kind = "DIRENT" /\ l.inode < -(NumInodes + 1)
      BY <2>1, <3>1
    <3> HIDE DEF l
    <3>3. l.inode \in Int
      BY <3>2 DEF Line
    <3>4. Invalid(l)
      BY <3>2, <3>3, ImageAssumption DEF Invalid, InRange
    <3> QED  BY <3>4 DEF l
  <2>4. invalid # {} /\ ~FileEntriesRight
    BY <2>2, <2>3 DEF FileEntriesRight
  <2> HIDE DEF a, b, c, d, e, invalid
  <2> QED  BY <1>1, <1>2, <2>4
<1>6. CASE ~Broken
  <2>1. \A k \in DOMAIN file : ~Breaks(file[k])
    BY <1>6 DEF Broken, Breaks, Lines, ToSet
  <2>2. \A k \in DOMAIN file : \A j \in 1..k : j \in DOMAIN file
    BY FileItems, FileIsTyped
  <2>3. \A kind : Reached(kind) = Lines(kind)
    BY <2>1, <2>2 DEF Reached, Lines, ToSet
  <2>4. Miscounted = {n \in Audited : DirCount(n) # ListLinks(n)}
    BY <1>6 DEF Miscounted
  <2>5. invalid = {} /\ free = {} /\ wrong = {} /\ orphans = {} /\ Miscounted = {}
          <=> FileEntriesRight
    BY <2>3, <2>4 DEF FileEntriesRight
  <2> HIDE DEF a, b, c, d, e, invalid, free, wrong, orphans
  <2> QED  BY <1>1, <1>2, <1>3, <1>4, <2>5
<1> QED  BY <1>5, <1>6

\* What is right in the file about inodes is right in the image.
LEMMA InodesRightTells ==
  ASSUME Summarised, image.free_inodes \subseteq 1..NumInodes
  PROVE  FileInodesRight <=> InodesConsistent(image, Audited)
<1>1. Audited \subseteq 1..NumInodes
  BY ImageAssumption DEF Audited
<1>2. \A n \in Audited : (InodeAllocated(n) <=> InUse(image, n)) /\ (InodeFree(n) <=> n \in image.free_inodes)
  BY <1>1, InodeLinesExact DEF InodesInUse
<1> QED  BY <1>2 DEF FileInodesRight, InodesConsistent

\* A line about an entry, and its entry.
LEMMA EntryOfLine ==
  ASSUME Summarised, PlainDirectories(image)
  PROVE  /\ \A l \in Lines("DIRENT") : \E e \in AllEntries(image) :
              e.dir = l.dir /\ e.inode = l.inode /\ e.name = l.name
         /\ \A e \in AllEntries(image) : \E l \in Lines("DIRENT") :
              e.dir = l.dir /\ e.inode = l.inode /\ e.name = l.name
<1>1. PICK entry \in [EntryLines -> AllEntries(image)] : Enters(entry)
  BY LinesAreEntries
<1>2. /\ \A k \in EntryLines : /\ entry[k] \in AllEntries(image)
                               /\ entry[k].dir = file[k].dir
                               /\ entry[k].inode = file[k].inode
                               /\ entry[k].name = file[k].name
      /\ \A e \in AllEntries(image) : \E k \in EntryLines : entry[k] = e
  BY <1>1 DEF Enters
<1>3. \A l : l \in Lines("DIRENT") <=> \E k \in EntryLines : file[k] = l
  BY DEF Lines, ToSet, EntryLines
<1>4. ASSUME NEW l \in Lines("DIRENT")
      PROVE  \E e \in AllEntries(image) : e.dir = l.dir /\ e.inode = l.inode /\ e.name = l.name
  <2>1. PICK k \in EntryLines : file[k] = l
    BY <1>3
  <2> QED  BY <1>2, <2>1
<1>5. ASSUME NEW e \in AllEntries(image)
      PROVE  \E l \in Lines("DIRENT") : e.dir = l.dir /\ e.inode = l.inode /\ e.name = l.name
  <2>1. PICK k \in EntryLines : entry[k] = e
    BY <1>2
  <2>2. file[k] \in Lines("DIRENT")
    BY <1>3
  <2> QED  BY <1>2, <2>1, <2>2
<1> QED  BY <1>4, <1>5

\* An entry is of a directory.
LEMMA EntryOfDirectory ==
  ASSUME NEW img, NEW e \in AllEntries(img)
  PROVE  e.dir \in Directories(img)
<1>1. PICK n \in Directories(img) : \E k \in 1..NDir : e \in EntriesAt(img, n, k)
  BY DEF AllEntries
<1>2. PICK k \in 1..NDir : e \in EntriesAt(img, n, k)
  BY <1>1
<1>3. e.dir = n
  BY <1>2 DEF EntriesAt
<1> QED  BY <1>3

\* The parts of EntriesConsistent.
Parents(d) == IF d = 2 THEN {2} ELSE {e.dir : e \in Names(d)}

\* EntriesConsistent is six rules: four for an entry, two for an inode.
LEMMA EntriesParts ==
  ASSUME NEW counted
  PROVE  EntriesConsistent(image, counted) <=>
           /\ \A e \in AllEntries(image) :
                /\ InRange(e.inode)
                /\ e.name \notin Dots => e.inode \notin image.free_inodes
                /\ e.name = "." => e.inode = e.dir
                /\ e.name = ".." => e.inode \in Parents(e.dir)
           /\ \A n \in InodesInUse(image) : n # 2 => Names(n) # {}
           /\ \A n \in counted :
                image.inode[n].links = Cardinality({e \in AllEntries(image) : e.inode = n})
<1> DEFINE all == AllEntries(image)
           named == {e \in all : e.name \notin Dots}
           parents(d) == IF d = 2 THEN {2} ELSE {e.dir : e \in {f \in named : f.inode = d}}
<1>1. \A n : Names(n) = {f \in named : f.inode = n}
  BY DEF Names
<1>2. \A d : parents(d) = Parents(d)
  BY <1>1 DEF Parents
<1>3. EntriesConsistent(image, counted) <=>
        /\ \A e \in all : InRange(e.inode)
        /\ \A e \in named : e.inode \notin image.free_inodes
        /\ \A e \in all : e.name = "." => e.inode = e.dir
        /\ \A e \in all : e.name = ".." => e.inode \in parents(e.dir)
        /\ \A n \in 1..NumInodes : InUse(image, n) /\ n # 2 => \E e \in named : e.inode = n
        /\ \A n \in counted : image.inode[n].links = Cardinality({e \in all : e.inode = n})
  BY DEF EntriesConsistent
<1>4. (\A n \in 1..NumInodes : InUse(image, n) /\ n # 2 => \E e \in named : e.inode = n)
        <=> \A n \in InodesInUse(image) : n # 2 => Names(n) # {}
  BY <1>1 DEF InodesInUse
<1>5. (\A e \in named : e.inode \notin image.free_inodes)
        <=> \A e \in all : e.name \notin Dots => e.inode \notin image.free_inodes
  OBVIOUS
<1> HIDE DEF all, named, parents
<1> QED  BY <1>2, <1>3, <1>4, <1>5 DEF all

\* If the lines about entries are right, so are the entries, but for the link
\* counts that are not audited.
LEMMA RightIsConsistent ==
  ASSUME Summarised, PlainDirectories(image), FileEntriesRight
  PROVE  EntriesConsistent(image, Directories(image) \cap Audited)
<1>1. \A e \in AllEntries(image) : \E l \in Lines("DIRENT") :
        e.dir = l.dir /\ e.inode = l.inode /\ e.name = l.name
  BY EntryOfLine
<1>2. \A n \in InodesInUse(image) : ParentDir(n) # 0
  BY InodeLinesExact DEF FileEntriesRight, InodeAllocated
<1>3. ASSUME NEW e \in AllEntries(image)
      PROVE  /\ InRange(e.inode)
             /\ e.name \notin Dots => e.inode \notin image.free_inodes
             /\ e.name = "." => e.inode = e.dir
             /\ e.name = ".." => e.inode \in Parents(e.dir)
  <2>1. PICK l \in Lines("DIRENT") : e.dir = l.dir /\ e.inode = l.inode /\ e.name = l.name
    BY <1>1
  <2>2. ~Invalid(l) /\ ~Unallocated(l) /\ ~WrongLink(l)
    BY DEF FileEntriesRight
  <2>3. InRange(l.inode)
    BY <2>2 DEF Invalid
  <2>4. l.name \notin Dots => l.inode \notin image.free_inodes
    BY <2>2, <2>3, InodeLinesExact DEF Unallocated
  <2>5. l.name = "." => l.inode = l.dir
    BY <2>2, <2>3 DEF WrongLink, InRange
  <2>6. l.name = ".." => l.inode = ParentDir(l.dir)
    BY <2>2, <2>3 DEF WrongLink, InRange
  <2>7. ParentDir(e.dir) \in Parents(e.dir)
    <3>1. CASE e.dir = 2
      BY <3>1 DEF ParentDir, Parents
    <3>2. CASE e.dir # 2
      <4>1. e.dir \in InodesInUse(image)
        BY EntryOfDirectory DEF Directories, InodesInUse
      <4>2. PICK f \in Names(e.dir) : f.dir = ParentDir(e.dir)
        BY <1>2, <3>2, <4>1, ParentExact
      <4> QED  BY <3>2, <4>2 DEF Parents
    <3> QED  BY <3>1, <3>2
  <2> QED  BY <2>1, <2>3, <2>4, <2>5, <2>6, <2>7
<1>4. \A n \in InodesInUse(image) : n # 2 => Names(n) # {}
  BY <1>2, ParentExact
<1>5. ASSUME NEW n \in Directories(image) \cap Audited
      PROVE  image.inode[n].links = Cardinality({e \in AllEntries(image) : e.inode = n})
  <2>1. DirCount(n) = ListLinks(n)
    BY DEF FileEntriesRight
  <2>2. IsDirectory(n) /\ ListLinks(n) = image.inode[n].links
    BY DirectoriesExact
  <2>3. DirCount(n) = Cardinality({e \in AllEntries(image) : e.inode = n})
    <3>1. \A l \in Lines("DIRENT") : InRange(l.inode)
      BY DEF FileEntriesRight, Invalid
    <3> QED  BY <2>2, <3>1, CountedExact, CountExact
  <2> QED  BY <2>1, <2>2, <2>3
<1> QED  BY <1>3, <1>4, <1>5, EntriesParts

\* If the entries are right, and no directory has two names, nothing is said of
\* the lines.
LEMMA ConsistentIsRight ==
  ASSUME Summarised, PlainDirectories(image), TreeConsistent(image),
         EntriesConsistent(image, {n \in 1..NumInodes : InUse(image, n)})
  PROVE  FileEntriesRight
<1>1. /\ \A e \in AllEntries(image) :
           /\ InRange(e.inode)
           /\ e.name \notin Dots => e.inode \notin image.free_inodes
           /\ e.name = "." => e.inode = e.dir
           /\ e.name = ".." => e.inode \in Parents(e.dir)
      /\ \A n \in InodesInUse(image) : n # 2 => Names(n) # {}
      /\ \A n \in InodesInUse(image) :
           image.inode[n].links = Cardinality({e \in AllEntries(image) : e.inode = n})
  BY EntriesParts DEF InodesInUse
<1>2. ASSUME NEW d \in Directories(image), NEW n \in Parents(d) PROVE n = ParentDir(d)
  <2>1. CASE d = 2
    BY <1>2, <2>1 DEF Parents, ParentDir
  <2>2. CASE d # 2
    <3>1. PICK g \in Names(d) : n = g.dir
      BY <1>2, <2>2 DEF Parents
    <3>2. PICK h \in Names(d) : h.dir = ParentDir(d)
      BY <2>2, <3>1, ParentExact
    <3>3. Cardinality(Names(d)) = 1
      <4>1. Names(d) = {e \in {f \in AllEntries(image) : f.name \notin Dots} : e.inode = d}
        BY DEF Names
      <4> QED  BY <2>2, <4>1 DEF TreeConsistent
    <3>4. IsFiniteSet(Names(d))
      <4>1. IsFiniteSet({e \in AllEntries(image) : e.inode = d})
        BY CountExact
      <4>2. Names(d) \subseteq {e \in AllEntries(image) : e.inode = d}
        BY DEF Names
      <4> QED  BY <4>1, <4>2, FS_Subset
    <3>5. PICK x : Names(d) = {x}
      BY <3>3, <3>4, FS_Singleton
    <3> QED  BY <3>1, <3>2, <3>5
  <2> QED  BY <2>1, <2>2
<1>3. ASSUME NEW l \in Lines("DIRENT") PROVE ~Invalid(l) /\ ~Unallocated(l) /\ ~WrongLink(l)
  <2>1. PICK e \in AllEntries(image) : e.dir = l.dir /\ e.inode = l.inode /\ e.name = l.name
    BY EntryOfLine
  <2>2. e.dir \in Directories(image)
    BY EntryOfDirectory
  <2>3. InRange(l.inode)
    BY <1>1, <2>1
  <2>4. l.name \notin Dots => l.inode \notin image.free_inodes
    BY <1>1, <2>1
  <2>5. l.name = "." => l.inode = l.dir
    BY <1>1, <2>1
  <2>6. l.name = ".." => l.inode = ParentDir(l.dir)
    BY <1>1, <1>2, <2>1, <2>2
  <2>7. ~Unallocated(l)
    BY <2>4, InodeLinesExact DEF Unallocated
  <2> QED  BY <2>3, <2>5, <2>6, <2>7 DEF Invalid, WrongLink
<1>4. ASSUME NEW n \in InodesInUse(image) PROVE ParentDir(n) # 0
  <2>1. CASE n = 2
    BY <2>1 DEF ParentDir
  <2>2. CASE n # 2
    BY <1>1, <2>2, ParentExact
  <2> QED  BY <2>1, <2>2
<1>5. ASSUME NEW n \in Audited PROVE DirCount(n) = ListLinks(n)
  <2>1. CASE n \in Directories(image)
    <3>1. IsDirectory(n) /\ ListLinks(n) = image.inode[n].links
      BY <2>1, DirectoriesExact
    <3>2. DirCount(n) = Cardinality({e \in AllEntries(image) : e.inode = n})
      <4>1. \A l \in Lines("DIRENT") : InRange(l.inode)
        BY <1>3 DEF Invalid
      <4> QED  BY <3>1, <4>1, CountedExact, CountExact
    <3>3. n \in InodesInUse(image)
      BY <2>1 DEF Directories, InodesInUse
    <3> QED  BY <1>1, <3>1, <3>2, <3>3
  <2>2. CASE n \notin Directories(image)
    BY <2>2, DirectoriesExact DEF DirCount, ListLinks
  <2> QED  BY <2>1, <2>2
<1>6. \A l \in Lines("INODE") : ParentDir(l.inode) # 0
  BY <1>4, InodeLinesExact
<1> QED  BY <1>3, <1>5, <1>6 DEF FileEntriesRight

-----------------------------------------------------------------------------
(* Silence.                                                                  *)

\* Something is printed exactly if something is wrong in what has been audited.
SilenceTells ==
  /\ pc = "lab3a" => printed = {}
  /\ pc \in {"blocks", "inodes"} => (printed = {} <=> exit2_flag = 0)
  /\ pc = "directories" /\ status = "running" =>
       (printed = {} <=> exit2_flag = 0 /\ FileInodesRight)
  /\ pc \in {"exit", "done"} =>
       (printed = {} <=> exit2_flag = 0 /\ FileInodesRight /\ FileEntriesRight)

SilenceInv == ExitInv /\ SilenceTells

\* Every step keeps what silence tells: an audit that prints finds a fault.
LEMMA SilenceStep == SilenceInv /\ [Next]_vars => SilenceInv'
<1> SUFFICES ASSUME SilenceInv, [Next]_vars PROVE SilenceTells'
  BY ExitStep DEF SilenceInv
<1>1. exit2_flag \in {0, 1} /\ pc \in {"lab3a", "blocks", "inodes", "directories", "exit", "done"}
  BY DEF SilenceInv, ExitInv, EndInv, TypeInv
<1>2. ASSUME UNCHANGED file
      PROVE  (FileInodesRight' <=> FileInodesRight) /\ (FileEntriesRight' <=> FileEntriesRight)
  BY <1>2 DEF FileInodesRight, FileEntriesRight, Lines, InodeFree, InodeAllocated, IsDirectory,
              Naming, LastOf, ParentDir, DirCount, Cell, ListLinks, Invalid, Unallocated, WrongLink,
              Audited, ReservedInodes, InRange, Dots
<1>3. CASE Summarise
  <2>1. pc = "lab3a" /\ pc' = "blocks" /\ UNCHANGED <<printed, exit2_flag>>
    BY <1>3 DEF Summarise
  <2>2. printed = {} /\ exit2_flag = 0
    BY <2>1 DEF SilenceInv, SilenceTells, ExitInv, EndInv
  <2> QED  BY <2>1, <2>2 DEF SilenceTells
<1>4. CASE CheckSummary
  <2>1. pc = "blocks" /\ pc' \in {"blocks", "inodes"}
    BY <1>4 DEF CheckSummary, FreeLine, InodeBlock, InodeNoBlock, InodeLineDone, IndirectLine,
                OtherLine, Unreferenced, AtLine, NextLine
  <2>2. UNCHANGED <<printed, exit2_flag>> \/ \E messages : PrintFatal(messages)
    BY <1>4 DEF CheckSummary, FreeLine, InodeBlock, InodeNoBlock, InodeLineDone, IndirectLine,
                OtherLine, Unreferenced
  <2>3. printed = {} <=> exit2_flag = 0
    BY <2>1 DEF SilenceInv, SilenceTells
  <2>4. printed' = {} <=> exit2_flag' = 0
    BY <1>1, <2>2, <2>3 DEF PrintFatal
  <2> QED  BY <2>1, <2>4 DEF SilenceTells
<1>5. CASE InodeAudit
  <2>1. pc = "inodes" /\ pc' = "directories" /\ UNCHANGED <<file, exit2_flag>>
    BY <1>5 DEF InodeAudit
  <2>2. printed = {} <=> exit2_flag = 0
    BY <2>1 DEF SilenceInv, SilenceTells
  <2>3. status' = "running" => (printed' = {} <=> exit2_flag' = 0 /\ FileInodesRight')
    BY <1>2, <1>5, <2>1, <2>2, InodesTell
  <2> QED  BY <2>1, <2>3 DEF SilenceTells
<1>6. CASE DirectoryAudit /\ status = "running"
  <2>1. pc = "directories" /\ pc' = "exit" /\ UNCHANGED <<file, exit2_flag>>
    BY <1>6 DEF DirectoryAudit
  <2>2. printed = {} <=> exit2_flag = 0 /\ FileInodesRight
    BY <1>6, <2>1 DEF SilenceInv, SilenceTells
  <2>3. printed' = {} <=> exit2_flag' = 0 /\ FileInodesRight' /\ FileEntriesRight'
    <3>1. Summarised
      BY <2>1, SummaryAssumption DEF SilenceInv, ExitInv, TypeInv, Summarised
    <3> QED  BY <1>2, <1>6, <2>1, <2>2, <3>1, EntriesTell
  <2> QED  BY <2>1, <2>3 DEF SilenceTells
<1>7. CASE Exit
  <2>1. pc = "exit" /\ pc' = "done" /\ UNCHANGED <<file, exit2_flag, printed>>
    BY <1>7 DEF Exit
  <2>2. printed = {} <=> exit2_flag = 0 /\ FileInodesRight /\ FileEntriesRight
    BY <2>1 DEF SilenceInv, SilenceTells
  <2> QED  BY <1>2, <2>1, <2>2 DEF SilenceTells
<1>8. CASE UNCHANGED vars
  <2>1. UNCHANGED <<file, pc, status, printed, exit2_flag>>
    BY <1>8 DEF vars
  <2> QED  BY <1>2, <2>1 DEF SilenceInv, SilenceTells
<1> QED  BY <1>3, <1>4, <1>5, <1>6, <1>7, <1>8 DEF Next, Step, Terminated

\* At the end of an audit.
LEMMA AuditTells ==
  ASSUME SilenceInv, status \in {"exit0", "exit2"}
  PROVE  /\ Summarised /\ image.free_inodes \subseteq 1..NumInodes
         /\ printed = {} <=> BlocksConsistent(image) /\ FileInodesRight /\ FileEntriesRight
<1>1. pc = "done" /\ image.free_inodes \subseteq 1..NumInodes /\ Summarised
  BY EndedIsSummarised DEF SilenceInv, ExitInv, EndInv
<1>2. printed = {} <=> exit2_flag = 0 /\ FileInodesRight /\ FileEntriesRight
  BY <1>1 DEF SilenceInv, SilenceTells
<1>3. exit2_flag = 0 <=> BlocksConsistent(image)
  BY <1>1, FileTellsBlocks DEF SilenceInv, ExitInv, FlagTells
<1> QED  BY <1>1, <1>2, <1>3

\* Before the first step nothing is printed.
LEMMA SilenceInit == Init => SilenceInv
BY DEF Init, SilenceInv, ExitInv, TypeInv, KnowsPassed, EndInv, FlagTells, SilenceTells

\* Of a consistent image whose directories are proper ones nothing is said, in
\* whatever order its lines come (Lab3B/README:6).
THEOREM ConsistentNotBlamed ==
  (\A img \in Images : PlainDirectories(img)) => (Spec => []ConsistentIsSilent)
<1> SUFFICES ASSUME \A img \in Images : PlainDirectories(img)
             PROVE  Spec => []ConsistentIsSilent
  OBVIOUS
<1>1. SilenceInv => ConsistentIsSilent
  <2> SUFFICES ASSUME SilenceInv, status # "running", Consistent(image) PROVE printed = {}
    BY DEF ConsistentIsSilent
  <2>1. /\ PlainDirectories(image)
        /\ status \in {"traceback", "exit0", "exit2"}
        /\ status = "traceback" =>
             ~ (image.free_inodes \subseteq 1..NumInodes) \/ EntryBreaks(image)
    BY DEF SilenceInv, ExitInv, EndInv, TypeInv
  <2>2. /\ BlocksConsistent(image)
        /\ InodesConsistent(image, 1..NumInodes)
        /\ EntriesConsistent(image, {n \in 1..NumInodes : InUse(image, n)})
        /\ TreeConsistent(image)
    BY DEF Consistent
  <2>2a. ~EntryBreaks(image)
    <3> SUFFICES ASSUME EntryBreaks(image) PROVE FALSE
      OBVIOUS
    <3>1. Summarised
      BY EndedIsSummarised DEF SilenceInv, ExitInv
    <3>2. PICK l \in Lines("DIRENT") : l.inode < -(NumInodes + 1)
      BY <3>1, BrokenExact DEF Broken, Breaks
    <3>3. PICK e \in AllEntries(image) : e.inode = l.inode
      BY <2>1, <3>1, EntryOfLine
    <3>4. InRange(l.inode)
      BY <2>2, <3>3 DEF EntriesConsistent
    <3>5. l.inode \in Int
      <4>1. l \in Line /\ l.kind = "DIRENT"
        BY <3>1, FileItems, FileIsTyped DEF Lines, ToSet
      <4> QED  BY <4>1 DEF Line
    <3> QED  BY <3>2, <3>4, <3>5, ImageAssumption DEF InRange
  <2>3. status \in {"exit0", "exit2"}
    BY <2>1, <2>2, <2>2a DEF InodesConsistent
  <2>4. /\ Summarised /\ image.free_inodes \subseteq 1..NumInodes
        /\ printed = {} <=> BlocksConsistent(image) /\ FileInodesRight /\ FileEntriesRight
    BY <2>3, AuditTells
  <2>5. InodesConsistent(image, Audited)
    BY <2>2, ImageAssumption DEF InodesConsistent, Audited
  <2>6. FileInodesRight
    BY <2>4, <2>5, InodesRightTells
  <2>7. FileEntriesRight
    BY <2>1, <2>2, <2>4, ConsistentIsRight
  <2> QED  BY <2>2, <2>4, <2>6, <2>7
<1> QED  BY <1>1, SilenceInit, SilenceStep, PTL DEF Spec

\* An image with proper directories about which nothing is printed keeps every
\* rule that an audit stands for (lab3b.py:14-199).
THEOREM SilentNotInconsistent ==
  (\A img \in Images : PlainDirectories(img)) => (Spec => []SilentIsConsistent)
<1> SUFFICES ASSUME \A img \in Images : PlainDirectories(img)
             PROVE  Spec => []SilentIsConsistent
  OBVIOUS
<1>1. SilenceInv => SilentIsConsistent
  <2> SUFFICES ASSUME SilenceInv, status \in {"exit0", "exit2"}, printed = {}
               PROVE  /\ BlocksConsistent(image)
                      /\ InodesConsistent(image, Audited)
                      /\ EntriesConsistent(image, Directories(image) \cap Audited)
    BY DEF SilentIsConsistent
  <2>1. PlainDirectories(image)
    BY DEF SilenceInv, ExitInv, TypeInv
  <2>2. /\ Summarised /\ image.free_inodes \subseteq 1..NumInodes
        /\ BlocksConsistent(image) /\ FileInodesRight /\ FileEntriesRight
    BY AuditTells
  <2> QED  BY <2>1, <2>2, InodesRightTells, RightIsConsistent
<1> QED  BY <1>1, SilenceInit, SilenceStep, PTL DEF Spec
=============================================================================

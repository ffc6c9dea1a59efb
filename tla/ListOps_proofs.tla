--------------------------- MODULE ListOps_proofs ---------------------------
(* lab2_list, for every number of threads, iterations and lists: type        *)
(* correctness, mutual exclusion and the absence of wild pointers; with a    *)
(* --sync option also that the lists stay sorted circles, that the program   *)
(* implements the indivisible operations of ListObject, and that no thread   *)
(* and no check of main fails.                                               *)
EXTENDS ListOps, FiniteSetTheorems, TLAPS

\* The loop indices address an element or a list wherever they are used, and
\* main has created exactly the threads below its index.
IndexInv ==
  /\ \A t \in Threads :
       /\ pc[t] \in InsertLabels \cup DeleteLabels => i[t] \in Elements
       /\ pc[t] \in LengthLabels => i[t] \in Lists
       /\ pc[t] \notin {"create", "join", "checkLoop"}
  /\ pc[Main] \in MainLabels
  /\ pc[Main] \in LengthLabels => i[Main] \in Lists
  /\ pc[Main] = "create" => \A t \in Threads : t >= i[Main] => pc[t] = "unborn"

\* The heads are linked, and so is an element from line 34 of SortedList.c on.
LinkInv ==
  /\ Heads \subseteq Linked
  /\ NoWildPointers
  /\ \A t \in Threads : pc[t] \in {"insertPrev", "insertCur"} => i[t] \in Linked

\* The inductive invariant behind the types, the pointers and the locks.
IInv == TypeOK /\ IndexInv /\ LinkInv /\ MutualExclusion

-----------------------------------------------------------------------------
(* Constants.                                                                *)

\* Main is no thread.
LEMMA AgentFacts == /\ Threads \subseteq Agents
                    /\ Main \in Agents
                    /\ Main \notin Threads
  BY OpsAssumption DEF Threads, Main

\* Heads are nodes of their own and NULL is no node.
LEMMA NodeFacts == /\ Heads \subseteq Nodes
                   /\ Elements \subseteq Nodes
                   /\ NULL \notin Nodes
                   /\ \A l \in Lists : ListHead(l) \in Heads
                   /\ Elements \cap Heads = {}
<1>1. Elements \cap Heads = {}
  BY ListAssumption, OpsAssumption DEF Elements, Heads, ListHead, Lists
<1> QED  BY <1>1, ListAssumption DEF Nodes, Heads

\* The list of an element is a list.
LEMMA ListOfType == ASSUME TypeOK, NEW e \in Elements
                    PROVE  ListOf(e) \in Lists
<1>1. FirstChar[key[e]] \in Nat
  BY OpsAssumption DEF TypeOK
<1>2. ListNum \in Nat \ {0}
  BY ListAssumption
<1> QED  BY <1>1, <1>2 DEF ListOf, Lists

-----------------------------------------------------------------------------
(* A step of a thread.                                                       *)

\* A thread moves its own program counter, walk and index only.
LEMMA ThreadFrame ==
  ASSUME TypeOK, NEW t \in Threads, ThreadStep(t), NEW a \in Agents \ {t}
  PROVE  pc'[a] = pc[a] /\ cur'[a] = cur[a] /\ i'[a] = i[a]
<1> USE DEF TypeOK, GoTo, SetCur, SetIndex, StartWalk
<1>1. CASE OwnStep(t)
  BY <1>1 DEF OwnStep, BeginInsert, EndInsert, InsertsDone, BeginLength,
       EndLength, LengthsDone, AcquireGlobal, AddLength, BeginDelete, EndDelete,
       DeletesDone
<1>2. CASE InsertStep(t, ListOf(i[t]), i[t]) /\ i' = i
  BY <1>2 DEF InsertStep, InsertEntry, InsertPast, InsertLinkElement,
       InsertLinkPrev, InsertLinkCur
<1>3. CASE LookupStep(t, ListOf(i[t]), i[t]) /\ i' = i
  BY <1>3 DEF LookupStep, LookupEntry, LookupNext, LookupHit, LookupMiss
<1>4. CASE DeleteStep(t) /\ i' = i
  BY <1>4 DEF DeleteStep, DeleteCheck, DeleteUnlinkNext, DeleteUnlinkPrev
<1>5. CASE LengthStep(t, i[t]) /\ i' = i
  BY <1>5 DEF LengthStep, LengthEntry, LengthNext, LengthReturn
<1>6. CASE Fail(t)
  BY <1>6 DEF Fail, listVars
<1> QED  BY <1>1, <1>2, <1>3, <1>4, <1>5, <1>6 DEF ThreadStep, CallStep

\* What LinkInv asks of an agent a.
Safe(a) == /\ pc[a] \in WalkLabels => cur[a] \in Linked
           /\ a \in Threads /\ pc[a] \in {"insertPrev", "insertCur"} => i[a] \in Linked

\* If only agent a moves, no link is lost and links still lead to linked nodes,
\* it is enough to look at a.
LEMMA LinkFrame ==
  ASSUME LinkInv, NEW a \in Agents,
         \A b \in Agents \ {a} : pc'[b] = pc[b] /\ cur'[b] = cur[b] /\ i'[b] = i[b],
         Linked \subseteq Linked',
         \A n \in Linked' : next'[n] \in Linked' /\ prev'[n] \in Linked',
         Safe(a)'
  PROVE  LinkInv'
<1>1. Heads' = Heads /\ Agents' = Agents /\ Threads' = Threads /\ Nodes' = Nodes
  BY DEF Heads, Threads, Nodes, ListHead, Lists, Elements
<1>2. \A b \in Agents : Safe(b)'
  BY AgentFacts DEF LinkInv, NoWildPointers, Safe
<1> QED  BY <1>1, <1>2, AgentFacts DEF LinkInv, NoWildPointers, Safe

\* The same when no link changes at all.
LEMMA LinksUnchanged ==
  ASSUME LinkInv, NEW a \in Agents, UNCHANGED links,
         \A b \in Agents \ {a} : pc'[b] = pc[b] /\ cur'[b] = cur[b] /\ i'[b] = i[b],
         pc'[a] \in WalkLabels => cur'[a] \in Linked,
         a \in Threads /\ pc'[a] \in {"insertPrev", "insertCur"} => i'[a] \in Linked
  PROVE  LinkInv'
<1>1. Linked' = Linked /\ next' = next /\ prev' = prev
  BY DEF links, Linked, Nodes, Heads, ListHead, Lists, Elements
<1>2. Safe(a)'
  BY <1>1 DEF Safe, Threads
<1> QED  BY <1>1, <1>2, LinkFrame DEF LinkInv, NoWildPointers

\* Writing a linked node into a link of a linked node changes no linkedness.
LEMMA WriteNext ==
  ASSUME TypeOK, LinkInv, NEW m \in Linked, NEW n \in Linked,
         next' = [next EXCEPT ![m] = n], prev' = prev
  PROVE  /\ Linked' = Linked
         /\ \A k \in Linked' : next'[k] \in Linked' /\ prev'[k] \in Linked'
<1>1. Linked' = Linked
  BY NodeFacts DEF Linked, TypeOK, Nodes, Heads, ListHead, Lists, Elements
<1> QED  BY <1>1 DEF LinkInv, NoWildPointers, TypeOK, Linked

\* The same for the other link.
LEMMA WritePrev ==
  ASSUME TypeOK, LinkInv, NEW m \in Linked, NEW n \in Linked,
         prev' = [prev EXCEPT ![m] = n], next' = next
  PROVE  /\ Linked' = Linked
         /\ \A k \in Linked' : next'[k] \in Linked' /\ prev'[k] \in Linked'
<1>1. Linked' = Linked
  BY NodeFacts DEF Linked, TypeOK, Nodes, Heads, ListHead, Lists, Elements
<1> QED  BY <1>1 DEF LinkInv, NoWildPointers, TypeOK, Linked

\* The first node of a list is linked.
LEMMA FirstIsLinked ==
  ASSUME LinkInv, NEW l \in Lists
  PROVE  next[ListHead(l)] \in Linked
  BY NodeFacts DEF LinkInv, NoWildPointers

\* Insertion writes the links of its element before anything leads to it.
LEMMA InsertKeepsLinks ==
  ASSUME TypeOK, IndexInv, LinkInv, NEW t \in Threads, ThreadStep(t),
         InsertStep(t, ListOf(i[t]), i[t]), i' = i
  PROVE  LinkInv'
<1> DEFINE e == i[t]
           l == ListOf(i[t])
<1> t \in Agents
  BY AgentFacts
<1>1. \A b \in Agents \ {t} : pc'[b] = pc[b] /\ cur'[b] = cur[b] /\ i'[b] = i[b]
  BY ThreadFrame
<1>2. pc[t] \in InsertLabels
  BY DEF InsertStep, InsertEntry, InsertPast, InsertLinkElement, InsertLinkPrev,
         InsertLinkCur, StartWalk, InsertLabels
<1>3. e \in Elements /\ l \in Lists
  BY <1>2, ListOfType DEF IndexInv
<1>4. CASE InsertEntry(t, l)
  <2>1. cur'[t] \in Linked /\ pc'[t] = "insertScan" /\ UNCHANGED links
    BY <1>3, <1>4, FirstIsLinked DEF InsertEntry, StartWalk, SetCur, GoTo, TypeOK
  <2> QED  BY <1>1, <2>1, LinksUnchanged
<1>5. CASE InsertPast(t, l, e)
  <2>1. cur[t] \in Linked
    BY <1>5 DEF InsertPast, LinkInv, NoWildPointers, WalkLabels
  <2>2. cur'[t] \in Linked /\ pc'[t] = "insertScan" /\ UNCHANGED links
    BY <1>5, <2>1 DEF InsertPast, SetCur, TypeOK, LinkInv, NoWildPointers
  <2> QED  BY <1>1, <2>2, LinksUnchanged
<1>6. CASE InsertLinkElement(t, l, e)
  <2>1. cur[t] \in Linked /\ cur'[t] = cur[t] /\ i'[t] = e /\ pc'[t] = "insertPrev"
    BY <1>6 DEF InsertLinkElement, LinkInv, NoWildPointers, WalkLabels, GoTo, TypeOK
  <2>2. prev[cur[t]] \in Linked
    BY <2>1 DEF LinkInv, NoWildPointers
  <2>3. Linked' = Linked \cup {e}
    BY <1>3, <1>6, <2>1, <2>2, NodeFacts
    DEF InsertLinkElement, Linked, TypeOK, Nodes, Heads, ListHead, Lists, Elements
  <2>4. \A n \in Linked' : next'[n] \in Linked' /\ prev'[n] \in Linked'
    BY <1>6, <2>1, <2>2, <2>3 DEF InsertLinkElement, TypeOK, LinkInv, NoWildPointers,
                                  Linked
  <2>5. Safe(t)'
    BY <2>1, <2>3 DEF Safe
  <2> QED  BY <1>1, <2>3, <2>4, <2>5, LinkFrame
<1>7. CASE InsertLinkPrev(t, e)
  <2>1. /\ cur[t] \in Linked /\ e \in Linked
        /\ cur'[t] = cur[t] /\ i'[t] = e /\ pc'[t] = "insertCur"
    BY <1>7 DEF InsertLinkPrev, LinkInv, NoWildPointers, WalkLabels, GoTo, TypeOK
  <2>2. prev[cur[t]] \in Linked
    BY <2>1 DEF LinkInv, NoWildPointers
  <2>3. /\ Linked' = Linked
        /\ \A k \in Linked' : next'[k] \in Linked' /\ prev'[k] \in Linked'
    BY <1>7, <2>1, <2>2, WriteNext DEF InsertLinkPrev
  <2>4. Safe(t)'
    BY <2>1, <2>3 DEF Safe
  <2> QED  BY <1>1, <2>3, <2>4, LinkFrame
<1>8. CASE InsertLinkCur(t, e)
  <2>1. cur[t] \in Linked /\ e \in Linked /\ pc'[t] = "inserted"
    BY <1>8 DEF InsertLinkCur, LinkInv, NoWildPointers, WalkLabels, GoTo, TypeOK
  <2>2. /\ Linked' = Linked
        /\ \A k \in Linked' : next'[k] \in Linked' /\ prev'[k] \in Linked'
    BY <1>8, <2>1, WritePrev DEF InsertLinkCur
  <2>3. Safe(t)'
    BY <2>1 DEF Safe, WalkLabels
  <2> QED  BY <1>1, <2>2, <2>3, LinkFrame
<1> QED  BY <1>4, <1>5, <1>6, <1>7, <1>8 DEF InsertStep

\* Deletion writes linked nodes into linked nodes.
LEMMA DeleteKeepsLinks ==
  ASSUME TypeOK, LinkInv, NEW t \in Threads, ThreadStep(t), DeleteStep(t), i' = i
  PROVE  LinkInv'
<1> t \in Agents
  BY AgentFacts
<1>1. \A b \in Agents \ {t} : pc'[b] = pc[b] /\ cur'[b] = cur[b] /\ i'[b] = i[b]
  BY ThreadFrame
<1>2. cur[t] \in Linked
  BY DEF DeleteStep, DeleteCheck, DeleteUnlinkNext, DeleteUnlinkPrev, LinkInv,
         NoWildPointers, WalkLabels
<1>3. next[cur[t]] \in Linked /\ prev[cur[t]] \in Linked
  BY <1>2 DEF LinkInv, NoWildPointers
<1>4. CASE DeleteCheck(t)
  <2>1. /\ cur'[t] = cur[t] /\ pc'[t] \notin {"insertPrev", "insertCur"}
        /\ UNCHANGED links
    BY <1>4 DEF DeleteCheck, GoTo, TypeOK
  <2> QED  BY <1>1, <1>2, <2>1, LinksUnchanged
<1>5. CASE DeleteUnlinkNext(t)
  <2>1. /\ Linked' = Linked
        /\ \A k \in Linked' : next'[k] \in Linked' /\ prev'[k] \in Linked'
    BY <1>3, <1>5, WriteNext DEF DeleteUnlinkNext
  <2>2. Safe(t)'
    BY <1>2, <1>5, <2>1 DEF Safe, DeleteUnlinkNext, GoTo, TypeOK
  <2> QED  BY <1>1, <2>1, <2>2, LinkFrame
<1>6. CASE DeleteUnlinkPrev(t)
  <2>1. /\ Linked' = Linked
        /\ \A k \in Linked' : next'[k] \in Linked' /\ prev'[k] \in Linked'
    BY <1>3, <1>6, WritePrev DEF DeleteUnlinkPrev
  <2>2. Safe(t)'
    BY <1>6 DEF Safe, DeleteUnlinkPrev, GoTo, TypeOK, WalkLabels
  <2> QED  BY <1>1, <2>1, <2>2, LinkFrame
<1> QED  BY <1>4, <1>5, <1>6 DEF DeleteStep

\* Lookup and length only follow links, whoever calls them.
LEMMA WalkKeepsLinks ==
  ASSUME TypeOK, LinkInv, NEW a \in Agents, NEW l \in Lists, NEW e,
         \/ LookupStep(a, l, e)
         \/ LengthStep(a, l),
         \A b \in Agents \ {a} : pc'[b] = pc[b] /\ cur'[b] = cur[b] /\ i'[b] = i[b]
  PROVE  LinkInv'
<1>1. UNCHANGED links /\ pc'[a] \notin {"insertPrev", "insertCur"}
  BY DEF LookupStep, LookupEntry, LookupNext, LookupHit, LookupMiss, LengthStep,
         LengthEntry, LengthNext, LengthReturn, StartWalk, GoTo, TypeOK
<1>2. pc[a] \in WalkLabels => cur[a] \in Linked /\ next[cur[a]] \in Linked
  BY DEF LinkInv, NoWildPointers
<1>3. pc'[a] \in WalkLabels => cur'[a] \in Linked
  <2>1. CASE LookupEntry(a, l) \/ LengthEntry(a, l)
    BY <2>1, FirstIsLinked DEF LookupEntry, LengthEntry, StartWalk, SetCur, TypeOK
  <2>2. CASE LookupNext(a, l, e) \/ LengthNext(a, l)
    BY <1>2, <2>2 DEF LookupNext, LengthNext, SetCur, TypeOK, WalkLabels
  <2>3. CASE LookupHit(a, l, e) \/ LookupMiss(a, l)
    BY <1>2, <2>3 DEF LookupHit, LookupMiss, WalkLabels
  <2>4. CASE LengthReturn(a, l)
    BY <2>4 DEF LengthReturn, GoTo, TypeOK, WalkLabels
  <2> QED  BY <2>1, <2>2, <2>3, <2>4 DEF LookupStep, LengthStep
<1> QED  BY <1>1, <1>3, LinksUnchanged

\* The steps of list_ops() itself touch no link and enter no walk.
LEMMA OwnStepKeepsLinks ==
  ASSUME TypeOK, LinkInv, NEW t \in Threads, ThreadStep(t), OwnStep(t) \/ Fail(t)
  PROVE  LinkInv'
<1> t \in Agents
  BY AgentFacts
<1>1. \A b \in Agents \ {t} : pc'[b] = pc[b] /\ cur'[b] = cur[b] /\ i'[b] = i[b]
  BY ThreadFrame
<1>2. UNCHANGED links /\ pc'[t] \notin WalkLabels
  BY DEF OwnStep, BeginInsert, EndInsert, InsertsDone, BeginLength,
       EndLength, LengthsDone, AcquireGlobal, AddLength, BeginDelete, EndDelete,
       DeletesDone, GoTo, TypeOK, WalkLabels, Fail, listVars, links
<1> QED  BY <1>1, <1>2, LinksUnchanged DEF WalkLabels

\* No thread ever loses the links.
LEMMA ThreadKeepsLinks ==
  ASSUME TypeOK, IndexInv, LinkInv, NEW t \in Threads, ThreadStep(t)
  PROVE  LinkInv'
<1> t \in Agents
  BY AgentFacts
<1>1. \A b \in Agents \ {t} : pc'[b] = pc[b] /\ cur'[b] = cur[b] /\ i'[b] = i[b]
  BY ThreadFrame
<1>2. CASE LookupStep(t, ListOf(i[t]), i[t])
  <2>1. pc[t] \in DeleteLabels
    BY <1>2 DEF LookupStep, LookupEntry, LookupNext, LookupHit, LookupMiss,
                StartWalk, DeleteLabels
  <2>2. ListOf(i[t]) \in Lists
    BY <2>1, ListOfType DEF IndexInv
  <2> QED  BY <1>1, <1>2, <2>2, WalkKeepsLinks
<1>3. CASE LengthStep(t, i[t])
  <2>1. pc[t] \in LengthLabels
    BY <1>3 DEF LengthStep, LengthEntry, LengthNext, LengthReturn, StartWalk,
                LengthLabels
  <2>2. i[t] \in Lists
    BY <2>1 DEF IndexInv
  <2> QED  BY <1>1, <1>3, <2>2, WalkKeepsLinks
<1> QED  BY <1>2, <1>3, InsertKeepsLinks, DeleteKeepsLinks, OwnStepKeepsLinks
         DEF ThreadStep, CallStep

\* Every variable keeps its type in a step of a thread.
LEMMA ThreadKeepsTypes ==
  ASSUME TypeOK, IndexInv, LinkInv, NEW t \in Threads, ThreadStep(t)
  PROVE  TypeOK'
<1> USE DEF GoTo, SetCur, SetIndex, StartWalk, links
<1> t \in Agents
  BY AgentFacts
<1>1. /\ ThreadNum \in Nat /\ MaxCount \in Nat
      /\ Heads' = Heads /\ Nodes' = Nodes /\ Threads' = Threads /\ Lists' = Lists
      /\ Labels' = Labels /\ MaxCount' = MaxCount /\ Elements' = Elements
  BY OpsAssumption, ListAssumption
  DEF MaxCount, Heads, Nodes, Threads, Lists, Elements, ListHead, Labels,
      InsertLabels, LengthLabels, DeleteLabels, LoopLabels, MainLabels
<1>2. pc'[t] \in Labels /\ pc' = [pc EXCEPT ![t] = pc'[t]]
  <2> USE DEF TypeOK, Labels, InsertLabels, LengthLabels, DeleteLabels, LoopLabels
  <2>1. CASE OwnStep(t) \/ Fail(t)
    BY <2>1 DEF OwnStep, BeginInsert, EndInsert, InsertsDone, BeginLength,
       EndLength, LengthsDone, AcquireGlobal, AddLength, BeginDelete, EndDelete,
       DeletesDone, Fail, listVars
  <2>2. CASE InsertStep(t, ListOf(i[t]), i[t]) \/ LookupStep(t, ListOf(i[t]), i[t])
    BY <2>2 DEF InsertStep, InsertEntry, InsertPast, InsertLinkElement,
       InsertLinkPrev, InsertLinkCur, LookupStep, LookupEntry, LookupNext,
       LookupHit, LookupMiss
  <2>3. CASE DeleteStep(t) \/ LengthStep(t, i[t])
    BY <2>3 DEF DeleteStep, DeleteCheck, DeleteUnlinkNext, DeleteUnlinkPrev,
       LengthStep, LengthEntry, LengthNext, LengthReturn
  <2> QED  BY <2>1, <2>2, <2>3 DEF ThreadStep, CallStep
<1>3. pc' \in [Agents -> Labels]
  BY <1>2 DEF TypeOK
<1>4. CASE OwnStep(t) \/ Fail(t)
  <2>1. /\ UNCHANGED <<next, prev, key, cur>>
        /\ cnt' \in [Agents -> 0..MaxCount]
    BY <1>1, <1>4 DEF OwnStep, BeginInsert, EndInsert, InsertsDone, BeginLength,
       EndLength, LengthsDone, AcquireGlobal, AddLength, BeginDelete, EndDelete,
       DeletesDone, Fail, listVars, TypeOK
  <2>4. i' \in [Agents -> Nat]
    BY <1>1, <1>4 DEF OwnStep, BeginInsert, EndInsert, InsertsDone, BeginLength,
       EndLength, LengthsDone, AcquireGlobal, AddLength, BeginDelete, EndDelete,
       DeletesDone, Fail, listVars, TypeOK, Threads
  <2>5. list_len' \in [Threads -> Nat]
    <3>1. cnt[t] \in Nat /\ list_len[t] \in Nat
      BY <1>1 DEF TypeOK
    <3> QED  BY <1>4, <3>1 DEF OwnStep, BeginInsert, EndInsert, InsertsDone, BeginLength,
       EndLength, LengthsDone, AcquireGlobal, AddLength, BeginDelete, EndDelete,
       DeletesDone, Fail, listVars, TypeOK
  <2>2. lock' \in [Lists -> {0, 1}] /\ global' \in {0, 1}
    BY <1>4 DEF OwnStep, BeginInsert, EndInsert, InsertsDone, BeginLength,
       EndLength, LengthsDone, AcquireGlobal, AddLength, BeginDelete, EndDelete,
       DeletesDone, Fail, TypeOK, Acquire, Release
  <2>3. status' \in {"running", "exit0", "exit1", "exit2"}
    BY <1>4 DEF ThreadStep, Fail, TypeOK
  <2> QED  BY <1>1, <1>3, <2>1, <2>2, <2>3, <2>4, <2>5 DEF TypeOK
<1>5. CASE CallStep(t) /\ status' = status
  <2>1. lock' = lock /\ global' = global /\ i' = i /\ list_len' = list_len
    BY <1>5 DEF CallStep
  <2>2. key' = key /\ cnt' \in [Agents -> 0..MaxCount]
    BY <1>1, <1>5 DEF CallStep, InsertStep, InsertEntry, InsertPast,
       InsertLinkElement, InsertLinkPrev, InsertLinkCur, LookupStep, LookupEntry,
       LookupNext, LookupHit, LookupMiss, DeleteStep, DeleteCheck,
       DeleteUnlinkNext, DeleteUnlinkPrev, LengthStep, LengthEntry, LengthNext,
       LengthReturn, TypeOK
  <2>3. pc[t] \in WalkLabels => /\ cur[t] \in Nodes
                                /\ next[cur[t]] \in Nodes
                                /\ prev[cur[t]] \in Nodes
    BY DEF LinkInv, NoWildPointers, Linked
  <2>4. \A l \in Lists : next[ListHead(l)] \in Nodes
    BY FirstIsLinked DEF Linked
  <2>5. cur' \in [Agents -> Nodes \cup {NULL}]
    <3>1. CASE InsertEntry(t, ListOf(i[t])) \/ LookupEntry(t, ListOf(i[t]))
      <4>1. pc[t] \in InsertLabels \cup DeleteLabels
        BY <3>1 DEF InsertEntry, LookupEntry, InsertLabels, DeleteLabels
      <4>2. ListOf(i[t]) \in Lists
        BY <4>1, ListOfType DEF IndexInv
      <4> QED  BY <2>4, <3>1, <4>2 DEF InsertEntry, LookupEntry, TypeOK
    <3>2. CASE LengthEntry(t, i[t])
      <4>1. i[t] \in Lists
        BY <3>2 DEF LengthEntry, LengthLabels, IndexInv
      <4> QED  BY <2>4, <3>2, <4>1 DEF LengthEntry, TypeOK
    <3>3. CASE \/ InsertPast(t, ListOf(i[t]), i[t])
               \/ LookupNext(t, ListOf(i[t]), i[t])
               \/ LengthNext(t, i[t])
      BY <2>3, <3>3 DEF InsertPast, LookupNext, LengthNext, TypeOK, WalkLabels
    <3>4. CASE \/ InsertLinkElement(t, ListOf(i[t]), i[t])
               \/ InsertLinkPrev(t, i[t]) \/ InsertLinkCur(t, i[t])
               \/ LookupHit(t, ListOf(i[t]), i[t]) \/ LookupMiss(t, ListOf(i[t]))
               \/ DeleteStep(t) \/ LengthReturn(t, i[t])
      BY <3>4 DEF InsertLinkElement, InsertLinkPrev, InsertLinkCur, LookupHit,
         LookupMiss, DeleteStep, DeleteCheck, DeleteUnlinkNext, DeleteUnlinkPrev,
         LengthReturn, TypeOK
    <3> QED  BY <1>5, <3>1, <3>2, <3>3, <3>4
             DEF CallStep, InsertStep, LookupStep, LengthStep
  <2>6. /\ next' \in [Nodes -> Nodes \cup {NULL}]
        /\ prev' \in [Nodes -> Nodes \cup {NULL}]
    <3>1. CASE InsertStep(t, ListOf(i[t]), i[t])
      <4>1. i[t] \in Nodes
        <5>1. pc[t] \in InsertLabels
          BY <3>1 DEF InsertStep, InsertEntry, InsertPast, InsertLinkElement,
             InsertLinkPrev, InsertLinkCur, InsertLabels
        <5> QED  BY <5>1, NodeFacts DEF IndexInv
      <4> QED  BY <2>3, <3>1, <4>1 DEF InsertStep, InsertEntry, InsertPast,
             InsertLinkElement, InsertLinkPrev, InsertLinkCur, TypeOK, WalkLabels
    <3>2. CASE DeleteStep(t)
      BY <2>3, <3>2 DEF DeleteStep, DeleteCheck, DeleteUnlinkNext,
         DeleteUnlinkPrev, TypeOK, WalkLabels
    <3>3. CASE LookupStep(t, ListOf(i[t]), i[t]) \/ LengthStep(t, i[t])
      BY <3>3 DEF LookupStep, LookupEntry, LookupNext, LookupHit, LookupMiss,
         LengthStep, LengthEntry, LengthNext, LengthReturn, TypeOK
    <3> QED  BY <1>5, <3>1, <3>2, <3>3 DEF CallStep
  <2> QED  BY <1>1, <1>3, <1>5, <2>1, <2>2, <2>5, <2>6 DEF TypeOK
<1> QED  BY <1>4, <1>5 DEF ThreadStep

\* Inside a call a thread stays within the labels of its lock.
LEMMA CallStaysInside ==
  ASSUME TypeOK, NEW t \in Threads, CallStep(t)
  PROVE  /\ pc[t] \in InsertLabels <=> pc'[t] \in InsertLabels
         /\ pc[t] \in LengthLabels <=> pc'[t] \in LengthLabels
         /\ pc[t] \in DeleteLabels <=> pc'[t] \in DeleteLabels
         /\ pc'[t] \in InsertLabels \cup LengthLabels \cup DeleteLabels
         /\ pc[t] \notin {"unborn", "add"}
<1> USE DEF TypeOK, InsertLabels, LengthLabels, DeleteLabels, GoTo, StartWalk
<1> t \in Agents
  BY AgentFacts
<1>1. CASE InsertStep(t, ListOf(i[t]), i[t])
  BY <1>1 DEF InsertStep, InsertEntry, InsertPast, InsertLinkElement,
       InsertLinkPrev, InsertLinkCur
<1>2. CASE LookupStep(t, ListOf(i[t]), i[t])
  BY <1>2 DEF LookupStep, LookupEntry, LookupNext, LookupHit, LookupMiss
<1>3. CASE DeleteStep(t)
  BY <1>3 DEF DeleteStep, DeleteCheck, DeleteUnlinkNext, DeleteUnlinkPrev
<1>4. CASE LengthStep(t, i[t])
  BY <1>4 DEF LengthStep, LengthEntry, LengthNext, LengthReturn
<1> QED  BY <1>1, <1>2, <1>3, <1>4 DEF CallStep

\* Keys never change.
LEMMA KeysFixed ==
  ASSUME NEW t \in Threads, ThreadStep(t)
  PROVE  key' = key
<1>1. CASE OwnStep(t) \/ Fail(t)
  BY <1>1 DEF OwnStep, BeginInsert, EndInsert, InsertsDone, BeginLength,
       EndLength, LengthsDone, AcquireGlobal, AddLength, BeginDelete, EndDelete,
       DeletesDone, Fail, listVars
<1>2. CASE CallStep(t)
  BY <1>2 DEF CallStep, StartWalk, InsertStep, InsertEntry, InsertPast, InsertLinkElement,
       InsertLinkPrev, InsertLinkCur, LookupStep, LookupEntry, LookupNext,
       LookupHit, LookupMiss, DeleteStep, DeleteCheck, DeleteUnlinkNext,
       DeleteUnlinkPrev, LengthStep, LengthEntry, LengthNext, LengthReturn
<1> QED  BY <1>1, <1>2 DEF ThreadStep

\* The loop tests keep the indices in range.
LEMMA ThreadKeepsIndex ==
  ASSUME TypeOK, IndexInv, NEW t \in Threads, ThreadStep(t)
  PROVE  IndexInv'
<1> t \in Agents /\ t # Main
  BY AgentFacts
<1>1. \A b \in Agents \ {t} : pc'[b] = pc[b] /\ i'[b] = i[b]
  BY ThreadFrame
<1>2. /\ Threads' = Threads /\ Elements' = Elements /\ Lists' = Lists /\ Main' = Main
      /\ InsertLabels' = InsertLabels /\ DeleteLabels' = DeleteLabels
      /\ LengthLabels' = LengthLabels /\ MainLabels' = MainLabels
  BY DEF Threads, Elements, Lists, Main, InsertLabels, DeleteLabels, LengthLabels,
         MainLabels
<1>3. /\ pc'[t] \in InsertLabels \cup DeleteLabels => i'[t] \in Elements
      /\ pc'[t] \in LengthLabels => i'[t] \in Lists
      /\ pc'[t] \notin {"create", "join", "checkLoop"}
      /\ pc[t] # "unborn"
  <2>1. CASE OwnStep(t)
    <3> i[t] \in Nat /\ OpNum \in Nat /\ ListNum \in Nat
      BY ListAssumption DEF TypeOK
    <3> QED
      BY <2>1 DEF OwnStep, BeginInsert, EndInsert, InsertsDone, BeginLength,
       EndLength, LengthsDone, AcquireGlobal, AddLength, BeginDelete, EndDelete,
       DeletesDone, GoTo, TypeOK, IndexInv, Elements, Lists,
       InsertLabels, DeleteLabels, LengthLabels
  <2>2. CASE CallStep(t)
    <3>1. i'[t] = i[t]
      BY <2>2 DEF CallStep
    <3>2. pc'[t] \notin {"create", "join", "checkLoop"}
      BY <2>2, CallStaysInside DEF InsertLabels, DeleteLabels, LengthLabels
    <3> QED  BY <2>2, <3>1, <3>2, CallStaysInside DEF IndexInv
  <2>3. CASE Fail(t)
    BY <2>3 DEF Fail, listVars, IndexInv
  <2> QED  BY <2>1, <2>2, <2>3 DEF ThreadStep
<1>4. \A s \in Threads \ {t} : pc'[s] = pc[s] /\ i'[s] = i[s]
  BY <1>1, AgentFacts
<1>5. pc'[Main] = pc[Main] /\ i'[Main] = i[Main]
  BY <1>1, AgentFacts
<1>6. \A s \in Threads : /\ pc'[s] \in InsertLabels \cup DeleteLabels => i'[s] \in Elements
                         /\ pc'[s] \in LengthLabels => i'[s] \in Lists
                         /\ pc'[s] \notin {"create", "join", "checkLoop"}
  BY <1>3, <1>4 DEF IndexInv
<1>7. pc'[Main] = "create" => \A s \in Threads : s >= i'[Main] => pc'[s] = "unborn"
  BY <1>3, <1>4, <1>5 DEF IndexInv
<1> QED  BY <1>2, <1>5, <1>6, <1>7 DEF IndexInv

\* The two halves of mutual exclusion: the locks of the lists, and the global
\* lock.
ListLocksExact ==
  /\ \A s, t \in Threads, l \in Lists : Holds(s, l) /\ Holds(t, l) => s = t
  /\ \A l \in Lists : lock[l] = 1 <=> \E t \in Threads : Holds(t, l)
GlobalLockExact ==
  /\ \A s, t \in Threads : pc[s] = "add" /\ pc[t] = "add" => s = t
  /\ global = 1 <=> \E t \in Threads : pc[t] = "add"

\* Mutual exclusion is the two locks' exactness.
LEMMA MutualExclusionParts ==
  MutualExclusion <=> (Locking => ListLocksExact /\ GlobalLockExact)
  BY DEF MutualExclusion, ListLocksExact, GlobalLockExact

\* Nobody else's holding changes when t moves.
LEMMA HoldsFrame ==
  ASSUME TypeOK, NEW t \in Threads, ThreadStep(t), NEW s \in Threads \ {t},
         NEW l \in Lists
  PROVE  Holds(s, l)' <=> Holds(s, l)
<1>1. pc'[s] = pc[s] /\ i'[s] = i[s]
  BY ThreadFrame, AgentFacts
<1>2. key' = key
  BY KeysFixed
<1> QED  BY <1>1, <1>2 DEF Holds, ListOf, InsertLabels, DeleteLabels, LengthLabels

\* A lock is taken when it is free and given back by its holder.
LEMMA ThreadKeepsListLocks ==
  ASSUME Locking, TypeOK, IndexInv, ListLocksExact, NEW t \in Threads, ThreadStep(t)
  PROVE  ListLocksExact'
<1> t \in Agents
  BY AgentFacts
<1> USE HoldsFrame
<1>1. key' = key
  BY KeysFixed
<1>2. Threads' = Threads /\ Lists' = Lists
  BY DEF Threads, Lists
<1>3. ASSUME NEW l0 \in Lists, lock[l0] = 0, lock' = [lock EXCEPT ![l0] = 1],
             \A l \in Lists : ~Holds(t, l) /\ (Holds(t, l)' <=> l = l0)
      PROVE  ListLocksExact'
  BY <1>2, <1>3 DEF ListLocksExact, TypeOK
<1>4. ASSUME NEW l0 \in Lists, lock' = [lock EXCEPT ![l0] = 0],
             \A l \in Lists : ~Holds(t, l)' /\ (Holds(t, l) <=> l = l0)
      PROVE  ListLocksExact'
  BY <1>2, <1>4 DEF ListLocksExact, TypeOK
<1>5. ASSUME lock' = lock, \A l \in Lists : Holds(t, l)' <=> Holds(t, l)
      PROVE  ListLocksExact'
  BY <1>2, <1>5 DEF ListLocksExact, TypeOK
<1> USE DEF GoTo, Holds, InsertLabels, LengthLabels, DeleteLabels, TypeOK
<1>6. CASE BeginInsert(t) \/ BeginDelete(t)
  <2>1. ListOf(i[t]) \in Lists
    <3>1. i[t] \in Elements
      BY <1>6, ListAssumption DEF BeginInsert, BeginDelete, Elements
    <3> QED  BY <3>1, ListOfType
  <2>2. /\ lock[ListOf(i[t])] = 0
        /\ lock' = [lock EXCEPT ![ListOf(i[t])] = 1]
        /\ i'[t] = i[t] /\ ListOf(i[t])' = ListOf(i[t])
    BY <1>1, <1>6 DEF BeginInsert, BeginDelete, Acquire, ListOf
  <2>3. /\ pc[t] \notin InsertLabels \cup DeleteLabels \cup LengthLabels
        /\ pc'[t] \in InsertLabels \cup DeleteLabels
        /\ pc'[t] \notin LengthLabels
    BY <1>6 DEF BeginInsert, BeginDelete
  <2>4. \A l \in Lists : ~Holds(t, l) /\ (Holds(t, l)' <=> l = ListOf(i[t]))
    BY <2>2, <2>3
  <2> QED  BY <1>3, <2>1, <2>2, <2>4
<1>7. CASE BeginLength(t)
  <2>1. i[t] \in Lists
    BY <1>7, ListAssumption DEF BeginLength, Lists
  <2>2. /\ lock[i[t]] = 0
        /\ lock' = [lock EXCEPT ![i[t]] = 1]
        /\ i'[t] = i[t]
    BY <1>7 DEF BeginLength, Acquire
  <2>3. \A l \in Lists : ~Holds(t, l) /\ (Holds(t, l)' <=> l = i[t])
    BY <1>7, <2>2 DEF BeginLength
  <2> QED  BY <1>3, <2>1, <2>2, <2>3
<1>8. CASE EndInsert(t) \/ EndDelete(t)
  <2>1. i[t] \in Elements
    BY <1>8 DEF EndInsert, EndDelete, IndexInv
  <2>2. ListOf(i[t]) \in Lists
    BY <2>1, ListOfType
  <2>3. lock' = [lock EXCEPT ![ListOf(i[t])] = 0]
    BY <1>8 DEF EndInsert, EndDelete, Release
  <2>4. \A l \in Lists : ~Holds(t, l)' /\ (Holds(t, l) <=> l = ListOf(i[t]))
    BY <1>8 DEF EndInsert, EndDelete
  <2> QED  BY <1>4, <2>2, <2>3, <2>4
<1>9. CASE EndLength(t)
  <2>1. i[t] \in Lists /\ lock' = [lock EXCEPT ![i[t]] = 0]
    BY <1>9 DEF EndLength, IndexInv, Release
  <2>2. \A l \in Lists : ~Holds(t, l)' /\ (Holds(t, l) <=> l = i[t])
    BY <1>9 DEF EndLength
  <2> QED  BY <1>4, <2>1, <2>2
<1>10. CASE \/ InsertsDone(t) \/ LengthsDone(t) \/ AcquireGlobal(t)
            \/ AddLength(t) \/ DeletesDone(t)
  <2>1. \A l \in Lists : ~Holds(t, l)' /\ ~Holds(t, l)
    BY <1>10 DEF InsertsDone, LengthsDone, AcquireGlobal, AddLength, DeletesDone
  <2>2. lock' = lock
    BY <1>10 DEF InsertsDone, LengthsDone, AcquireGlobal, AddLength, DeletesDone
  <2> QED  BY <1>5, <2>1, <2>2
<1>11. CASE CallStep(t)
  <2>1. lock' = lock /\ i'[t] = i[t] /\ ListOf(i[t])' = ListOf(i[t])
    BY <1>1, <1>11 DEF CallStep, ListOf
  <2>2. /\ pc[t] \in InsertLabels \cup DeleteLabels <=> pc'[t] \in InsertLabels \cup DeleteLabels
        /\ pc[t] \in LengthLabels <=> pc'[t] \in LengthLabels
    BY <1>11, CallStaysInside
  <2>3. \A l \in Lists : Holds(t, l)' <=> Holds(t, l)
    BY <2>1, <2>2
  <2> QED  BY <1>5, <2>1, <2>3
<1>12. CASE Fail(t)
  <2>1. lock' = lock /\ pc' = pc /\ i' = i
    BY <1>12 DEF Fail, listVars
  <2>2. \A l \in Lists : Holds(t, l)' <=> Holds(t, l)
    BY <1>1, <2>1 DEF ListOf
  <2> QED  BY <1>5, <2>1, <2>2
<1> QED  BY <1>6, <1>7, <1>8, <1>9, <1>10, <1>11, <1>12 DEF ThreadStep, OwnStep

\* The same for the global lock.
LEMMA ThreadKeepsGlobalLock ==
  ASSUME Locking, TypeOK, GlobalLockExact, NEW t \in Threads, ThreadStep(t)
  PROVE  GlobalLockExact'
<1> t \in Agents
  BY AgentFacts
<1>1. \A s \in Threads \ {t} : pc'[s] = pc[s]
  BY ThreadFrame, AgentFacts
<1>2. Threads' = Threads
  BY DEF Threads
<1>3. CASE AcquireGlobal(t)
  BY <1>1, <1>2, <1>3 DEF AcquireGlobal, GlobalLockExact, GoTo, TypeOK
<1>4. CASE AddLength(t)
  BY <1>1, <1>2, <1>4 DEF AddLength, GlobalLockExact, GoTo, TypeOK
<1>5. ASSUME global' = global, pc[t] # "add", pc'[t] # "add"
      PROVE  GlobalLockExact'
  BY <1>1, <1>2, <1>5 DEF GlobalLockExact
<1>6. CASE CallStep(t)
  <2>1. pc[t] # "add" /\ pc'[t] # "add"
    BY <1>6, CallStaysInside DEF InsertLabels, LengthLabels, DeleteLabels
  <2> QED  BY <1>5, <1>6, <2>1 DEF CallStep
<1>7. CASE OwnStep(t) /\ ~AcquireGlobal(t) /\ ~AddLength(t)
  <2>1. global' = global /\ pc[t] # "add" /\ pc'[t] # "add"
    BY <1>7 DEF OwnStep, BeginInsert, EndInsert, InsertsDone, BeginLength,
       EndLength, LengthsDone, AcquireGlobal, AddLength, BeginDelete, EndDelete,
       DeletesDone, GoTo, TypeOK
  <2> QED  BY <1>5, <2>1
<1>8. CASE Fail(t)
  BY <1>5, <1>8 DEF Fail, listVars
<1> QED  BY <1>3, <1>4, <1>6, <1>7, <1>8 DEF ThreadStep
-----------------------------------------------------------------------------
(* A step of main.                                                           *)

\* Starting a thread: the new thread holds nothing.
LEMMA CreateKeepsIInv == ASSUME IInv, Create PROVE IInv'
<1> USE DEF IInv
<1>1. i[Main] \in Threads
  BY AgentFacts, OpsAssumption DEF Create, TypeOK, Threads
<1>2. /\ pc[i[Main]] = "unborn"
      /\ \A a \in Agents : pc'[a] = IF a = i[Main] THEN "insertLoop" ELSE pc[a]
      /\ \A a \in Agents : i'[a] = IF a = Main THEN i[Main] + 1 ELSE i[a]
      /\ UNCHANGED <<next, prev, key, cur, cnt, lock, global, list_len, status>>
  <2>1. i[Main] >= i[Main]
    BY AgentFacts DEF TypeOK
  <2> QED  BY <1>1, <2>1 DEF Create, IndexInv, TypeOK, SetIndex, links
<1>3. TypeOK'
  BY <1>1, AgentFacts DEF Create, TypeOK, SetIndex, links, Labels, LoopLabels
<1>4. IndexInv'
  <2>1. \A t \in Threads : pc'[t] = "insertLoop" \/ pc'[t] = pc[t]
    BY <1>2, AgentFacts
  <2>2. \A t \in Threads : i'[t] = i[t]
    BY <1>2, AgentFacts
  <2>3. pc'[Main] = pc[Main] /\ pc[Main] = "create" /\ i'[Main] = i[Main] + 1
    BY <1>1, <1>2, AgentFacts DEF Create
  <2>4. \A t \in Threads : t >= i'[Main] => pc'[t] = "unborn"
    <3> SUFFICES ASSUME NEW t \in Threads, t >= i'[Main] PROVE pc'[t] = "unborn"
      OBVIOUS
    <3>1. t # i[Main] /\ t >= i[Main]
      BY <1>1, <2>3 DEF Threads
    <3> QED  BY <1>2, <2>3, <3>1, AgentFacts DEF IndexInv
  <2>5. \A t \in Threads : /\ pc'[t] \in InsertLabels \cup DeleteLabels => i'[t] \in Elements
                           /\ pc'[t] \in LengthLabels => i'[t] \in Lists
                           /\ pc'[t] \notin {"create", "join", "checkLoop"}
    BY <2>1, <2>2 DEF IndexInv, InsertLabels, DeleteLabels, LengthLabels
  <2> QED  BY <2>3, <2>4, <2>5 DEF IndexInv, Threads, Main, Elements, Lists, MainLabels,
           InsertLabels, DeleteLabels, LengthLabels
<1>5. LinkInv'
  <2>1. \A a \in Agents : pc'[a] \in WalkLabels => pc[a] \in WalkLabels
    BY <1>2 DEF WalkLabels
  <2>2. \A t \in Threads : pc'[t] \in {"insertPrev", "insertCur"}
                             => pc[t] \in {"insertPrev", "insertCur"} /\ i'[t] = i[t]
    BY <1>2, AgentFacts
  <2>3. Linked' = Linked
    BY <1>2 DEF Linked, Nodes, Heads, ListHead, Lists, Elements
  <2> QED  BY <1>2, <2>1, <2>2, <2>3 DEF LinkInv, NoWildPointers, Heads, ListHead, Lists,
           Threads, WalkLabels
<1>6. MutualExclusion'
  <2>1. \A t \in Threads, l \in Lists : Holds(t, l)' <=> Holds(t, l)
    BY <1>2, AgentFacts DEF Holds, ListOf, InsertLabels, DeleteLabels, LengthLabels
  <2>2. \A t \in Threads : pc'[t] = "add" <=> pc[t] = "add"
    BY <1>2, AgentFacts
  <2> QED  BY <1>2, <2>1, <2>2 DEF MutualExclusion, Threads, Lists, Locking
<1> QED  BY <1>3, <1>4, <1>5, <1>6

\* Main's other steps leave every thread where it is.
LEMMA MainFrame ==
  ASSUME TypeOK, MainStep, ~Create, NEW t \in Threads
  PROVE  /\ pc'[t] = pc[t] /\ i'[t] = i[t] /\ cur'[t] = cur[t]
         /\ UNCHANGED <<next, prev, key, lock, global, list_len>>
  BY AgentFacts
  DEF MainStep, MainWorks, CreateFails, CreateDone, Join, JoinDone, BeginCheck,
      CheckStep, EndCheck, NotEmpty, Report, LengthStep, LengthEntry, LengthNext,
      LengthReturn, StartWalk, GoTo, SetCur, SetIndex, TypeOK, links, listVars,
      opsVars

\* The loop tests of main.
LEMMA MainIndex ==
  ASSUME IInv, MainStep, ~Create
  PROVE  /\ pc'[Main] \in MainLabels
         /\ pc'[Main] # "create" \/ (pc'[Main] = pc[Main] /\ i'[Main] = i[Main])
         /\ pc'[Main] \in LengthLabels => i'[Main] \in Lists
         /\ i' \in [Agents -> Nat]
         /\ pc' \in [Agents -> Labels]
<1> USE AgentFacts, ListAssumption
    DEF IInv, TypeOK, IndexInv, MainLabels, LengthLabels, Labels, GoTo, SetCur,
        SetIndex, StartWalk
<1>1. CASE CreateFails \/ CreateDone \/ Join \/ JoinDone \/ NotEmpty \/ Report
  BY <1>1 DEF CreateFails, CreateDone, Join, JoinDone, NotEmpty, Report, listVars
<1>2. CASE BeginCheck
  BY <1>2 DEF BeginCheck, opsVars, Lists
<1>4. CASE EndCheck
  BY <1>4 DEF EndCheck, LoopLabels
<1>3. CASE CheckStep
  BY <1>3 DEF CheckStep, opsVars, LengthStep, LengthEntry, LengthNext, LengthReturn
<1> QED  BY <1>1, <1>2, <1>3, <1>4 DEF MainStep, MainWorks

\* Main's steps after the creation of the threads keep the invariant.
LEMMA MainKeepsIInv == ASSUME IInv, MainStep, ~Create PROVE IInv'
<1> USE DEF IInv
<1>1. \A t \in Threads : pc'[t] = pc[t] /\ i'[t] = i[t] /\ cur'[t] = cur[t]
  BY MainFrame
<1>2. UNCHANGED <<next, prev, key, lock, global, list_len>>
  BY MainFrame, OpsAssumption DEF Threads
<1>3. \A b \in Agents \ {Main} : pc'[b] = pc[b] /\ cur'[b] = cur[b] /\ i'[b] = i[b]
  BY <1>1, OpsAssumption
<1>4. IndexInv'
  <2>1. pc'[Main] = "create" => \A t \in Threads : t >= i'[Main] => pc'[t] = "unborn"
    BY <1>1, MainIndex DEF IndexInv
  <2> QED  BY <1>1, <2>1, MainIndex
           DEF IndexInv, Threads, Main, Elements, Lists, MainLabels,
               InsertLabels, DeleteLabels, LengthLabels
<1>5. LinkInv'
  <2>1. CASE CheckStep
    <3>1. i[Main] \in Lists
      BY <2>1 DEF CheckStep, LengthStep, LengthEntry, LengthNext, LengthReturn,
                  StartWalk, IndexInv, LengthLabels
    <3> QED  BY <1>3, <2>1, <3>1, AgentFacts, WalkKeepsLinks DEF CheckStep
  <2>2. CASE ~CheckStep
    <3>1. pc'[Main] \notin WalkLabels \/ (pc'[Main] = pc[Main] /\ cur'[Main] = cur[Main])
      BY <2>2, AgentFacts
      DEF MainStep, MainWorks, CreateFails, CreateDone, Join, JoinDone, BeginCheck,
          EndCheck, NotEmpty, Report, GoTo, SetIndex, TypeOK, listVars, WalkLabels
    <3>2. pc'[Main] \in WalkLabels => cur'[Main] \in Linked
      BY <3>1, AgentFacts DEF LinkInv, NoWildPointers
    <3> QED  BY <1>2, <1>3, <3>2, AgentFacts, LinksUnchanged DEF links
  <2> QED  BY <2>1, <2>2
<1>6. MutualExclusion'
  <2>1. \A t \in Threads, l \in Lists : Holds(t, l)' <=> Holds(t, l)
    BY <1>1, <1>2 DEF Holds, ListOf, InsertLabels, DeleteLabels, LengthLabels
  <2> QED  BY <1>1, <1>2, <2>1 DEF MutualExclusion, Threads, Lists, Locking
<1>7. TypeOK'
  <2>1. cur' \in [Agents -> Nodes \cup {NULL}]
    <3>1. CASE LengthEntry(Main, i[Main])
      <4>1. i[Main] \in Lists
        BY <3>1 DEF LengthEntry, StartWalk, IndexInv, LengthLabels
      <4>2. next[ListHead(i[Main])] \in Nodes
        BY <4>1, FirstIsLinked DEF Linked
      <4> QED  BY <3>1, <4>2 DEF LengthEntry, StartWalk, SetCur, TypeOK
    <3>2. CASE LengthNext(Main, i[Main])
      <4>1. next[cur[Main]] \in Nodes
        BY <3>2, AgentFacts DEF LengthNext, LinkInv, NoWildPointers, WalkLabels, Linked
      <4> QED  BY <3>2, <4>1 DEF LengthNext, SetCur, TypeOK
    <3>3. CASE LengthReturn(Main, i[Main])
      BY <3>3 DEF LengthReturn, SetCur, TypeOK
    <3>4. CASE ~CheckStep
      BY <3>4 DEF MainStep, MainWorks, CreateFails, CreateDone, Join, JoinDone,
          BeginCheck, EndCheck, NotEmpty, Report, listVars, TypeOK
    <3> QED  BY <3>1, <3>2, <3>3, <3>4 DEF CheckStep, LengthStep
  <2>2. cnt' \in [Agents -> 0..MaxCount]
    <3>1. MaxCount \in Nat
      BY ListAssumption DEF MaxCount
    <3> QED  BY <3>1
      DEF MainStep, MainWorks, CreateFails, CreateDone, Join, JoinDone,
          BeginCheck, CheckStep, LengthStep, LengthEntry, LengthNext, LengthReturn,
          StartWalk, EndCheck, NotEmpty, Report, listVars, TypeOK
  <2>3. status' \in {"running", "exit0", "exit1", "exit2"}
    BY DEF MainStep, MainWorks, CreateFails, CreateDone, Join, JoinDone,
          BeginCheck, CheckStep, EndCheck, NotEmpty, Report, opsVars, TypeOK
  <2> QED  BY <1>2, <2>1, <2>2, <2>3, MainIndex
           DEF TypeOK, Nodes, Heads, ListHead, Lists, Elements, Labels, InsertLabels,
               LengthLabels, DeleteLabels, LoopLabels, MainLabels, MaxCount, Threads
<1> QED  BY <1>4, <1>5, <1>6, <1>7

-----------------------------------------------------------------------------
(* The invariant and the theorems.                                           *)

\* The initial states satisfy the invariant.
LEMMA InitIInv == Init => IInv
<1> SUFFICES ASSUME Init PROVE IInv
  OBVIOUS
<1> USE AgentFacts, NodeFacts DEF Init
<1>1. TypeOK
  <2>1. \A a \in Agents : (IF a = Main THEN 0 ELSE a) \in Nat
    BY OpsAssumption DEF Threads
  <2>2. 0 \in 0..MaxCount
    BY ListAssumption DEF MaxCount
  <2> QED  BY <2>1, <2>2 DEF TypeOK, Labels, LoopLabels, MainLabels, Nodes
<1>2. IndexInv
  BY DEF IndexInv, MainLabels, InsertLabels, DeleteLabels, LengthLabels
<1>3. Linked = Heads
  BY DEF Linked, Nodes
<1>4. LinkInv
  BY <1>3 DEF LinkInv, NoWildPointers, WalkLabels, Nodes
<1>5. MutualExclusion
  <2>1. \A t \in Threads : pc[t] = "unborn"
    OBVIOUS
  <2>2. \A t \in Threads, l \in Lists : ~Holds(t, l)
    BY <2>1 DEF Holds, InsertLabels, DeleteLabels, LengthLabels
  <2>3. global = 0 /\ \A l \in Lists : lock[l] = 0
    OBVIOUS
  <2> HIDE AgentFacts, NodeFacts DEF Init
  <2>4. ListLocksExact
    BY <2>2, <2>3 DEF ListLocksExact
  <2>5. GlobalLockExact
    BY <2>1, <2>3 DEF GlobalLockExact
  <2> QED  BY <2>4, <2>5, MutualExclusionParts
<1> QED  BY <1>1, <1>2, <1>4, <1>5 DEF IInv

\* Every step keeps the invariant.
LEMMA NextIInv == IInv /\ [Next]_vars => IInv'
<1> SUFFICES ASSUME IInv, [Next]_vars PROVE IInv'
  OBVIOUS
<1>1. CASE UNCHANGED vars
  BY <1>1 DEF vars, listVars, opsVars, IInv, TypeOK, IndexInv, LinkInv,
              MutualExclusion, NoWildPointers, Linked, Holds, ListOf
<1>2. ASSUME NEW t \in Threads, ThreadStep(t) PROVE IInv'
  <2>1. TypeOK' /\ IndexInv' /\ LinkInv'
    BY <1>2, ThreadKeepsTypes, ThreadKeepsIndex, ThreadKeepsLinks DEF IInv
  <2>2. MutualExclusion'
    <3> SUFFICES ASSUME Locking PROVE ListLocksExact' /\ GlobalLockExact'
      BY DEF MutualExclusion, ListLocksExact, GlobalLockExact, Locking
    <3>1. ListLocksExact /\ GlobalLockExact
      BY MutualExclusionParts DEF IInv
    <3> QED  BY <1>2, <3>1, ThreadKeepsListLocks, ThreadKeepsGlobalLock DEF IInv
  <2> QED  BY <2>1, <2>2 DEF IInv
<1>3. CASE MainStep
  BY <1>3, CreateKeepsIInv, MainKeepsIInv
<1> QED  BY <1>1, <1>2, <1>3 DEF Next, Terminated

\* The invariant holds in every reachable state.
LEMMA SpecIInv == Spec => []IInv
  BY InitIInv, NextIInv, PTL DEF Spec

\* Every variable of lab2_list.c keeps its type.
THEOREM ListTypeCorrect == Spec => []TypeOK
  BY SpecIInv, PTL DEF IInv

\* No operation of SortedList.c follows an uninitialised pointer, with or
\* without --sync.
THEOREM ListNoWildPointers == Spec => []NoWildPointers
  BY SpecIInv, PTL DEF IInv, LinkInv

\* Every lock excludes, and is free when nobody is inside (lab2_list.c:141-243).
THEOREM ListMutualExclusion == Spec => []MutualExclusion
  BY SpecIInv, PTL DEF IInv

-----------------------------------------------------------------------------
(* Induction on the natural numbers, stated with a set in place of a         *)
(* predicate, and what it says of walks along next.                          *)

\* A set with 0 and the successor of each of its numbers has every number.
LEMMA SetInduction ==
  ASSUME NEW S, 0 \in S, \A n \in Nat : n \in S => n + 1 \in S
  PROVE  \A n \in Nat : n \in S
<1> DEFINE T == Nat \ S
<1>1. SUFFICES ASSUME T # {} PROVE FALSE
  OBVIOUS
<1>2. PICK x \in T : \A y \in T : ~ (<<y, x>> \in OpToRel(<, Nat))
  <2> HIDE DEF T
  <2>1. T \subseteq Nat
    BY DEF T
  <2> QED  BY <1>1, <2>1, NatLessThanWellFounded, WFMin
<1>3. x \in Nat /\ x # 0
  OBVIOUS
<1>4. x - 1 \in Nat /\ <<x - 1, x>> \in OpToRel(<, Nat)
  <2>1. x - 1 \in Nat /\ x - 1 < x
    BY <1>3
  <2> QED  BY <1>3, <2>1 DEF OpToRel
<1>5. x - 1 \notin T
  BY <1>2, <1>4
<1>6. x - 1 \in S
  BY <1>4, <1>5
<1>7. x - 1 + 1 = x
  BY <1>3
<1> QED  BY <1>2, <1>4, <1>6, <1>7

\* The walk along next from the head of list l, whose nodes are Chain(l).
Walk(l) == LET walk[k \in 0..OpNum + 1] == IF k = 0 THEN ListHead(l) ELSE next[walk[k - 1]]
           IN  walk

\* The chain of a list is what its walk meets before the head.
LEMMA ChainIsWalk ==
  ASSUME NEW l
  PROVE  Chain(l) = {Walk(l)[k] : k \in 1..OpNum + 1} \ {ListHead(l)}
  BY DEF Chain, Walk

\* There is such a walk.
LEMMA WalkUnfolds ==
  ASSUME NEW l
  PROVE  /\ Walk(l)[0] = ListHead(l)
         /\ \A k \in 1..OpNum + 1 : Walk(l)[k] = next[Walk(l)[k - 1]]
<1> DEFINE Good(n, f) == f = [k \in 0..n |-> IF k = 0 THEN ListHead(l) ELSE next[f[k - 1]]]
           S == {n \in Nat : \E f : Good(n, f)}
<1>1. 0 \in S
  <2>1. Good(0, [k \in 0..0 |-> ListHead(l)])
    OBVIOUS
  <2> QED  BY <2>1
<1>2. \A n \in Nat : n \in S => n + 1 \in S
  <2> SUFFICES ASSUME NEW n \in Nat, n \in S PROVE n + 1 \in S
    OBVIOUS
  <2>1. PICK f : Good(n, f)
    OBVIOUS
  <2> DEFINE g == [k \in 0..(n + 1) |-> IF k = n + 1 THEN next[f[n]] ELSE f[k]]
  <2>2. \A k \in 0..(n + 1) : g[k] = IF k = 0 THEN ListHead(l) ELSE next[g[k - 1]]
    BY <2>1
  <2>3. Good(n + 1, g)
    BY <2>2
  <2>4. n + 1 \in Nat
    OBVIOUS
  <2> HIDE DEF Good, g
  <2> QED  BY <2>3, <2>4
<1>3. OpNum + 1 \in S
  <2> HIDE DEF S
  <2> QED  BY <1>1, <1>2, SetInduction, ListAssumption
<1>4. Walk(l) = [k \in 0..OpNum + 1 |-> IF k = 0 THEN ListHead(l) ELSE next[Walk(l)[k - 1]]]
  <2>1. \E f : f = [k \in 0..OpNum + 1 |-> IF k = 0 THEN ListHead(l) ELSE next[f[k - 1]]]
    BY <1>3
  <2> QED  BY <2>1 DEF Walk
<1> QED  BY <1>4, ListAssumption

\* The nodes of list l in the order of next: its head, n elements in ascending
\* order, and the head again.
Circle(l, n, r) ==
  /\ r \in [0..n+1 -> Nodes]
  /\ r[0] = ListHead(l) /\ r[n+1] = ListHead(l)
  /\ \A k \in 1..n : r[k] \in InsertedElements /\ ListOf(r[k]) = l
  /\ \A j, k \in 1..n : j < k => r[j] # r[k] /\ key[r[j]] <= key[r[k]]
  /\ \A k \in 0..n : next[r[k]] = r[k+1]

\* prev leads back along r, but for the node at position q.
BackLinksBut(n, r, q) == \A k \in 1..n+1 : k # q => prev[r[k]] = r[k-1]

\* Where agent a stands on the list it works on.  An update of which one link has
\* been written leaves one back link to be written.
Stands(a, l, n, r) ==
  /\ ~MidUpdate(a) => BackLinksBut(n, r, 0)
  /\ pc[a] = "insertScan" =>
       \E p \in 1..n+1 : /\ cur[a] = r[p]
                         /\ \A j \in 1..p-1 : key[r[j]] < key[i[a]]
  /\ pc[a] = "insertPrev" =>
       \E p \in 1..n+1 : /\ cur[a] = r[p]
                         /\ next[i[a]] = r[p] /\ prev[i[a]] = r[p-1]
                         /\ \A j \in 1..p-1 : key[r[j]] <= key[i[a]]
                         /\ \A j \in p..n : key[i[a]] <= key[r[j]]
  /\ pc[a] = "insertCur" =>
       \E p \in 1..n : r[p] = i[a] /\ cur[a] = r[p+1] /\ BackLinksBut(n, r, p + 1)
  /\ pc[a] = "lookupScan" =>
       \E p \in 1..n+1 : /\ cur[a] = r[p]
                         /\ \A j \in 1..p-1 : key[r[j]] # key[i[a]]
  /\ pc[a] \in {"delete", "deleteNext"} =>
       \E p \in 1..n : cur[a] = r[p] /\ key[r[p]] = key[i[a]]
  /\ pc[a] = "deletePrev" =>
       \E p \in 0..n : /\ next[cur[a]] = r[p+1] /\ prev[cur[a]] = r[p]
                       /\ cur[a] \in Elements /\ ListOf(cur[a]) = l
                       /\ BackLinksBut(n, r, p + 1)
  /\ pc[a] = "lengthScan" => \E p \in 1..n+1 : cur[a] = r[p] /\ cnt[a] = p - 1
  /\ pc[a] = "counted" => cnt[a] = n

\* List l is a circle on which everybody who holds it stands.
Ring(l, n, r) == /\ Circle(l, n, r)
                 /\ (\A t \in Threads : ~Holds(t, l)) => BackLinksBut(n, r, 0)
                 /\ \A a \in Agents : Holds(a, l) => Stands(a, l, n, r)

\* Every list is such a circle.
RingInv == \A l \in Lists : \E n \in Nat : \E r : Ring(l, n, r)

\* The elements of the circle.
On(n, r) == {r[k] : k \in 1..n}

\* A circle is what the walk meets.
CirclesAreChains ==
  \A l \in Lists : \A n \in Nat : \A r :
    TypeOK /\ Circle(l, n, r)
      => Chain(l) = On(n, r) /\ IsFiniteSet(On(n, r)) /\ Cardinality(On(n, r)) = n

LEMMA CircleIsChain == CirclesAreChains
<1> SUFFICES ASSUME NEW l \in Lists, NEW n \in Nat, NEW r, TypeOK, Circle(l, n, r)
             PROVE  Chain(l) = On(n, r) /\ IsFiniteSet(On(n, r)) /\ Cardinality(On(n, r)) = n
  BY DEF CirclesAreChains
<1> DEFINE c == [k \in 1..n |-> r[k]]
<1>1. On(n, r) \subseteq Elements /\ c \in Injection(1..n, Elements)
  <2>1. \A k \in 1..n : r[k] \in Elements
    BY DEF Circle, InsertedElements
  <2>2. \A j, k \in 1..n : j # k => r[j] # r[k]
    BY DEF Circle
  <2> QED  BY <2>1, <2>2 DEF On, Injection, IsInjective
<1>2. n <= OpNum
  <2>1. IsFiniteSet(Elements) /\ Cardinality(Elements) = OpNum
    BY FS_Interval, ListAssumption DEF Elements
  <2>2. Cardinality(1..n) = n
    BY FS_Interval
  <2> HIDE DEF c
  <2> QED  BY <1>1, <2>1, <2>2, FS_Injection
<1>3. IsFiniteSet(On(n, r)) /\ Cardinality(On(n, r)) = n
  <2>1. c \in Bijection(1..n, On(n, r))
    BY <1>1 DEF On, Bijection, Injection, Surjection, IsInjective
  <2>2. IsFiniteSet(1..n) /\ Cardinality(1..n) = n
    BY FS_Interval
  <2> HIDE DEF c
  <2> QED  BY <2>1, <2>2, FS_Bijection DEF ExistsBijection
<1>4. ListHead(l) \notin On(n, r)
  BY <1>1, NodeFacts
<1> DEFINE w == Walk(l)
           S == {k \in Nat : k <= OpNum + 1 =>
                   /\ k <= n + 1 => w[k] = r[k]
                   /\ \E j \in 0..n : w[k] = r[j]}
<1>5. \A k \in Nat : k \in S
  <2>1. 0 \in S
    BY WalkUnfolds DEF Circle
  <2>2. \A k \in Nat : k \in S => k + 1 \in S
    <3> SUFFICES ASSUME NEW k \in Nat, k \in S, k + 1 <= OpNum + 1
                 PROVE  /\ k + 1 <= n + 1 => w[k + 1] = r[k + 1]
                        /\ \E j \in 0..n : w[k + 1] = r[j]
      OBVIOUS
    <3>1. w[k + 1] = next[w[k]]
      <4>1. k + 1 \in 1..OpNum + 1 /\ (k + 1) - 1 = k
        BY ListAssumption
      <4> QED  BY <4>1, WalkUnfolds
    <3>2. PICK j \in 0..n : w[k] = r[j]
      BY ListAssumption
    <3>3. w[k + 1] = r[j + 1]
      BY <3>1, <3>2 DEF Circle
    <3>4. \E m \in 0..n : r[j + 1] = r[m]
      BY DEF Circle
    <3>5. k + 1 <= n + 1 => w[k + 1] = r[k + 1]
      BY <3>1, ListAssumption DEF Circle
    <3> QED  BY <3>3, <3>4, <3>5
  <2> HIDE DEF S
  <2> QED  BY <2>1, <2>2, SetInduction
<1>6. \A k \in 1..OpNum + 1 : w[k] \in On(n, r) \cup {ListHead(l)}
  BY <1>5, ListAssumption DEF On, Circle
<1>7. \A k \in 1..n : w[k] = r[k]
  BY <1>2, <1>5, ListAssumption
<1> HIDE DEF w
<1>8. On(n, r) \subseteq {w[k] : k \in 1..OpNum + 1}
  BY <1>2, <1>7, ListAssumption DEF On
<1>9. Chain(l) = {w[k] : k \in 1..OpNum + 1} \ {ListHead(l)}
  BY ChainIsWalk DEF w
<1> QED  BY <1>3, <1>4, <1>6, <1>8, <1>9

-----------------------------------------------------------------------------
(* The loops of list_ops() and main.                                         *)

\* Where each thread is in its loops, and that main checks the lists when all
\* threads have returned.
LoopInv ==
  /\ \A t \in Threads :
       /\ pc[t] \in InsertPhase \cup DeletePhase => i[t] % ThreadNum = t
       /\ pc[t] = "returned" => i[t] >= OpNum
  /\ \A a \in Agents : pc[a] \notin {"lengthScan", "counted", "total", "add"} => cnt[a] = 0
  /\ pc[Main] = "join" => \A t \in Threads : t < i[Main] => pc[t] = "returned"
  /\ pc[Main] \in LengthLabels \cup {"checkLoop"} => \A t \in Threads : pc[t] = "returned"

\* A number is a multiple of a positive one and a rest.
LEMMA Divide ==
  ASSUME NEW T \in Nat, T > 0, NEW a \in Nat, NEW m, a % T = m
  PROVE  m \in 0..(T - 1) /\ \E p \in Int : a = T * p + m
<1>1. a \div T \in Int /\ a = T * (a \div T) + m
  OBVIOUS
<1>2. m \in 0..(T - 1)
  OBVIOUS
<1> QED  BY <1>1, <1>2

\* Equal rests are a whole divisor apart.
LEMMA NextOwn ==
  ASSUME NEW T \in Nat, T > 0, NEW a \in Nat, NEW b \in Nat, NEW m,
         a % T = m, b % T = m
  PROVE  (b + T) % T = m /\ (a < b + T => a <= b)
<1>1. PICK p \in Int : a = T * p + m
  BY Divide
<1>2. PICK q \in Int : b = T * q + m
  BY Divide
<1>3. m \in 0..(T - 1)
  BY Divide
<1>4. T * (q + 1) = T * q + T
  BY ONLY T \in Nat, q \in Int
<1>5. b + T = T * (q + 1) + m
  BY ONLY <1>2, <1>3, <1>4, T \in Nat, T > 0, q \in Int, b \in Nat
<1>6. (b + T) % T = m
  <2> DEFINE c == b + T
  <2>1. c \in Nat /\ c = T * (q + 1) + m
    BY ONLY <1>5, T \in Nat, b \in Nat
  <2> HIDE DEF c
  <2>2. c % T = m
    BY ONLY <1>3, <2>1, T \in Nat, T > 0, q \in Int
  <2> QED  BY ONLY <2>2 DEF c
<1>7. ASSUME a < b + T PROVE a <= b
  <2>1. T * (q + 1 - p) = T * q + T - T * p
    BY ONLY T \in Nat, p \in Int, q \in Int
  <2>2. T * (q + 1 - p) > 0
    BY ONLY <1>1, <1>2, <1>3, <1>7, <2>1, T \in Nat, T > 0, p \in Int, q \in Int
  <2>3. q + 1 - p > 0
    BY ONLY <2>2, T \in Nat, T > 0, p \in Int, q \in Int
  <2>4. T * (q - p) >= 0
    BY ONLY <2>3, T \in Nat, T > 0, p \in Int, q \in Int
  <2>5. T * (q - p) = T * q - T * p
    BY ONLY T \in Nat, p \in Int, q \in Int
  <2> QED  BY ONLY <1>1, <1>2, <1>3, <2>4, <2>5, T \in Nat, T > 0, p \in Int, q \in Int
<1> QED  BY <1>6, <1>7

\* The first element of thread t is t.
LEMMA OwnRest ==
  ASSUME NEW t \in Threads
  PROVE  t % ThreadNum = t /\ ThreadNum \in Nat /\ ThreadNum > 0 /\ t \in Nat
<1>1. ThreadNum \in Nat /\ ThreadNum > 0 /\ t \in Nat /\ t < ThreadNum
  BY OpsAssumption DEF Threads
<1> QED  BY <1>1

\* A thread's index keeps its rest modulo the number of threads.
LEMMA ThreadKeepsLoops ==
  ASSUME IInv, LoopInv, NEW t \in Threads, ThreadStep(t)
  PROVE  LoopInv'
<1> t \in Agents /\ t # Main /\ TypeOK
  BY AgentFacts DEF IInv
<1>1. \A a \in Agents \ {t} : pc'[a] = pc[a] /\ cur'[a] = cur[a] /\ i'[a] = i[a]
  BY ThreadFrame
<1>2. /\ pc[t] # "returned"
      /\ pc'[t] \in InsertPhase \cup DeletePhase => i'[t] % ThreadNum = t
      /\ pc'[t] = "returned" => i'[t] >= OpNum
      /\ cnt' = [cnt EXCEPT ![t] = cnt'[t]]
      /\ pc'[t] \notin {"lengthScan", "counted", "total", "add"} => cnt'[t] = 0
  <2> USE DEF InsertPhase, DeletePhase, InsertLabels, DeleteLabels, LoopInv, TypeOK,
              GoTo, SetIndex
  <2>0. t % ThreadNum = t /\ ThreadNum \in Nat /\ ThreadNum > 0
    BY OwnRest
  <2>1. CASE EndInsert(t) \/ EndDelete(t)
    <3>0. i[t] \in Nat /\ i[t] % ThreadNum = t
      BY <2>1 DEF EndInsert, EndDelete
    <3>1. (i[t] + ThreadNum) % ThreadNum = t
      <4> HIDE DEF TypeOK, LoopInv
      <4> QED  BY ONLY <2>0, <3>0, NextOwn, Zenon
    <3> QED  BY <2>1, <3>1 DEF EndInsert, EndDelete
  <2>2. CASE \/ BeginInsert(t) \/ InsertsDone(t) \/ BeginLength(t) \/ EndLength(t)
             \/ LengthsDone(t) \/ AcquireGlobal(t) \/ AddLength(t) \/ BeginDelete(t)
             \/ DeletesDone(t) \/ Fail(t)
    BY <2>0, <2>2 DEF BeginInsert, InsertsDone, BeginLength, EndLength, LengthsDone,
       AcquireGlobal, AddLength, BeginDelete, DeletesDone, Fail, listVars
  <2>3. CASE InsertStep(t, ListOf(i[t]), i[t]) /\ i' = i
    BY <2>3 DEF InsertStep, InsertEntry, InsertPast, InsertLinkElement,
       InsertLinkPrev, InsertLinkCur, StartWalk
  <2>4. CASE LookupStep(t, ListOf(i[t]), i[t]) /\ i' = i
    BY <2>4 DEF LookupStep, LookupEntry, LookupNext, LookupHit, LookupMiss, StartWalk
  <2>5. CASE DeleteStep(t) /\ i' = i
    BY <2>5 DEF DeleteStep, DeleteCheck, DeleteUnlinkNext, DeleteUnlinkPrev
  <2>6. CASE LengthStep(t, i[t]) /\ i' = i
    BY <2>6 DEF LengthStep, LengthEntry, LengthNext, LengthReturn, StartWalk
  <2> QED  BY <2>1, <2>2, <2>3, <2>4, <2>5, <2>6 DEF ThreadStep, OwnStep, CallStep
<1>3. \A s \in Threads : /\ pc'[s] \in InsertPhase \cup DeletePhase => i'[s] % ThreadNum = s
                         /\ pc'[s] = "returned" => i'[s] >= OpNum
                         /\ pc[s] = "returned" => pc'[s] = "returned"
  BY <1>1, <1>2, AgentFacts DEF LoopInv
<1>4. \A a \in Agents : pc'[a] \notin {"lengthScan", "counted", "total", "add"} => cnt'[a] = 0
  BY <1>1, <1>2 DEF LoopInv, TypeOK
<1>5. pc'[Main] = pc[Main] /\ i'[Main] = i[Main]
  BY <1>1, AgentFacts
<1>6. pc'[Main] = "join" => \A s \in Threads : s < i'[Main] => pc'[s] = "returned"
  BY <1>3, <1>5 DEF LoopInv
<1>7. pc'[Main] \in LengthLabels \cup {"checkLoop"} => \A s \in Threads : pc'[s] = "returned"
  BY <1>3, <1>5 DEF LoopInv
<1>8. /\ Threads' = Threads /\ InsertPhase' = InsertPhase /\ DeletePhase' = DeletePhase
      /\ LengthLabels' = LengthLabels
  BY DEF Threads, InsertPhase, DeletePhase, LengthLabels, InsertLabels, DeleteLabels
<1> QED  BY <1>3, <1>4, <1>6, <1>7, <1>8 DEF LoopInv

\* Main goes on to the checks only when all threads have returned.
LEMMA MainKeepsLoops ==
  ASSUME IInv, LoopInv, MainStep
  PROVE  LoopInv'
<1> USE AgentFacts, OpsAssumption DEF IInv, TypeOK, GoTo, SetIndex, SetCur
<1>1. CASE Create
  <2>1. i[Main] \in Threads /\ pc[i[Main]] = "unborn"
    BY <1>1 DEF Create, IndexInv, Threads
  <2> QED  BY <1>1, <2>1
           DEF Create, LoopInv, InsertPhase, DeletePhase, InsertLabels, DeleteLabels,
               LengthLabels
<1>2. CASE ~Create
  <2>1. \A t \in Threads : pc'[t] = pc[t] /\ i'[t] = i[t]
    BY <1>2, MainFrame
  <2>2. /\ \A a \in Agents \ {Main} : cnt'[a] = cnt[a] /\ pc'[a] = pc[a]
        /\ pc'[Main] \notin {"lengthScan", "counted", "total", "add"} => cnt'[Main] = 0
    BY <1>2
    DEF MainStep, MainWorks, CreateFails, CreateDone, Join, JoinDone, BeginCheck,
        CheckStep, EndCheck, NotEmpty, Report, LengthStep, LengthEntry, LengthNext,
        LengthReturn, StartWalk, listVars, opsVars, LoopInv
  <2>3. /\ pc'[Main] = "join" => \A t \in Threads : t < i'[Main] => pc[t] = "returned"
        /\ pc'[Main] \in LengthLabels \cup {"checkLoop"} => \A t \in Threads : pc[t] = "returned"
    <3>1. CASE CreateFails \/ CreateDone \/ Join \/ JoinDone \/ NotEmpty \/ Report
      <4>1. i[Main] \in Nat /\ ThreadNum \in Nat /\ \A t \in Threads : t \in Nat /\ t < ThreadNum
        BY DEF Threads
      <4>2. pc[Main] \in {"create", "join", "checkLoop", "counted"}
        BY <3>1 DEF CreateFails, CreateDone, Join, JoinDone, NotEmpty, Report
      <4> QED  BY <1>2, <3>1, <4>1, <4>2
           DEF CreateFails, CreateDone, Join, JoinDone, NotEmpty, Report, listVars, LoopInv,
               LengthLabels
    <3>2. CASE BeginCheck \/ EndCheck
      BY <1>2, <3>2 DEF BeginCheck, EndCheck, LoopInv, LengthLabels
    <3>3. CASE CheckStep
      BY <1>2, <3>3 DEF CheckStep, LengthStep, LengthEntry, LengthNext, LengthReturn,
                   StartWalk, LoopInv, LengthLabels
    <3> QED  BY <1>2, <3>1, <3>2, <3>3 DEF MainStep, MainWorks
  <2>4. \A a \in Agents : pc'[a] \notin {"lengthScan", "counted", "total", "add"} => cnt'[a] = 0
    BY <2>2 DEF LoopInv
  <2> QED  BY <2>1, <2>3, <2>4
           DEF LoopInv, Threads, InsertPhase, DeletePhase, InsertLabels, DeleteLabels,
               LengthLabels
<1> QED  BY <1>1, <1>2

\* The loops' invariant holds initially,
LEMMA InitLoops == Init => LoopInv
<1> SUFFICES ASSUME Init PROVE LoopInv
  OBVIOUS
<1>1. \A t \in Threads : pc[t] = "unborn" /\ i[t] = t
  BY AgentFacts DEF Init
<1>2. \A t \in Threads : i[t] % ThreadNum = t
  BY <1>1, OwnRest
<1>3. pc[Main] = "create" /\ \A a \in Agents : cnt[a] = 0
  BY AgentFacts DEF Init
<1> QED  BY <1>1, <1>2, <1>3 DEF LoopInv, LengthLabels

\* and every step keeps it.
LEMMA NextLoops == IInv /\ LoopInv /\ [Next]_vars => LoopInv'
<1>1. ASSUME UNCHANGED vars, LoopInv PROVE LoopInv'
  BY <1>1 DEF vars, listVars, opsVars, LoopInv, InsertPhase, DeletePhase,
              InsertLabels, DeleteLabels, LengthLabels, Threads
<1> QED  BY <1>1, ThreadKeepsLoops, MainKeepsLoops DEF Next, Terminated

-----------------------------------------------------------------------------
(* Which insertions, deletions and measurements have taken effect.           *)

\* Every element has an owner.
LEMMA OwnerIsThread == \A e \in Elements : Owner(e) \in Threads
<1> SUFFICES ASSUME NEW e \in Elements PROVE Owner(e) \in Threads
  OBVIOUS
<1>1. ThreadNum \in Nat /\ ThreadNum > 0 /\ e \in Nat
  BY OpsAssumption DEF Elements
<1>2. e % ThreadNum \in 0..(ThreadNum - 1)
  BY <1>1
<1> QED  BY <1>2 DEF Owner, Threads

\* Before its next element a thread has no other.
LEMMA OwnGap ==
  ASSUME NEW t \in Threads, NEW b \in Nat, b % ThreadNum = t,
         NEW e \in Elements, Owner(e) = t
  PROVE  e < b + ThreadNum <=> (e < b \/ e = b)
<1>1. e \in Nat /\ e % ThreadNum = t /\ ThreadNum \in Nat /\ ThreadNum > 0
  BY OpsAssumption DEF Elements, Owner
<1>2. e < b + ThreadNum => e <= b
  BY ONLY <1>1, b \in Nat, b % ThreadNum = t, NextOwn, Zenon
<1> QED  BY <1>1, <1>2

\* A thread works on elements of its own.
LEMMA IndexIsOwn ==
  ASSUME IInv, LoopInv, NEW t \in Threads, pc[t] \in InsertLabels \cup DeleteLabels
  PROVE  i[t] \in Elements /\ Owner(i[t]) = t
  BY DEF IInv, IndexInv, LoopInv, Owner, InsertPhase, DeletePhase

\* An insertion takes effect when next of the predecessor is written.
LEMMA InsertedStep ==
  ASSUME IInv, LoopInv, NEW t \in Threads, ThreadStep(t)
  PROVE  /\ InsertLinkPrev(t, i[t]) => /\ i[t] \in Elements \ InsertedElements
                                       /\ InsertedElements' = InsertedElements \cup {i[t]}
         /\ ~InsertLinkPrev(t, i[t]) => InsertedElements' = InsertedElements
<1> t \in Agents /\ TypeOK
  BY AgentFacts DEF IInv
<1> DEFINE Mine(e) == \/ pc[t] \notin InsertPhase
                      \/ e < i[t]
                      \/ e = i[t] /\ pc[t] \in {"insertCur", "inserted"}
<1>1. \A e \in Elements : Owner(e) # t => (e \in InsertedElements' <=> e \in InsertedElements)
  <2>1. \A s \in Threads \ {t} : pc'[s] = pc[s] /\ i'[s] = i[s]
    BY ThreadFrame, AgentFacts
  <2> QED  BY <2>1, OwnerIsThread
           DEF InsertedElements, Elements, Owner, InsertPhase, InsertLabels
<1>2. \A e \in Elements : Owner(e) = t => /\ e \in InsertedElements <=> Mine(e)
                                          /\ e \in InsertedElements' <=> Mine(e)'
  BY DEF InsertedElements, Elements, Owner, InsertPhase, InsertLabels
<1>3. InsertedElements \subseteq Elements /\ InsertedElements' \subseteq Elements
  BY DEF InsertedElements, Elements
<1> USE DEF InsertPhase, InsertLabels, TypeOK, GoTo, SetIndex
<1>4. CASE InsertLinkPrev(t, i[t])
  <2>1. i' = i
    BY <1>4 DEF ThreadStep, OwnStep, CallStep, Fail, listVars, BeginInsert, EndInsert, InsertsDone, BeginLength,
       EndLength, LengthsDone, AcquireGlobal, AddLength, BeginDelete, EndDelete,
       DeletesDone, InsertLinkPrev
  <2>2. pc[t] = "insertPrev" /\ pc'[t] = "insertCur"
    BY <1>4 DEF InsertLinkPrev
  <2>3. i[t] \in Elements /\ Owner(i[t]) = t
    BY <2>2, IndexIsOwn
  <2>4. \A e \in Elements : e \in Nat /\ i[t] \in Nat
    BY DEF Elements
  <2>5. \A e \in Elements : Owner(e) = t => (Mine(e)' <=> Mine(e) \/ e = i[t])
    BY <2>1, <2>2, <2>4
  <2>6. ~Mine(i[t])
    BY <2>2, <2>3, <2>4
  <2> QED  BY <1>1, <1>2, <1>3, <1>4, <2>3, <2>5, <2>6
<1>5. CASE ~InsertLinkPrev(t, i[t])
  <2>1. ASSUME NEW e \in Elements, Owner(e) = t PROVE Mine(e)' <=> Mine(e)
    <3> e \in Nat /\ i[t] \in Nat /\ OpNum \in Nat /\ e < OpNum
      BY ListAssumption DEF Elements
    <3>1. CASE EndInsert(t)
      <4>1. e < i[t] + ThreadNum <=> (e < i[t] \/ e = i[t])
        <5>1. i[t] % ThreadNum = t
          BY <3>1 DEF LoopInv, EndInsert
        <5> QED  BY <2>1, <5>1, OwnGap
      <4> QED  BY <3>1, <4>1 DEF EndInsert
    <3>2. CASE InsertsDone(t)
      BY <3>2 DEF InsertsDone
    <3>3. CASE BeginInsert(t)
      BY <3>3 DEF BeginInsert
    <3>4. CASE \/ BeginLength(t) \/ EndLength(t) \/ LengthsDone(t) \/ AcquireGlobal(t)
               \/ AddLength(t) \/ BeginDelete(t) \/ EndDelete(t) \/ DeletesDone(t)
      BY <3>4 DEF BeginLength, EndLength, LengthsDone, AcquireGlobal, AddLength,
                  BeginDelete, EndDelete, DeletesDone
    <3>5. CASE Fail(t)
      BY <3>5 DEF Fail, listVars
    <3>6. CASE InsertStep(t, ListOf(i[t]), i[t]) /\ i' = i
      BY <1>5, <3>6 DEF InsertStep, InsertEntry, InsertPast, InsertLinkElement,
                   InsertLinkCur, StartWalk
    <3>7. CASE i' = i /\ \/ LookupStep(t, ListOf(i[t]), i[t]) \/ DeleteStep(t)
                         \/ LengthStep(t, i[t])
      BY <3>7 DEF LookupStep, LookupEntry, LookupNext, LookupHit, LookupMiss, StartWalk,
         DeleteStep, DeleteCheck, DeleteUnlinkNext, DeleteUnlinkPrev,
         LengthStep, LengthEntry, LengthNext, LengthReturn
    <3> QED  BY <3>1, <3>2, <3>3, <3>4, <3>5, <3>6, <3>7 DEF ThreadStep, OwnStep, CallStep
  <2> QED  BY <1>1, <1>2, <1>3, <1>5, <2>1
<1> QED  BY <1>4, <1>5

\* A deletion takes effect when next of the predecessor is written.
LEMMA ConsumedStep ==
  ASSUME IInv, LoopInv, NEW t \in Threads, ThreadStep(t)
  PROVE  /\ DeleteUnlinkNext(t) => /\ i[t] \in Elements \ ConsumedElements
                                   /\ ConsumedElements' = ConsumedElements \cup {i[t]}
         /\ ~DeleteUnlinkNext(t) => ConsumedElements' = ConsumedElements
<1> t \in Agents /\ TypeOK
  BY AgentFacts DEF IInv
<1> DEFINE Mine(e) == /\ pc[t] \in DeletePhase
                      /\ e < i[t] \/ (e = i[t] /\ pc[t] \in {"deletePrev", "deleted"})
<1>1. \A e \in Elements : Owner(e) # t => (e \in ConsumedElements' <=> e \in ConsumedElements)
  <2>1. \A s \in Threads \ {t} : pc'[s] = pc[s] /\ i'[s] = i[s]
    BY ThreadFrame, AgentFacts
  <2> QED  BY <2>1, OwnerIsThread
           DEF ConsumedElements, Elements, Owner, DeletePhase, DeleteLabels
<1>2. \A e \in Elements : Owner(e) = t => /\ e \in ConsumedElements <=> Mine(e)
                                          /\ e \in ConsumedElements' <=> Mine(e)'
  BY DEF ConsumedElements, Elements, Owner, DeletePhase, DeleteLabels
<1>3. ConsumedElements \subseteq Elements /\ ConsumedElements' \subseteq Elements
  BY DEF ConsumedElements, Elements
<1> USE DEF DeletePhase, DeleteLabels, TypeOK, GoTo, SetIndex
<1>4. CASE DeleteUnlinkNext(t)
  <2>1. i' = i
    BY <1>4 DEF ThreadStep, OwnStep, CallStep, Fail, listVars, BeginInsert, EndInsert, InsertsDone, BeginLength,
       EndLength, LengthsDone, AcquireGlobal, AddLength, BeginDelete, EndDelete,
       DeletesDone, DeleteUnlinkNext
  <2>2. pc[t] = "deleteNext" /\ pc'[t] = "deletePrev"
    BY <1>4 DEF DeleteUnlinkNext
  <2>3. i[t] \in Elements /\ Owner(i[t]) = t
    BY <2>2, IndexIsOwn
  <2>4. \A e \in Elements : e \in Nat /\ i[t] \in Nat
    BY DEF Elements
  <2>5. \A e \in Elements : Owner(e) = t => (Mine(e)' <=> Mine(e) \/ e = i[t])
    BY <2>1, <2>2, <2>4
  <2>6. ~Mine(i[t])
    BY <2>2, <2>3, <2>4
  <2> QED  BY <1>1, <1>2, <1>3, <1>4, <2>3, <2>5, <2>6
<1>5. CASE ~DeleteUnlinkNext(t)
  <2>1. ASSUME NEW e \in Elements, Owner(e) = t PROVE Mine(e)' <=> Mine(e)
    <3> e \in Nat /\ i[t] \in Nat /\ OpNum \in Nat /\ e < OpNum
      BY ListAssumption DEF Elements
    <3>1. CASE EndDelete(t)
      <4>1. e < i[t] + ThreadNum <=> (e < i[t] \/ e = i[t])
        <5>1. i[t] % ThreadNum = t
          BY <3>1 DEF LoopInv, EndDelete
        <5> QED  BY <2>1, <5>1, OwnGap
      <4> QED  BY <3>1, <4>1 DEF EndDelete
    <3>2. CASE LengthsDone(t)
      <4>1. ~(e < t)
        <5>1. e % ThreadNum = t /\ ThreadNum \in Nat /\ t \in Nat /\ t < ThreadNum
          BY <2>1, OpsAssumption DEF Owner, Threads
        <5> QED  BY <5>1
      <4> QED  BY <3>2, <4>1 DEF LengthsDone
    <3>3. CASE BeginDelete(t) \/ DeletesDone(t)
      BY <3>3 DEF BeginDelete, DeletesDone
    <3>4. CASE \/ BeginInsert(t) \/ EndInsert(t) \/ InsertsDone(t) \/ BeginLength(t)
               \/ EndLength(t) \/ AcquireGlobal(t) \/ AddLength(t)
      BY <3>4 DEF BeginInsert, EndInsert, InsertsDone, BeginLength, EndLength,
                  AcquireGlobal, AddLength
    <3>5. CASE Fail(t)
      BY <3>5 DEF Fail, listVars
    <3>6. CASE DeleteStep(t) /\ i' = i
      BY <1>5, <3>6 DEF DeleteStep, DeleteCheck, DeleteUnlinkPrev
    <3>7. CASE i' = i /\ \/ LookupStep(t, ListOf(i[t]), i[t]) \/ LengthStep(t, i[t])
                         \/ InsertStep(t, ListOf(i[t]), i[t])
      BY <3>7 DEF LookupStep, LookupEntry, LookupNext, LookupHit, LookupMiss, StartWalk,
         InsertStep, InsertEntry, InsertPast, InsertLinkElement, InsertLinkPrev,
         InsertLinkCur, LengthStep, LengthEntry, LengthNext, LengthReturn
    <3> QED  BY <3>1, <3>2, <3>3, <3>4, <3>5, <3>6, <3>7 DEF ThreadStep, OwnStep, CallStep
  <2> QED  BY <1>1, <1>2, <1>3, <1>5, <2>1
<1> QED  BY <1>4, <1>5

\* A measurement takes effect when SortedList_length returns its count.
LEMMA MeasuredStep ==
  ASSUME IInv, LoopInv, NEW t \in Threads, ThreadStep(t)
  PROVE  /\ \A s \in Threads \ {t} : /\ MeasuredLists(s)' = MeasuredLists(s)
                                     /\ TotalLength(s)' = TotalLength(s)
         /\ LengthReturn(t, i[t]) => /\ i[t] \in Lists \ MeasuredLists(t)
                                     /\ MeasuredLists(t)' = MeasuredLists(t) \cup {i[t]}
                                     /\ TotalLength(t)' = TotalLength(t) + cnt[t]
         /\ ~LengthReturn(t, i[t]) => /\ MeasuredLists(t)' = MeasuredLists(t)
                                      /\ TotalLength(t)' = TotalLength(t)
<1> t \in Agents /\ TypeOK
  BY AgentFacts DEF IInv
<1>1. ASSUME NEW s \in Threads \ {t}
      PROVE  MeasuredLists(s)' = MeasuredLists(s) /\ TotalLength(s)' = TotalLength(s)
  <2>1. pc'[s] = pc[s] /\ i'[s] = i[s] /\ s \in Agents
    BY ThreadFrame, AgentFacts
  <2>2. cnt'[s] = cnt[s] /\ list_len'[s] = list_len[s]
    BY <2>1 DEF TypeOK, ThreadStep, OwnStep, CallStep, Fail, listVars, BeginInsert,
       EndInsert, InsertsDone, BeginLength, EndLength, LengthsDone, AcquireGlobal,
       AddLength, BeginDelete, EndDelete, DeletesDone, InsertStep, InsertEntry,
       InsertPast, InsertLinkElement, InsertLinkPrev, InsertLinkCur, LookupStep,
       LookupEntry, LookupNext, LookupHit, LookupMiss, DeleteStep, DeleteCheck,
       DeleteUnlinkNext, DeleteUnlinkPrev, LengthStep, LengthEntry, LengthNext,
       LengthReturn, StartWalk
  <2> QED  BY <2>1, <2>2
           DEF MeasuredLists, TotalLength, Counted, InsertPhase, InsertLabels,
               DeletePhase, DeleteLabels, Lists
<1>2. \A l \in Lists : l \in Nat /\ l < ListNum
  BY ListAssumption DEF Lists
<1>3. /\ i[t] \in Nat /\ list_len[t] \in Nat /\ cnt[t] \in Nat
  BY ListAssumption DEF TypeOK, MaxCount
<1>4. pc[t] \in InsertPhase => MeasuredLists(t) = {}
  BY DEF MeasuredLists, InsertPhase, DeletePhase, InsertLabels, DeleteLabels
<1>5. pc[t] \in DeletePhase => MeasuredLists(t) = Lists
  BY DEF MeasuredLists
<1> USE DEF Counted, InsertPhase, InsertLabels, DeletePhase, DeleteLabels, TypeOK, GoTo,
            SetIndex
<1>6. CASE LengthReturn(t, i[t])
  <2>1. i' = i /\ list_len' = list_len
    BY <1>6 DEF ThreadStep, OwnStep, CallStep, Fail, BeginInsert, EndInsert, InsertsDone,
       BeginLength, EndLength, LengthsDone, AcquireGlobal, AddLength, BeginDelete,
       EndDelete, DeletesDone, LengthReturn
  <2>2. pc[t] = "lengthScan" /\ pc'[t] = "counted" /\ cnt' = cnt
    BY <1>6 DEF LengthReturn
  <2>3. i[t] \in Lists
    BY <2>2 DEF IInv, IndexInv, LengthLabels
  <2>4. MeasuredLists(t) = {l \in Lists : l < i[t]}
    BY <1>2, <2>2 DEF MeasuredLists
  <2>5. MeasuredLists(t)' = {l \in Lists : l < i[t] \/ l = i[t]}
    BY <1>2, <2>1, <2>2 DEF MeasuredLists, Lists
  <2>6. TotalLength(t) = list_len[t] /\ TotalLength(t)' = list_len[t] + cnt[t]
    BY <1>3, <2>1, <2>2 DEF TotalLength
  <2> QED  BY <1>1, <1>2, <1>3, <1>6, <2>3, <2>4, <2>5, <2>6
<1>7. CASE ~LengthReturn(t, i[t])
  <2> SUFFICES MeasuredLists(t)' = MeasuredLists(t) /\ TotalLength(t)' = TotalLength(t)
    BY <1>1, <1>7
  <2>1. ASSUME pc'[t] \in InsertPhase, list_len'[t] = list_len[t], pc[t] \in InsertPhase
        PROVE  MeasuredLists(t)' = MeasuredLists(t) /\ TotalLength(t)' = TotalLength(t)
    BY <1>3, <2>1 DEF MeasuredLists, TotalLength, Lists
  <2>2. ASSUME pc'[t] \in DeletePhase, list_len'[t] = list_len[t], pc[t] \in DeletePhase
        PROVE  MeasuredLists(t)' = MeasuredLists(t) /\ TotalLength(t)' = TotalLength(t)
    BY <1>3, <2>2 DEF MeasuredLists, TotalLength, Lists
  <2>3. CASE BeginInsert(t) \/ EndInsert(t) \/ InsertStep(t, ListOf(i[t]), i[t])
    <3>1. pc[t] \in InsertPhase /\ pc'[t] \in InsertPhase
      BY <2>3 DEF BeginInsert, EndInsert, InsertStep, InsertEntry, InsertPast,
         InsertLinkElement, InsertLinkPrev, InsertLinkCur, StartWalk
    <3>2. list_len' = list_len
      BY <2>3 DEF BeginInsert, EndInsert, InsertStep, InsertEntry, InsertPast,
         InsertLinkElement, InsertLinkPrev, InsertLinkCur, StartWalk, ThreadStep, OwnStep,
         CallStep, Fail, InsertsDone, BeginLength, EndLength, LengthsDone, AcquireGlobal,
         AddLength, BeginDelete, EndDelete, DeletesDone
    <3> QED  BY <2>1, <3>1, <3>2
  <2>4. CASE \/ BeginDelete(t) \/ EndDelete(t) \/ DeletesDone(t) \/ Fail(t)
             \/ LookupStep(t, ListOf(i[t]), i[t]) \/ DeleteStep(t)
    <3>1. pc[t] \in DeletePhase /\ pc'[t] \in DeletePhase
      BY <2>4 DEF BeginDelete, EndDelete, DeletesDone, Fail, listVars, LookupStep,
         LookupEntry, LookupNext, LookupHit, LookupMiss, DeleteStep, DeleteCheck,
         DeleteUnlinkNext, DeleteUnlinkPrev, StartWalk
    <3>2. list_len' = list_len
      BY <2>4 DEF BeginDelete, EndDelete, DeletesDone, Fail, LookupStep,
         LookupEntry, LookupNext, LookupHit, LookupMiss, DeleteStep, DeleteCheck,
         DeleteUnlinkNext, DeleteUnlinkPrev, StartWalk, ThreadStep, OwnStep,
         CallStep, BeginInsert, EndInsert, InsertsDone, BeginLength, EndLength,
         LengthsDone, AcquireGlobal, AddLength
    <3> QED  BY <2>2, <3>1, <3>2
  <2>5. CASE InsertsDone(t)
    <3>1. MeasuredLists(t)' = {}
      BY <1>2, <2>5 DEF InsertsDone, MeasuredLists, Lists
    <3>2. TotalLength(t)' = TotalLength(t)
      BY <2>5 DEF InsertsDone, TotalLength
    <3> QED  BY <1>4, <2>5, <3>1, <3>2 DEF InsertsDone
  <2>6. CASE LengthsDone(t)
    <3>1. MeasuredLists(t) = Lists
      BY <1>2, <1>3, <2>6, ListAssumption DEF LengthsDone, MeasuredLists
    <3>2. MeasuredLists(t)' = Lists
      BY <2>6 DEF LengthsDone, MeasuredLists, Lists
    <3>3. TotalLength(t)' = TotalLength(t)
      BY <2>6 DEF LengthsDone, TotalLength
    <3> QED  BY <3>1, <3>2, <3>3
  <2>7. CASE AddLength(t)
    <3>1. MeasuredLists(t) = {l \in Lists : l < i[t] \/ l = i[t]}
      BY <2>7 DEF AddLength, MeasuredLists
    <3>2. MeasuredLists(t)' = {l \in Lists : l < i[t] + 1}
      BY <2>7 DEF AddLength, MeasuredLists, Lists
    <3>3. TotalLength(t)' = TotalLength(t)
      BY <1>3, <2>7 DEF AddLength, TotalLength
    <3> QED  BY <1>2, <1>3, <3>1, <3>2, <3>3
  <2>8. CASE BeginLength(t) \/ EndLength(t) \/ AcquireGlobal(t)
    BY <1>2, <2>8 DEF BeginLength, EndLength, AcquireGlobal, MeasuredLists, TotalLength, Lists
  <2>9. CASE (LengthEntry(t, i[t]) \/ LengthNext(t, i[t])) /\ i' = i /\ list_len' = list_len
    BY <1>2, <2>9 DEF LengthEntry, LengthNext, StartWalk, MeasuredLists, TotalLength, Lists
  <2> QED  BY <1>7, <2>3, <2>4, <2>5, <2>6, <2>7, <2>8, <2>9
           DEF ThreadStep, OwnStep, CallStep, LengthStep
<1> QED  BY <1>6, <1>7

-----------------------------------------------------------------------------
(* The steps of the holder of a list.                                        *)

\* The nodes of a circle are different, and only elements lie within.
LEMMA CircleNodes ==
  ASSUME NEW l \in Lists, NEW n \in Nat, NEW r, Circle(l, n, r)
  PROVE  /\ r \in [0..n+1 -> Nodes] /\ r[0] = ListHead(l) /\ r[n+1] = ListHead(l)
         /\ \A k \in 1..n : r[k] \in Elements /\ r[k] # ListHead(l) /\ ListOf(r[k]) = l
         /\ \A j, k \in 0..n : j # k => r[j] # r[k]
         /\ \A j, k \in 1..n+1 : j # k => r[j] # r[k]
         /\ \A k \in 0..n : next[r[k]] = r[k+1]
         /\ n <= OpNum
<1>1. \A k \in 1..n : r[k] \in Elements /\ ListOf(r[k]) = l
  BY DEF Circle, InsertedElements
<1>2. \A x \in Elements : x # ListHead(l)
  BY NodeFacts
<1>3. \A j, k \in 1..n : j # k => r[j] # r[k]
  BY DEF Circle
<1>4. r[0] = ListHead(l) /\ r[n+1] = ListHead(l)
  BY DEF Circle
<1>5. \A j, k \in 0..n : j # k => r[j] # r[k]
  <2> SUFFICES ASSUME NEW j \in 0..n, NEW k \in 0..n, j # k PROVE r[j] # r[k]
    OBVIOUS
  <2>1. CASE j = 0
    BY <1>1, <1>2, <1>4, <2>1
  <2>2. CASE k = 0
    BY <1>1, <1>2, <1>4, <2>2
  <2>3. CASE j # 0 /\ k # 0
    BY <1>3, <2>3
  <2> QED  BY <2>1, <2>2, <2>3
<1>6. \A j, k \in 1..n+1 : j # k => r[j] # r[k]
  <2> SUFFICES ASSUME NEW j \in 1..n+1, NEW k \in 1..n+1, j # k PROVE r[j] # r[k]
    OBVIOUS
  <2>1. CASE j = n+1
    BY <1>1, <1>2, <1>4, <2>1
  <2>2. CASE k = n+1
    BY <1>1, <1>2, <1>4, <2>2
  <2>3. CASE j # n+1 /\ k # n+1
    BY <1>3, <2>3
  <2> QED  BY <2>1, <2>2, <2>3
<1>7. n <= OpNum
  <2> DEFINE c == [k \in 1..n |-> r[k]]
  <2>1. c \in Injection(1..n, Elements)
    BY <1>1, <1>3 DEF Injection, IsInjective
  <2>2. IsFiniteSet(Elements) /\ Cardinality(Elements) = OpNum
    BY FS_Interval, ListAssumption DEF Elements
  <2>3. Cardinality(1..n) = n
    BY FS_Interval
  <2> HIDE DEF c
  <2> QED  BY <2>1, <2>2, <2>3, FS_Injection
<1> QED  BY <1>1, <1>2, <1>4, <1>5, <1>6, <1>7 DEF Circle

\* After the step of agent a, list l is a circle of the elements S on which a stands.
Moved(a, l, S) == \E m \in Nat : \E s : /\ Circle(l, m, s)'
                                        /\ Stands(a, l, m, s)'
                                        /\ On(m, s) = S

\* A circle none of whose links is written stays one.
LEMMA CircleStays ==
  ASSUME NEW l \in Lists, NEW n \in Nat, NEW r, Circle(l, n, r), key' = key,
         InsertedElements \subseteq InsertedElements',
         \A k \in 0..n : next'[r[k]] = next[r[k]]
  PROVE  Circle(l, n, r)'
  BY DEF Circle, ListOf, Nodes, Elements, Heads, Lists, ListHead

\* The statements of SortedList.c that write no link.
WalkStep(a, l, e) == \/ InsertEntry(a, l) \/ InsertPast(a, l, e)
                     \/ LookupStep(a, l, e) \/ DeleteCheck(a) \/ LengthStep(a, l)

\* A walk that writes no link stays on the circle.
LEMMA WalkMoves ==
  ASSUME TypeOK, LoopInv, NEW a \in Agents, NEW l \in Lists, NEW n \in Nat, NEW r,
         Circle(l, n, r), Stands(a, l, n, r),
         pc[a] \in InsertLabels => i[a] \in Elements,
         InsertedElements \subseteq InsertedElements', i' = i,
         WalkStep(a, l, i[a])
  PROVE  Circle(l, n, r)' /\ Stands(a, l, n, r)'
<1> USE DEF WalkStep
<1>1. UNCHANGED <<next, prev, key>>
  BY DEF InsertEntry, InsertPast, LookupStep, LookupEntry, LookupNext, LookupHit,
         LookupMiss, DeleteCheck, LengthStep, LengthEntry, LengthNext, LengthReturn,
         StartWalk, links
<1>2. Circle(l, n, r)'
  BY <1>1, CircleStays
<1>3. /\ \A k \in 1..n : r[k] # ListHead(l) /\ r[k] \in Elements
      /\ r[0] = ListHead(l) /\ r[n+1] = ListHead(l)
      /\ \A k \in 0..n : next[r[k]] = r[k+1]
      /\ n <= OpNum /\ OpNum \in Nat
  BY CircleNodes, ListAssumption
<1>4. BackLinksBut(n, r, 0) <=> BackLinksBut(n, r, 0)'
  BY <1>1 DEF BackLinksBut
<1>5. BackLinksBut(n, r, 0)
  BY DEF Stands, MidUpdate, InsertEntry, InsertPast, LookupStep, LookupEntry, LookupNext,
         LookupHit, LookupMiss, DeleteCheck, LengthStep, LengthEntry, LengthNext,
         LengthReturn, StartWalk
<1>6. Keys \subseteq Nat
  BY ListAssumption
<1> USE <1>1, <1>4, <1>5 DEF Stands, MidUpdate, TypeOK, GoTo, SetCur
<1>7. CASE InsertEntry(a, l)
  <2>1. pc'[a] = "insertScan" /\ cur'[a] = r[1]
    BY <1>3, <1>7 DEF InsertEntry, StartWalk
  <2>2. 1 \in 1..n+1 /\ \A j \in 1..0 : key[r[j]] < key[i[a]]
    OBVIOUS
  <2> QED  BY <1>2, <2>1, <2>2
<1>8. CASE InsertPast(a, l, i[a])
  <2>1. PICK p \in 1..n+1 : cur[a] = r[p] /\ \A j \in 1..p-1 : key[r[j]] < key[i[a]]
    BY <1>8 DEF InsertPast
  <2>2. cur[a] # ListHead(l) /\ ~(key[i[a]] <= key[cur[a]])
    BY <1>8 DEF InsertPast, InsertBefore
  <2>3. p \in 1..n
    BY <1>3, <2>1, <2>2
  <2>4. key[i[a]] \in Nat /\ key[r[p]] \in Nat
    BY <1>3, <1>6, <1>8, <2>3 DEF InsertPast, InsertLabels
  <2>5. pc'[a] = "insertScan" /\ cur'[a] = r[p+1]
    BY <1>3, <1>8, <2>1, <2>3 DEF InsertPast
  <2>6. \A j \in 1..(p+1)-1 : key[r[j]] < key[i[a]]
    BY <2>1, <2>2, <2>3, <2>4
  <2>7. p + 1 \in 1..n+1
    BY <2>3
  <2> QED  BY <1>2, <2>5, <2>6, <2>7
<1>9. CASE LookupEntry(a, l)
  <2>1. pc'[a] = "lookupScan" /\ cur'[a] = r[1]
    BY <1>3, <1>9 DEF LookupEntry, StartWalk
  <2>2. 1 \in 1..n+1 /\ \A j \in 1..1-1 : key[r[j]] # key[i[a]]
    OBVIOUS
  <2> QED  BY <1>2, <2>1, <2>2
<1>10. CASE LookupNext(a, l, i[a]) \/ LookupHit(a, l, i[a])
  <2>1. PICK p \in 1..n+1 : cur[a] = r[p] /\ \A j \in 1..p-1 : key[r[j]] # key[i[a]]
    BY <1>10 DEF LookupNext, LookupHit
  <2>2. p \in 1..n
    BY <1>3, <1>10, <2>1 DEF LookupNext, LookupHit
  <2>3. CASE LookupNext(a, l, i[a])
    <3>1. pc'[a] = "lookupScan" /\ cur'[a] = r[p+1] /\ p + 1 \in 1..n+1
      BY <1>3, <2>1, <2>2, <2>3 DEF LookupNext
    <3>2. \A j \in 1..(p+1)-1 : key[r[j]] # key[i[a]]
      BY <2>1, <2>2, <2>3 DEF LookupNext
    <3> QED  BY <1>2, <3>1, <3>2
  <2>4. CASE LookupHit(a, l, i[a])
    <3>1. pc'[a] = "delete" /\ cur'[a] = r[p] /\ key[r[p]] = key[i[a]]
      BY <2>1, <2>4 DEF LookupHit
    <3> QED  BY <1>2, <2>2, <3>1
  <2> QED  BY <1>10, <2>3, <2>4
<1>11. CASE LookupMiss(a, l)
  BY <1>2, <1>11 DEF LookupMiss
<1>12. CASE DeleteCheck(a)
  <2>1. PICK p \in 1..n : cur[a] = r[p] /\ key[r[p]] = key[i[a]]
    BY <1>12 DEF DeleteCheck
  <2>2. pc'[a] \in {"deleteNext", "failed"} /\ cur'[a] = r[p]
    BY <1>12, <2>1 DEF DeleteCheck
  <2> QED  BY <1>2, <2>1, <2>2
<1>13. CASE LengthEntry(a, l)
  <2>1. pc'[a] = "lengthScan" /\ cur'[a] = r[1] /\ cnt'[a] = 0
    BY <1>3, <1>13 DEF LengthEntry, StartWalk, LoopInv
  <2>2. 1 \in 1..n+1 /\ 0 = 1 - 1
    OBVIOUS
  <2> QED  BY <1>2, <2>1, <2>2
<1>14. CASE LengthNext(a, l) \/ LengthReturn(a, l)
  <2>1. PICK p \in 1..n+1 : cur[a] = r[p] /\ cnt[a] = p - 1
    BY <1>14 DEF LengthNext, LengthReturn
  <2>2. CASE LengthNext(a, l)
    <3>1. p \in 1..n
      BY <1>3, <2>1, <2>2 DEF LengthNext
    <3>2. cnt[a] < MaxCount
      BY <1>3, <2>1, <3>1 DEF MaxCount
    <3>3. pc'[a] = "lengthScan" /\ cur'[a] = r[p+1]
      BY <1>3, <2>1, <2>2, <3>1 DEF LengthNext
    <3>4. cnt'[a] = (p + 1) - 1 /\ p + 1 \in 1..n+1
      BY <2>1, <2>2, <3>1, <3>2 DEF LengthNext
    <3> QED  BY <1>2, <3>3, <3>4
  <2>3. CASE LengthReturn(a, l)
    <3>1. p = n + 1
      BY <1>3, <2>1, <2>3 DEF LengthReturn
    <3>2. pc'[a] = "counted" /\ cnt'[a] = n
      BY <2>1, <2>3, <3>1 DEF LengthReturn
    <3> QED  BY <1>2, <3>2
  <2> QED  BY <1>14, <2>2, <2>3
<1> QED  BY <1>7, <1>8, <1>9, <1>10, <1>11, <1>12, <1>13, <1>14 DEF LookupStep, LengthStep

\* The check of SortedList_delete never fails on a circle (SortedList.c:46).
LEMMA CheckPasses ==
  ASSUME NEW a \in Agents, NEW l \in Lists, NEW n \in Nat, NEW r,
         Circle(l, n, r), Stands(a, l, n, r), pc[a] = "delete"
  PROVE  prev[next[cur[a]]] = next[prev[cur[a]]]
<1>1. PICK p \in 1..n : cur[a] = r[p]
  BY DEF Stands
<1>2. next[r[p]] = r[p+1] /\ next[r[p-1]] = r[p]
  BY DEF Circle
<1>3. prev[r[p]] = r[p-1] /\ prev[r[p+1]] = r[p]
  BY DEF Stands, MidUpdate, BackLinksBut
<1> QED  BY <1>1, <1>2, <1>3

\* The links of an element are written before anything leads to it.
LEMMA LinkElementMoves ==
  ASSUME TypeOK, NEW a \in Agents, NEW l \in Lists, NEW n \in Nat, NEW r,
         Circle(l, n, r), Stands(a, l, n, r),
         i[a] \in Elements \ InsertedElements, i' = i, InsertedElements' = InsertedElements,
         InsertLinkElement(a, l, i[a])
  PROVE  Circle(l, n, r)' /\ Stands(a, l, n, r)'
<1> DEFINE e == i[a]
<1>1. /\ r \in [0..n+1 -> Nodes] /\ r[0] = ListHead(l) /\ r[n+1] = ListHead(l)
      /\ \A k \in 1..n : r[k] \in Elements
      /\ e # ListHead(l) /\ e \in Nodes
  BY CircleNodes, NodeFacts
<1>2. \A k \in 0..n+1 : r[k] # e
  <2> SUFFICES ASSUME NEW k \in 0..n+1 PROVE r[k] # e
    OBVIOUS
  <2>1. CASE k \in 1..n
    BY <2>1 DEF Circle
  <2>2. CASE k = 0 \/ k = n + 1
    BY <1>1, <2>2
  <2> QED  BY <2>1, <2>2
<1>3. BackLinksBut(n, r, 0)
  BY DEF Stands, MidUpdate, InsertLinkElement
<1>4. PICK p \in 1..n+1 : cur[a] = r[p] /\ \A j \in 1..p-1 : key[r[j]] < key[e]
  BY DEF Stands, InsertLinkElement
<1>5. prev[r[p]] = r[p-1]
  BY <1>3 DEF BackLinksBut
<1>6. /\ next' = [next EXCEPT ![e] = r[p]]
      /\ prev' = [prev EXCEPT ![e] = r[p-1]]
      /\ pc'[a] = "insertPrev" /\ cur'[a] = r[p] /\ key' = key
  BY <1>4, <1>5 DEF InsertLinkElement, GoTo, TypeOK
<1>7. \A k \in 0..n+1 : next'[r[k]] = next[r[k]] /\ prev'[r[k]] = prev[r[k]]
  BY <1>1, <1>2, <1>6 DEF TypeOK
<1>8. next'[e] = r[p] /\ prev'[e] = r[p-1]
  BY <1>1, <1>6 DEF TypeOK
<1>9. \A j \in p..n : key[e] <= key[r[j]]
  <2> SUFFICES ASSUME NEW j \in p..n PROVE key[e] <= key[r[j]]
    OBVIOUS
  <2>1. p \in 1..n /\ j \in 1..n
    OBVIOUS
  <2>2. r[p] # ListHead(l)
    BY <2>1, CircleNodes
  <2>3. key[e] <= key[r[p]]
    BY <1>4, <2>2 DEF InsertLinkElement, InsertBefore
  <2>4. p = j \/ key[r[p]] <= key[r[j]]
    BY <2>1 DEF Circle
  <2>5. key[e] \in Nat /\ key[r[p]] \in Nat /\ key[r[j]] \in Nat
    BY <1>1, <2>1, ListAssumption DEF TypeOK
  <2> QED  BY <2>3, <2>4, <2>5
<1>10. \A j \in 1..p-1 : key[r[j]] <= key[e]
  <2> SUFFICES ASSUME NEW j \in 1..p-1 PROVE key[r[j]] <= key[e]
    OBVIOUS
  <2>1. key[e] \in Nat /\ key[r[j]] \in Nat
    <3>1. j \in 1..n
      OBVIOUS
    <3> QED  BY <1>1, <3>1, ListAssumption DEF TypeOK
  <2> QED  BY <1>4, <2>1
<1>11. Circle(l, n, r)'
  BY <1>6, <1>7, CircleStays
<1>12. BackLinksBut(n, r, 0)'
  BY <1>3, <1>7 DEF BackLinksBut
<1> QED  BY <1>6, <1>8, <1>9, <1>10, <1>11, <1>12 DEF Stands, MidUpdate

\* Writing next of the predecessor puts the element on the circle.
LEMMA LinkPrevMoves ==
  ASSUME TypeOK, NEW a \in Agents, NEW l \in Lists, NEW n \in Nat, NEW r,
         Circle(l, n, r), Stands(a, l, n, r),
         NEW e \in Elements \ InsertedElements, e = i[a], i' = i, ListOf(e) = l,
         InsertedElements' = InsertedElements \cup {e},
         InsertLinkPrev(a, e)
  PROVE  Moved(a, l, On(n, r) \cup {e})
<1>1. /\ r \in [0..n+1 -> Nodes] /\ r[0] = ListHead(l) /\ r[n+1] = ListHead(l)
      /\ \A k \in 1..n : r[k] \in Elements
      /\ \A j, k \in 0..n : j # k => r[j] # r[k]
      /\ \A k \in 0..n : next[r[k]] = r[k+1]
      /\ e # ListHead(l) /\ e \in Nodes
  <2>1. e # ListHead(l) /\ e \in Nodes
    BY NodeFacts
  <2> QED  BY <2>1, CircleNodes
<1>2. \A k \in 0..n+1 : r[k] # e
  <2> SUFFICES ASSUME NEW k \in 0..n+1 PROVE r[k] # e
    OBVIOUS
  <2>1. CASE k \in 1..n
    BY <2>1 DEF Circle
  <2>2. CASE k = 0 \/ k = n + 1
    BY <1>1, <2>2
  <2> QED  BY <2>1, <2>2
<1>3. BackLinksBut(n, r, 0)
  BY DEF Stands, MidUpdate, InsertLinkPrev
<1>4. PICK p \in 1..n+1 : /\ cur[a] = r[p]
                          /\ next[e] = r[p] /\ prev[e] = r[p-1]
                          /\ \A j \in 1..p-1 : key[r[j]] <= key[e]
                          /\ \A j \in p..n : key[e] <= key[r[j]]
  BY DEF Stands, InsertLinkPrev
<1>5. prev[r[p]] = r[p-1]
  BY <1>3 DEF BackLinksBut
<1>6. /\ next' = [next EXCEPT ![r[p-1]] = e] /\ prev' = prev
      /\ pc'[a] = "insertCur" /\ cur'[a] = r[p] /\ key' = key
  BY <1>4, <1>5 DEF InsertLinkPrev, GoTo, TypeOK
<1> DEFINE s == [k \in 0..n+2 |-> IF k < p THEN r[k] ELSE IF k = p THEN e ELSE r[k-1]]
<1>7. n + 1 \in Nat /\ (n + 1) + 1 = n + 2 /\ p \in 1..n+1
  OBVIOUS
<1>8. /\ s \in [0..(n+1)+1 -> Nodes] /\ s[0] = ListHead(l) /\ s[(n+1)+1] = ListHead(l)
      /\ \A k \in 0..p-1 : s[k] = r[k]
      /\ s[p] = e
      /\ \A k \in p+1..n+2 : s[k] = r[k-1]
  <2>1. \A k \in 0..n+2 : s[k] \in Nodes
    <3> SUFFICES ASSUME NEW k \in 0..n+2 PROVE s[k] \in Nodes
      OBVIOUS
    <3>1. k < p => k \in 0..n+1
      OBVIOUS
    <3>2. k > p => k - 1 \in 0..n+1
      OBVIOUS
    <3> QED  BY <1>1, <3>1, <3>2
  <2>2. s[0] = r[0] /\ s[n+2] = r[n+1]
    BY <1>7
  <2> QED  BY <1>1, <1>7, <2>1, <2>2
<1> HIDE DEF s
<1>9. \A k \in 1..n+1 : s[k] \in InsertedElements' /\ ListOf(s[k])' = l
  <2> SUFFICES ASSUME NEW k \in 1..n+1 PROVE s[k] \in InsertedElements' /\ ListOf(s[k])' = l
    OBVIOUS
  <2>1. \A j \in 1..n : r[j] \in InsertedElements /\ ListOf(r[j]) = l
    BY DEF Circle
  <2>2. CASE k < p
    BY <1>6, <1>8, <2>1, <2>2 DEF ListOf
  <2>3. CASE k = p
    BY <1>6, <1>8, <2>3 DEF ListOf
  <2>4. CASE k > p
    <3>1. k - 1 \in 1..n /\ s[k] = r[k-1]
      BY <1>8, <2>4
    <3> QED  BY <1>6, <2>1, <3>1 DEF ListOf
  <2> QED  BY <2>2, <2>3, <2>4
<1>10. \A j, k \in 1..n+1 : j < k => s[j] # s[k] /\ key[s[j]] <= key[s[k]]
  <2> SUFFICES ASSUME NEW j \in 1..n+1, NEW k \in 1..n+1, j < k
               PROVE  s[j] # s[k] /\ key[s[j]] <= key[s[k]]
    OBVIOUS
  <2>1. \A u, v \in 1..n : u < v => r[u] # r[v] /\ key[r[u]] <= key[r[v]]
    BY DEF Circle
  <2>2. CASE k < p
    BY <1>8, <2>1, <2>2
  <2>3. CASE k = p
    <3>1. j \in 1..p-1 /\ s[j] = r[j] /\ s[k] = e
      BY <1>8, <2>3
    <3> QED  BY <1>2, <1>4, <3>1
  <2>4. CASE k > p /\ j = p
    <3>1. k - 1 \in p..n /\ s[k] = r[k-1] /\ s[j] = e
      BY <1>8, <2>4
    <3> QED  BY <1>2, <1>4, <3>1
  <2>5. CASE k > p /\ j < p
    <3>1. k - 1 \in 1..n /\ j \in 1..n /\ j < k - 1 /\ s[k] = r[k-1] /\ s[j] = r[j]
      BY <1>8, <2>5
    <3> QED  BY <2>1, <3>1
  <2>6. CASE k > p /\ j > p
    <3>1. k - 1 \in 1..n /\ j - 1 \in 1..n /\ j - 1 < k - 1 /\ s[k] = r[k-1] /\ s[j] = r[j-1]
      BY <1>8, <2>6
    <3> QED  BY <2>1, <3>1
  <2> QED  BY <2>2, <2>3, <2>4, <2>5, <2>6
<1>11. \A k \in 0..n+1 : next'[s[k]] = s[k+1]
  <2> SUFFICES ASSUME NEW k \in 0..n+1 PROVE next'[s[k]] = s[k+1]
    OBVIOUS
  <2>1. next'[r[p-1]] = e /\ next'[e] = r[p]
    BY <1>1, <1>2, <1>4, <1>6 DEF TypeOK
  <2>2. \A j \in 0..n : j # p-1 => next'[r[j]] = r[j+1]
    BY <1>1, <1>6 DEF TypeOK
  <2>3. CASE k < p-1
    BY <1>8, <2>2, <2>3
  <2>4. CASE k = p-1
    BY <1>8, <2>1, <2>4
  <2>5. CASE k = p
    BY <1>8, <2>1, <2>5
  <2>6. CASE k > p
    <3>1. k - 1 \in 0..n /\ k - 1 # p - 1 /\ s[k] = r[k-1] /\ s[k+1] = r[k]
      BY <1>8, <2>6
    <3> QED  BY <2>2, <3>1
  <2> QED  BY <2>3, <2>4, <2>5, <2>6
<1>12. Circle(l, n+1, s)'
  BY <1>6, <1>7, <1>8, <1>9, <1>10, <1>11
  DEF Circle, Nodes, Elements, Heads, Lists, ListHead
<1>13. BackLinksBut(n+1, s, p+1)'
  <2> SUFFICES ASSUME NEW k \in 1..n+2, k # p+1 PROVE prev[s[k]] = s[k-1]
    BY <1>6, <1>7 DEF BackLinksBut
  <2>1. \A j \in 1..n+1 : prev[r[j]] = r[j-1]
    BY <1>3 DEF BackLinksBut
  <2>2. CASE k < p
    BY <1>8, <2>1, <2>2
  <2>3. CASE k = p
    BY <1>4, <1>8, <2>3
  <2>4. CASE k > p
    <3>1. k - 1 \in 1..n+1 /\ s[k] = r[k-1] /\ s[k-1] = r[k-2] /\ (k-1)-1 = k-2
      BY <1>8, <2>4
    <3> QED  BY <2>1, <3>1
  <2> QED  BY <2>2, <2>3, <2>4
<1>14. Stands(a, l, n+1, s)'
  <2>1. s[p+1] = r[p] /\ s[p] = e /\ p \in 1..n+1
    BY <1>7, <1>8
  <2> QED  BY <1>6, <1>13, <2>1 DEF Stands, MidUpdate
<1>15. On(n+1, s) = On(n, r) \cup {e}
  <2>1. ASSUME NEW x \in On(n+1, s) PROVE x \in On(n, r) \cup {e}
    <3>1. PICK k \in 1..n+1 : x = s[k]
      BY <2>1 DEF On
    <3>2. k > p => s[k] = r[k-1] /\ k - 1 \in 1..n
      BY <1>8
    <3>3. k < p => s[k] = r[k] /\ k \in 1..n
      BY <1>8
    <3> QED  BY <1>8, <3>1, <3>2, <3>3 DEF On
  <2>2. ASSUME NEW x \in On(n, r) PROVE x \in On(n+1, s)
    <3>1. PICK k \in 1..n : x = r[k]
      BY <2>2 DEF On
    <3>2. k < p => s[k] = r[k] /\ k \in 1..n+1
      BY <1>8
    <3>3. k >= p => s[k+1] = r[k] /\ k + 1 \in 1..n+1
      BY <1>8
    <3> QED  BY <3>1, <3>2, <3>3 DEF On
  <2>3. e \in On(n+1, s)
    BY <1>7, <1>8 DEF On
  <2> QED  BY <2>1, <2>2, <2>3
<1> QED  BY <1>7, <1>12, <1>14, <1>15 DEF Moved

\* Writing prev of the successor completes an insertion.
LEMMA LinkCurMoves ==
  ASSUME TypeOK, NEW a \in Agents, NEW l \in Lists, NEW n \in Nat, NEW r,
         Circle(l, n, r), Stands(a, l, n, r), i' = i,
         InsertedElements' = InsertedElements, InsertLinkCur(a, i[a])
  PROVE  Circle(l, n, r)' /\ Stands(a, l, n, r)'
<1>1. PICK p \in 1..n : r[p] = i[a] /\ cur[a] = r[p+1] /\ BackLinksBut(n, r, p + 1)
  BY DEF Stands, InsertLinkCur
<1>2. /\ next' = next /\ prev' = [prev EXCEPT ![r[p+1]] = r[p]]
      /\ pc'[a] = "inserted" /\ key' = key
  <2>1. prev' = [prev EXCEPT ![cur[a]] = i[a]] /\ pc'[a] = "inserted"
    BY DEF InsertLinkCur, GoTo, TypeOK
  <2>2. next' = next /\ key' = key
    BY DEF InsertLinkCur
  <2> QED  BY <1>1, <2>1, <2>2
<1>3. /\ r \in [0..n+1 -> Nodes]
      /\ \A j, k \in 1..n+1 : j # k => r[j] # r[k]
  BY ONLY l \in Lists, n \in Nat, Circle(l, n, r), CircleNodes
<1>4. BackLinksBut(n, r, 0)'
  <2> SUFFICES ASSUME NEW k \in 1..n+1 PROVE prev'[r[k]] = r[k-1]
    BY DEF BackLinksBut
  <2>1. p + 1 \in 1..n+1 /\ (p+1)-1 = p
    OBVIOUS
  <2>2. CASE k = p + 1
    BY <1>2, <1>3, <2>1, <2>2 DEF TypeOK
  <2>3. CASE k # p + 1
    BY <1>1, <1>2, <1>3, <2>1, <2>3 DEF TypeOK, BackLinksBut
  <2> QED  BY <2>2, <2>3
<1>5. Circle(l, n, r)'
  BY <1>2, CircleStays
<1> QED  BY <1>2, <1>4, <1>5 DEF Stands, MidUpdate

\* Writing next of the predecessor takes an element with the wanted key off.
LEMMA UnlinkNextMoves ==
  ASSUME TypeOK, NEW a \in Agents, NEW l \in Lists, NEW n \in Nat, NEW r,
         Circle(l, n, r), Stands(a, l, n, r), i' = i,
         InsertedElements' = InsertedElements, DeleteUnlinkNext(a)
  PROVE  \E v \in On(n, r) : key[v] = key[i[a]] /\ Moved(a, l, On(n, r) \ {v})
<1>1. /\ r \in [0..n+1 -> Nodes] /\ r[0] = ListHead(l) /\ r[n+1] = ListHead(l)
      /\ \A k \in 1..n : r[k] \in Elements
      /\ \A j, k \in 0..n : j # k => r[j] # r[k]
      /\ \A k \in 0..n : next[r[k]] = r[k+1]
  BY CircleNodes, NodeFacts
<1>2. BackLinksBut(n, r, 0)
  BY DEF Stands, MidUpdate, DeleteUnlinkNext
<1>3. PICK p \in 1..n : cur[a] = r[p] /\ key[r[p]] = key[i[a]]
  BY DEF Stands, DeleteUnlinkNext
<1>4. prev[r[p]] = r[p-1] /\ next[r[p]] = r[p+1]
  BY <1>1, <1>2 DEF BackLinksBut
<1>5. /\ next' = [next EXCEPT ![r[p-1]] = r[p+1]] /\ prev' = prev
      /\ pc'[a] = "deletePrev" /\ cur'[a] = r[p] /\ key' = key
  <2>1. pc'[a] = "deletePrev"
    BY DEF DeleteUnlinkNext, GoTo, TypeOK
  <2>2. /\ next' = [next EXCEPT ![prev[cur[a]]] = next[cur[a]]] /\ prev' = prev
        /\ cur' = cur /\ key' = key
    BY DEF DeleteUnlinkNext
  <2> QED  BY <1>3, <1>4, <2>1, <2>2
<1> DEFINE s == [k \in 0..n |-> IF k < p THEN r[k] ELSE r[k+1]]
           m == n - 1
<1>6. m \in Nat /\ m + 1 = n /\ p \in 1..n
  OBVIOUS
<1>7. /\ s \in [0..n -> Nodes] /\ s[0] = ListHead(l) /\ s[n] = ListHead(l)
      /\ \A k \in 0..p-1 : s[k] = r[k]
      /\ \A k \in p..n : s[k] = r[k+1]
  <2>1. \A k \in 0..n : s[k] \in Nodes
    BY <1>1, <1>6
  <2>2. s[0] = r[0] /\ s[n] = r[n+1]
    BY <1>6
  <2> QED  BY <1>1, <1>6, <2>1, <2>2
<1> HIDE DEF s, m
<1>8. \A k \in 1..m : s[k] \in InsertedElements' /\ ListOf(s[k])' = l
  <2> SUFFICES ASSUME NEW k \in 1..m PROVE s[k] \in InsertedElements' /\ ListOf(s[k])' = l
    OBVIOUS
  <2>1. \A j \in 1..n : r[j] \in InsertedElements /\ ListOf(r[j]) = l
    BY DEF Circle
  <2>2. CASE k < p
    <3>1. k \in 1..n /\ s[k] = r[k]
      BY <1>6, <1>7, <2>2
    <3> QED  BY <1>5, <2>1, <3>1 DEF ListOf
  <2>3. CASE k >= p
    <3>1. k + 1 \in 1..n /\ s[k] = r[k+1]
      BY <1>6, <1>7, <2>3
    <3> QED  BY <1>5, <2>1, <3>1 DEF ListOf
  <2> QED  BY <1>6, <2>2, <2>3
<1>9. \A j, k \in 1..m : j < k => s[j] # s[k] /\ key[s[j]] <= key[s[k]]
  <2> SUFFICES ASSUME NEW j \in 1..m, NEW k \in 1..m, j < k
               PROVE  s[j] # s[k] /\ key[s[j]] <= key[s[k]]
    OBVIOUS
  <2>1. \A u, v \in 1..n : u < v => r[u] # r[v] /\ key[r[u]] <= key[r[v]]
    BY DEF Circle
  <2>2. CASE k < p
    <3>1. j \in 1..n /\ k \in 1..n /\ s[j] = r[j] /\ s[k] = r[k]
      BY <1>6, <1>7, <2>2
    <3> QED  BY <2>1, <3>1
  <2>3. CASE k >= p /\ j < p
    <3>1. j \in 1..n /\ k + 1 \in 1..n /\ j < k + 1 /\ s[j] = r[j] /\ s[k] = r[k+1]
      BY <1>6, <1>7, <2>3
    <3> QED  BY <2>1, <3>1
  <2>4. CASE k >= p /\ j >= p
    <3>1. j + 1 \in 1..n /\ k + 1 \in 1..n /\ j + 1 < k + 1 /\ s[j] = r[j+1] /\ s[k] = r[k+1]
      BY <1>6, <1>7, <2>4
    <3> QED  BY <2>1, <3>1
  <2> QED  BY <1>6, <2>2, <2>3, <2>4
<1>10. \A k \in 0..m : next'[s[k]] = s[k+1]
  <2> SUFFICES ASSUME NEW k \in 0..m PROVE next'[s[k]] = s[k+1]
    OBVIOUS
  <2>1. next'[r[p-1]] = r[p+1]
    BY <1>1, <1>5 DEF TypeOK
  <2>2. \A j \in 0..n : j # p-1 => next'[r[j]] = r[j+1]
    BY <1>1, <1>5 DEF TypeOK
  <2>3. CASE k < p-1
    <3>1. k \in 0..n /\ s[k] = r[k] /\ s[k+1] = r[k+1]
      BY <1>6, <1>7, <2>3
    <3> QED  BY <2>2, <2>3, <3>1
  <2>4. CASE k = p-1
    <3>1. s[k] = r[p-1] /\ s[k+1] = r[p+1]
      BY <1>6, <1>7, <2>4
    <3> QED  BY <2>1, <3>1
  <2>5. CASE k > p-1
    <3>1. k+1 \in 0..n /\ k+1 # p-1 /\ s[k] = r[k+1] /\ s[k+1] = r[(k+1)+1]
      BY <1>6, <1>7, <2>5
    <3> QED  BY <2>2, <3>1
  <2> QED  BY <2>3, <2>4, <2>5
<1>11. Circle(l, m, s)'
  BY <1>5, <1>6, <1>7, <1>8, <1>9, <1>10
  DEF Circle, Nodes, Elements, Heads, Lists, ListHead
<1>12. BackLinksBut(m, s, p)'
  <2> SUFFICES ASSUME NEW k \in 1..n, k # p PROVE prev[s[k]] = s[k-1]
    BY <1>5, <1>6 DEF BackLinksBut
  <2>1. \A j \in 1..n+1 : prev[r[j]] = r[j-1]
    BY <1>2 DEF BackLinksBut
  <2>2. CASE k < p
    <3>1. k \in 1..n+1 /\ s[k] = r[k] /\ s[k-1] = r[k-1]
      BY <1>6, <1>7, <2>2
    <3> QED  BY <2>1, <3>1
  <2>3. CASE k > p
    <3>1. k+1 \in 1..n+1 /\ s[k] = r[k+1] /\ s[k-1] = r[k] /\ (k+1)-1 = k
      BY <1>6, <1>7, <2>3
    <3> QED  BY <2>1, <3>1
  <2> QED  BY <2>2, <2>3
<1>13. Stands(a, l, m, s)'
  <2> DEFINE q == p - 1
  <2>1. q \in 0..m /\ q + 1 = p /\ s[q+1] = r[p+1] /\ s[q] = r[p-1]
    BY <1>6, <1>7
  <2> HIDE DEF q
  <2>2. next'[r[p]] = r[p+1] /\ prev'[r[p]] = r[p-1]
    BY <1>1, <1>4, <1>5 DEF TypeOK
  <2>3. r[p] \in Elements' /\ ListOf(r[p])' = l
    BY <1>1, <1>5 DEF Circle, ListOf, Elements
  <2> QED  BY <1>5, <1>12, <2>1, <2>2, <2>3 DEF Stands, MidUpdate
<1>14. On(m, s) = On(n, r) \ {r[p]}
  <2>1. ASSUME NEW x \in On(m, s) PROVE x \in On(n, r) \ {r[p]}
    <3>1. PICK k \in 1..m : x = s[k]
      BY <2>1 DEF On
    <3>2. CASE k < p
      <4>1. k \in 1..n /\ k # p /\ x = r[k]
        BY <1>6, <1>7, <3>1, <3>2
      <4> QED  BY <1>1, <1>6, <4>1 DEF On
    <3>3. CASE k >= p
      <4>1. k+1 \in 1..n /\ k+1 # p /\ x = r[k+1]
        BY <1>6, <1>7, <3>1, <3>3
      <4> QED  BY <1>1, <1>6, <4>1 DEF On
    <3> QED  BY <1>6, <3>2, <3>3
  <2>2. ASSUME NEW x \in On(n, r), x # r[p] PROVE x \in On(m, s)
    <3>1. PICK k \in 1..n : x = r[k] /\ k # p
      BY <2>2 DEF On
    <3>2. CASE k < p
      <4>1. k \in 1..m /\ x = s[k]
        BY <1>6, <1>7, <3>1, <3>2
      <4> QED  BY <4>1 DEF On
    <3>3. CASE k > p
      <4>1. k-1 \in 1..m /\ x = s[k-1]
        BY <1>6, <1>7, <3>1, <3>3
      <4> QED  BY <4>1 DEF On
    <3> QED  BY <3>1, <3>2, <3>3
  <2> QED  BY <2>1, <2>2
<1>15. Moved(a, l, On(n, r) \ {r[p]})
  BY <1>6, <1>11, <1>13, <1>14 DEF Moved
<1> QED  BY <1>3, <1>15 DEF On

\* Writing prev of the successor completes a deletion.
LEMMA UnlinkPrevMoves ==
  ASSUME TypeOK, NEW a \in Agents, NEW l \in Lists, NEW n \in Nat, NEW r,
         Circle(l, n, r), Stands(a, l, n, r), i' = i,
         InsertedElements' = InsertedElements, DeleteUnlinkPrev(a)
  PROVE  Circle(l, n, r)' /\ Stands(a, l, n, r)'
<1>1. PICK p \in 0..n : /\ next[cur[a]] = r[p+1] /\ prev[cur[a]] = r[p]
                        /\ BackLinksBut(n, r, p + 1)
  BY DEF Stands, DeleteUnlinkPrev
<1>2. /\ next' = next /\ prev' = [prev EXCEPT ![r[p+1]] = r[p]]
      /\ pc'[a] = "deleted" /\ key' = key
  <2>1. pc'[a] = "deleted"
    BY DEF DeleteUnlinkPrev, GoTo, TypeOK
  <2>2. /\ next' = next /\ key' = key
        /\ prev' = [prev EXCEPT ![next[cur[a]]] = prev[cur[a]]]
    BY DEF DeleteUnlinkPrev
  <2> QED  BY <1>1, <2>1, <2>2
<1>3. /\ r \in [0..n+1 -> Nodes]
      /\ \A j, k \in 1..n+1 : j # k => r[j] # r[k]
  BY ONLY l \in Lists, n \in Nat, Circle(l, n, r), CircleNodes
<1>4. BackLinksBut(n, r, 0)'
  <2> SUFFICES ASSUME NEW k \in 1..n+1 PROVE prev'[r[k]] = r[k-1]
    BY DEF BackLinksBut
  <2>1. p + 1 \in 1..n+1 /\ (p+1)-1 = p
    OBVIOUS
  <2>2. CASE k = p + 1
    BY <1>2, <1>3, <2>1, <2>2 DEF TypeOK
  <2>3. CASE k # p + 1
    BY <1>1, <1>2, <1>3, <2>1, <2>3 DEF TypeOK, BackLinksBut
  <2> QED  BY <2>2, <2>3
<1>5. Circle(l, n, r)'
  BY <1>2, CircleStays
<1> QED  BY <1>2, <1>4, <1>5 DEF Stands, MidUpdate

-----------------------------------------------------------------------------
(* The other lists.                                                          *)

\* The nodes that may lie on list l.
OfList(l) == {ListHead(l)} \cup {e \in Elements : ListOf(e) = l}

\* A circle of list l runs over nodes of l.
LEMMA CircleOfList ==
  ASSUME NEW l \in Lists, NEW n \in Nat, NEW r, Circle(l, n, r)
  PROVE  \A k \in 0..n+1 : r[k] \in OfList(l)
<1> SUFFICES ASSUME NEW k \in 0..n+1 PROVE r[k] \in OfList(l)
  OBVIOUS
<1>1. CASE k \in 1..n
  BY <1>1, CircleNodes DEF OfList
<1>2. CASE k = 0 \/ k = n + 1
  BY <1>2 DEF Circle, OfList
<1> QED  BY <1>1, <1>2

\* Different lists have no node in common.
LEMMA OfListsDiffer ==
  ASSUME NEW l \in Lists, NEW m \in Lists, l # m
  PROVE  OfList(l) \cap OfList(m) = {}
<1>1. ListHead(l) # ListHead(m)
  BY ListAssumption DEF Lists, ListHead
<1> QED  BY <1>1, NodeFacts DEF OfList

\* Agents work on lists and threads on their own elements.
LEMMA HeldNodes ==
  ASSUME IInv, NEW a \in Agents
  PROVE  /\ pc[a] \in InsertLabels \cup DeleteLabels => i[a] \in Elements /\ ListOf(i[a]) \in Lists
         /\ pc[a] \in LengthLabels => i[a] \in Lists
<1>1. pc[a] \in InsertLabels \cup DeleteLabels => i[a] \in Elements
  BY OpsAssumption DEF IInv, IndexInv, MainLabels, InsertLabels, DeleteLabels, LengthLabels
<1>2. pc[a] \in LengthLabels => i[a] \in Lists
  BY OpsAssumption DEF IInv, IndexInv
<1> QED  BY <1>1, <1>2, ListOfType DEF IInv

\* Where an agent stands does not change while it rests and nobody writes the
\* nodes of its list.
LEMMA StandsStays ==
  ASSUME IInv, NEW l \in Lists, NEW n \in Nat, NEW r, NEW a \in Agents,
         Circle(l, n, r), Stands(a, l, n, r), Holds(a, l),
         pc'[a] = pc[a], cur'[a] = cur[a], i'[a] = i[a], cnt'[a] = cnt[a], key' = key,
         \A x \in OfList(l) : next'[x] = next[x] /\ prev'[x] = prev[x]
  PROVE  Stands(a, l, n, r)'
<1>1. \A k \in 1..n+1 : prev'[r[k]] = prev[r[k]]
  BY CircleOfList
<1>2. \A q \in 0..n+1 : BackLinksBut(n, r, q) => BackLinksBut(n, r, q)'
  BY <1>1 DEF BackLinksBut
<1>3. (~MidUpdate(a) => BackLinksBut(n, r, 0))'
  BY <1>2 DEF Stands, MidUpdate
<1>4. (pc[a] = "insertScan" =>
          \E p \in 1..n+1 : /\ cur[a] = r[p]
                            /\ \A j \in 1..p-1 : key[r[j]] < key[i[a]])'
  BY DEF Stands
<1>5. (pc[a] = "insertPrev" =>
          \E p \in 1..n+1 : /\ cur[a] = r[p]
                            /\ next[i[a]] = r[p] /\ prev[i[a]] = r[p-1]
                            /\ \A j \in 1..p-1 : key[r[j]] <= key[i[a]]
                            /\ \A j \in p..n : key[i[a]] <= key[r[j]])'
  <2>1. CASE pc[a] # "insertPrev"
    BY <2>1
  <2>2. CASE pc[a] = "insertPrev"
    <3>1. i[a] \in OfList(l)
      BY <2>2, HeldNodes DEF Holds, OfList, InsertLabels, DeleteLabels, LengthLabels
    <3>2. PICK p \in 1..n+1 : /\ cur[a] = r[p]
                              /\ next[i[a]] = r[p] /\ prev[i[a]] = r[p-1]
                              /\ \A j \in 1..p-1 : key[r[j]] <= key[i[a]]
                              /\ \A j \in p..n : key[i[a]] <= key[r[j]]
      BY <2>2 DEF Stands
    <3>3. (/\ cur[a] = r[p]
           /\ next[i[a]] = r[p] /\ prev[i[a]] = r[p-1]
           /\ \A j \in 1..p-1 : key[r[j]] <= key[i[a]]
           /\ \A j \in p..n : key[i[a]] <= key[r[j]])'
      BY <3>1, <3>2
    <3> QED  BY ONLY <3>3, p \in 1..n+1
  <2> QED  BY <2>1, <2>2
<1>6. (pc[a] = "insertCur" =>
          \E p \in 1..n : r[p] = i[a] /\ cur[a] = r[p+1] /\ BackLinksBut(n, r, p + 1))'
  <2>1. \A p \in 1..n : BackLinksBut(n, r, p + 1) => BackLinksBut(n, r, p + 1)'
    BY <1>2
  <2> QED  BY <2>1 DEF Stands
<1>7. (pc[a] = "lookupScan" =>
          \E p \in 1..n+1 : /\ cur[a] = r[p]
                            /\ \A j \in 1..p-1 : key[r[j]] # key[i[a]])'
  BY DEF Stands
<1>8. (pc[a] \in {"delete", "deleteNext"} =>
          \E p \in 1..n : cur[a] = r[p] /\ key[r[p]] = key[i[a]])'
  BY DEF Stands
<1>9. (pc[a] = "deletePrev" =>
          \E p \in 0..n : /\ next[cur[a]] = r[p+1] /\ prev[cur[a]] = r[p]
                          /\ cur[a] \in Elements /\ ListOf(cur[a]) = l
                          /\ BackLinksBut(n, r, p + 1))'
  <2> SUFFICES ASSUME pc[a] = "deletePrev"
      PROVE  \E p \in 0..n : /\ next'[cur'[a]] = r[p+1] /\ prev'[cur'[a]] = r[p]
                             /\ cur'[a] \in Elements' /\ ListOf(cur[a])' = l
                             /\ BackLinksBut(n, r, p + 1)'
    OBVIOUS
  <2>1. PICK p \in 0..n : /\ next[cur[a]] = r[p+1] /\ prev[cur[a]] = r[p]
                       /\ cur[a] \in Elements /\ ListOf(cur[a]) = l
                       /\ BackLinksBut(n, r, p + 1)
    BY DEF Stands
  <2>2. p + 1 \in 0..n+1
    OBVIOUS
  <2>3. BackLinksBut(n, r, p + 1)'
    BY <1>2, <2>1, <2>2
  <2>4. cur[a] \in OfList(l)
    BY <2>1 DEF OfList
  <2> QED  BY <2>1, <2>3, <2>4 DEF ListOf, Elements
<1>10. (pc[a] = "lengthScan" => \E p \in 1..n+1 : cur[a] = r[p] /\ cnt[a] = p - 1)'
  BY DEF Stands
<1>11. (pc[a] = "counted" => cnt[a] = n)'
  BY DEF Stands
<1> QED  BY ONLY <1>3, <1>4, <1>5, <1>6, <1>7, <1>8, <1>9, <1>10, <1>11 DEF Stands

\* A circle whose links are not written, while only agent b moves.
LEMMA RingKept ==
  ASSUME IInv, NEW l \in Lists, NEW n \in Nat, NEW r, Ring(l, n, r), NEW b \in Agents,
         \A a \in Agents \ {b} : /\ pc'[a] = pc[a] /\ cur'[a] = cur[a]
                                 /\ i'[a] = i[a] /\ cnt'[a] = cnt[a],
         key' = key, InsertedElements \subseteq InsertedElements',
         \A x \in OfList(l) : next'[x] = next[x] /\ prev'[x] = prev[x],
         Holds(b, l)' => Stands(b, l, n, r)',
         (\A t \in Threads : ~Holds(t, l)') => BackLinksBut(n, r, 0)
  PROVE  Ring(l, n, r)'
<1>1. Circle(l, n, r)'
  <2>1. \A k \in 0..n : next'[r[k]] = next[r[k]]
    BY CircleOfList DEF Ring
  <2> QED  BY <2>1, CircleStays DEF Ring
<1>2. (\A t \in Threads : ~Holds(t, l)') => BackLinksBut(n, r, 0)'
  <2>1. \A k \in 1..n+1 : prev'[r[k]] = prev[r[k]]
    BY CircleOfList DEF Ring
  <2> QED  BY <2>1 DEF BackLinksBut
<1>3. ASSUME NEW a \in Agents, Holds(a, l)' PROVE Stands(a, l, n, r)'
  <2>1. CASE a = b
    BY <1>3, <2>1
  <2>2. CASE a # b
    <3>1. Holds(a, l)
      BY <1>3, <2>2 DEF Holds, ListOf, InsertLabels, DeleteLabels, LengthLabels
    <3>2. Circle(l, n, r) /\ Stands(a, l, n, r)
      BY <3>1 DEF Ring
    <3> QED  BY <2>2, <3>1, <3>2, StandsStays
  <2> QED  BY <2>1, <2>2
<1> QED  BY <1>1, <1>2, <1>3 DEF Ring, Threads

\* Only the holder of a list stands on a circle that has moved.
LEMMA RingMoved ==
  ASSUME NEW l \in Lists, NEW m \in Nat, NEW s, NEW t \in Threads,
         Circle(l, m, s)', Stands(t, l, m, s)', Holds(t, l)',
         \A a \in Agents \ {t} : ~Holds(a, l)'
  PROVE  Ring(l, m, s)'
  BY DEF Ring, Threads

\* No thread counts for another.
LEMMA CountFrame ==
  ASSUME TypeOK, NEW t \in Threads, ThreadStep(t), NEW a \in Agents \ {t}
  PROVE  cnt'[a] = cnt[a]
<1> t \in Agents
  BY AgentFacts
<1> QED  BY DEF TypeOK, ThreadStep, OwnStep, CallStep, Fail, listVars, BeginInsert,
       EndInsert, InsertsDone, BeginLength, EndLength, LengthsDone, AcquireGlobal,
       AddLength, BeginDelete, EndDelete, DeletesDone, InsertStep, InsertEntry,
       InsertPast, InsertLinkElement, InsertLinkPrev, InsertLinkCur, LookupStep,
       LookupEntry, LookupNext, LookupHit, LookupMiss, DeleteStep, DeleteCheck,
       DeleteUnlinkNext, DeleteUnlinkPrev, LengthStep, LengthEntry, LengthNext,
       LengthReturn, StartWalk

\* A thread that has yet to link its element has not inserted it.
LEMMA NotYetInserted ==
  ASSUME IInv, LoopInv, NEW t \in Threads, pc[t] \in {"insert", "insertScan", "insertPrev"}
  PROVE  i[t] \in Elements \ InsertedElements
<1>1. i[t] \in Elements /\ Owner(i[t]) = t
  BY IndexIsOwn DEF InsertLabels
<1>2. i[t] \in Nat
  BY <1>1 DEF Elements
<1> QED  BY <1>1, <1>2 DEF InsertedElements, InsertPhase, InsertLabels

\* Main works on a list when the threads are gone.
LEMMA MainHoldsAlone ==
  ASSUME LoopInv, NEW l, Holds(Main, l), pc[Main] \in MainLabels, NEW t \in Threads
  PROVE  pc[t] = "returned" /\ ~Holds(t, l)
<1>1. pc[Main] \in LengthLabels
  BY DEF Holds, MainLabels, InsertLabels, DeleteLabels, LengthLabels
<1>2. pc[t] = "returned"
  BY <1>1 DEF LoopInv
<1> QED  BY <1>2 DEF Holds, InsertLabels, DeleteLabels, LengthLabels

\* The list that thread t works on in a call.
CallList(t) == IF pc[t] \in LengthLabels THEN i[t] ELSE ListOf(i[t])

LEMMA CallHolds ==
  ASSUME IInv, NEW t \in Threads, CallStep(t)
  PROVE  /\ CallList(t) \in Lists
         /\ \A l \in Lists : Holds(t, l) <=> l = CallList(t)
         /\ \A l \in Lists : Holds(t, l)' <=> l = CallList(t)
<1> t \in Agents /\ TypeOK
  BY AgentFacts DEF IInv
<1>1. /\ pc[t] \in InsertLabels <=> pc'[t] \in InsertLabels
      /\ pc[t] \in LengthLabels <=> pc'[t] \in LengthLabels
      /\ pc[t] \in DeleteLabels <=> pc'[t] \in DeleteLabels
      /\ pc'[t] \in InsertLabels \cup LengthLabels \cup DeleteLabels
  BY CallStaysInside
<1>2. pc[t] \in InsertLabels \cup DeleteLabels => pc[t] \notin LengthLabels
  BY DEF InsertLabels, DeleteLabels, LengthLabels
<1>3. i' = i /\ key' = key
  BY DEF CallStep, StartWalk, InsertStep, InsertEntry, InsertPast, InsertLinkElement,
       InsertLinkPrev, InsertLinkCur, LookupStep, LookupEntry, LookupNext,
       LookupHit, LookupMiss, DeleteStep, DeleteCheck, DeleteUnlinkNext,
       DeleteUnlinkPrev, LengthStep, LengthEntry, LengthNext, LengthReturn
<1>4. ListOf(i[t])' = ListOf(i[t])
  BY <1>3 DEF ListOf
<1>5. \A l : Holds(t, l)' <=> \/ pc'[t] \in InsertLabels \cup DeleteLabels /\ l = ListOf(i[t])'
                              \/ pc'[t] \in LengthLabels /\ l = i'[t]
  BY DEF Holds, InsertLabels, DeleteLabels, LengthLabels
<1>6. CallList(t) \in Lists
  BY <1>1, HeldNodes DEF CallList
<1> QED  BY <1>1, <1>2, <1>3, <1>4, <1>5, <1>6 DEF Holds, CallList

\* A call writes nodes of its own list only.
LEMMA CallWrites ==
  ASSUME IInv, NEW t \in Threads, CallStep(t), NEW n \in Nat, NEW r,
         Ring(CallList(t), n, r), NEW x, x \notin OfList(CallList(t))
  PROVE  next'[x] = next[x] /\ prev'[x] = prev[x]
<1> DEFINE l == CallList(t)
<1> t \in Agents /\ TypeOK
  BY AgentFacts DEF IInv
<1>1. l \in Lists /\ Circle(l, n, r) /\ Stands(t, l, n, r)
  BY CallHolds DEF Ring
<1>2. \A k \in 0..n+1 : r[k] \in OfList(l)
  BY <1>1, CircleOfList
<1> HIDE DEF l
<1>3. CASE InsertLinkElement(t, ListOf(i[t]), i[t])
  <2>1. pc[t] \in InsertLabels \ LengthLabels
    BY <1>3 DEF InsertLinkElement, InsertLabels, LengthLabels
  <2>2. i[t] \in Elements /\ ListOf(i[t]) = l
    BY <2>1, HeldNodes DEF l, CallList
  <2>3. i[t] \in OfList(l)
    BY <2>2 DEF OfList
  <2>4. x # i[t]
    BY <2>3 DEF l
  <2> QED  BY <1>3, <2>4 DEF InsertLinkElement, TypeOK
<1>4. CASE InsertLinkPrev(t, i[t])
  <2>1. PICK p \in 1..n+1 : cur[t] = r[p]
    BY <1>1, <1>4 DEF Stands, InsertLinkPrev
  <2>2. prev[r[p]] = r[p-1]
    BY <1>1, <1>4 DEF Stands, MidUpdate, InsertLinkPrev, BackLinksBut
  <2>3. r[p-1] \in OfList(l)
    BY <1>2
  <2>4. x # prev[cur[t]]
    BY <2>1, <2>2, <2>3 DEF l
  <2> QED  BY <1>4, <2>4 DEF InsertLinkPrev, TypeOK
<1>5. CASE InsertLinkCur(t, i[t])
  <2>1. PICK p \in 1..n : cur[t] = r[p+1]
    BY <1>1, <1>5 DEF Stands, InsertLinkCur
  <2>2. x # cur[t]
    BY <1>2, <2>1 DEF l
  <2> QED  BY <1>5, <2>2 DEF InsertLinkCur, TypeOK
<1>6. CASE DeleteUnlinkNext(t)
  <2>1. PICK p \in 1..n : cur[t] = r[p]
    BY <1>1, <1>6 DEF Stands, DeleteUnlinkNext
  <2>2. prev[r[p]] = r[p-1]
    BY <1>1, <1>6 DEF Stands, MidUpdate, DeleteUnlinkNext, BackLinksBut
  <2>3. x # prev[cur[t]]
    BY <1>2, <2>1, <2>2 DEF l
  <2> QED  BY <1>6, <2>3 DEF DeleteUnlinkNext, TypeOK
<1>7. CASE DeleteUnlinkPrev(t)
  <2>1. PICK p \in 0..n : next[cur[t]] = r[p+1]
    BY <1>1, <1>7 DEF Stands, DeleteUnlinkPrev
  <2>2. x # next[cur[t]]
    BY <1>2, <2>1 DEF l
  <2> QED  BY <1>7, <2>2 DEF DeleteUnlinkPrev, TypeOK
<1>8. CASE WalkStep(t, ListOf(i[t]), i[t]) \/ LengthStep(t, i[t])
  BY <1>8 DEF WalkStep, InsertEntry, InsertPast, LookupStep, LookupEntry, LookupNext,
         LookupHit, LookupMiss, DeleteCheck, LengthStep, LengthEntry, LengthNext,
         LengthReturn, StartWalk, links
<1> QED  BY <1>3, <1>4, <1>5, <1>6, <1>7, <1>8 DEF CallStep, InsertStep, DeleteStep, WalkStep

\* What a step of thread t does to the elements of circle r of list l.
Effect(t, l, n, r, m, s) ==
  /\ l = CallList(t) /\ InsertLinkPrev(t, i[t]) => On(m, s) = On(n, r) \cup {i[t]}
  /\ l = CallList(t) /\ DeleteUnlinkNext(t) =>
       \E v \in On(n, r) : key[v] = key[i[t]] /\ On(m, s) = On(n, r) \ {v}
  /\ l # CallList(t) \/ ~(InsertLinkPrev(t, i[t]) \/ DeleteUnlinkNext(t))
       => On(m, s) = On(n, r)

\* No other agent holds a list that a thread holds.
LEMMA HoldsAlone ==
  ASSUME Locking, IInv, LoopInv, NEW t \in Threads, NEW l \in Lists, Holds(t, l),
         NEW a \in Agents \ {t}
  PROVE  ~Holds(a, l)
<1>1. CASE a \in Threads
  BY <1>1 DEF IInv, MutualExclusion
<1>2. CASE a = Main
  BY <1>2, MainHoldsAlone DEF IInv, IndexInv
<1> QED  BY <1>1, <1>2, OpsAssumption

\* A call moves the circle of its list.
LEMMA CallMovesRing ==
  ASSUME Locking, IInv, LoopInv, NEW t \in Threads, ThreadStep(t), CallStep(t),
         NEW l \in Lists, l = CallList(t), NEW n \in Nat, NEW r, Ring(l, n, r)
  PROVE  \E m \in Nat : \E s : Ring(l, m, s)' /\ Effect(t, l, n, r, m, s)
<1> t \in Agents /\ TypeOK
  BY AgentFacts DEF IInv
<1>1. Circle(l, n, r) /\ Stands(t, l, n, r) /\ Holds(t, l) /\ Holds(t, l)'
  BY CallHolds DEF Ring
<1>2. \A a \in Agents \ {t} : ~Holds(a, l)'
  <2> SUFFICES ASSUME NEW a \in Agents \ {t} PROVE ~Holds(a, l)'
    OBVIOUS
  <2>1. ~Holds(a, l)
    BY <1>1, HoldsAlone
  <2>2. pc'[a] = pc[a] /\ i'[a] = i[a] /\ key' = key
    BY ThreadFrame, KeysFixed
  <2> QED  BY <2>1, <2>2 DEF Holds, ListOf, InsertLabels, DeleteLabels, LengthLabels
<1>3. i' = i
  BY DEF CallStep
<1>4. pc[t] \in InsertLabels \cup DeleteLabels => i[t] \in Elements /\ ListOf(i[t]) = l
  BY HeldNodes DEF CallList, InsertLabels, DeleteLabels, LengthLabels
<1>5. InsertLinkPrev(t, i[t]) => InsertedElements' = InsertedElements \cup {i[t]}
  BY InsertedStep
<1>6. ~InsertLinkPrev(t, i[t]) => InsertedElements' = InsertedElements
  BY InsertedStep
<1>7. ASSUME Circle(l, n, r)', Stands(t, l, n, r)',
             ~InsertLinkPrev(t, i[t]), ~DeleteUnlinkNext(t)
      PROVE  \E m \in Nat : \E s : Ring(l, m, s)' /\ Effect(t, l, n, r, m, s)
  <2>1. Ring(l, n, r)'
    BY <1>1, <1>2, <1>7, RingMoved
  <2> QED  BY <1>7, <2>1 DEF Effect
<1>8. CASE WalkStep(t, l, i[t])
  <2>1. ~InsertLinkPrev(t, i[t]) /\ ~DeleteUnlinkNext(t)
    BY <1>8 DEF InsertLinkPrev, DeleteUnlinkNext, WalkStep, InsertEntry, InsertPast,
         LookupStep, LookupEntry, LookupNext, LookupHit, LookupMiss, DeleteCheck,
         LengthStep, LengthEntry, LengthNext, LengthReturn, StartWalk
  <2>2. Circle(l, n, r)' /\ Stands(t, l, n, r)'
    BY <1>1, <1>3, <1>4, <1>6, <1>8, <2>1, WalkMoves
  <2> QED  BY <1>7, <2>1, <2>2
<1>9. CASE InsertLinkElement(t, l, i[t])
  <2>1. ~InsertLinkPrev(t, i[t]) /\ ~DeleteUnlinkNext(t)
    BY <1>9 DEF InsertLinkPrev, DeleteUnlinkNext, InsertLinkElement
  <2>2. i[t] \in Elements \ InsertedElements
    BY <1>9, NotYetInserted DEF InsertLinkElement
  <2>3. Circle(l, n, r)' /\ Stands(t, l, n, r)'
    BY <1>1, <1>3, <1>6, <1>9, <2>1, <2>2, LinkElementMoves
  <2> QED  BY <1>7, <2>1, <2>3
<1>10. CASE InsertLinkPrev(t, i[t])
  <2>1. ~DeleteUnlinkNext(t)
    BY <1>10 DEF InsertLinkPrev, DeleteUnlinkNext
  <2>2. PICK e \in Elements \ InsertedElements : e = i[t]
    BY <1>10, NotYetInserted DEF InsertLinkPrev
  <2>3. ListOf(e) = l
    BY <1>4, <1>10, <2>2 DEF InsertLinkPrev, InsertLabels
  <2>4. InsertedElements' = InsertedElements \cup {e} /\ InsertLinkPrev(t, e)
    BY <1>5, <1>10, <2>2
  <2>5. Moved(t, l, On(n, r) \cup {e})
    BY <1>1, <1>3, <2>2, <2>3, <2>4, LinkPrevMoves
  <2>6. PICK m \in Nat : \E s : /\ Circle(l, m, s)' /\ Stands(t, l, m, s)'
                                /\ On(m, s) = On(n, r) \cup {e}
    BY <2>5 DEF Moved
  <2>7. PICK s : /\ Circle(l, m, s)' /\ Stands(t, l, m, s)'
                 /\ On(m, s) = On(n, r) \cup {e}
    BY <2>6
  <2>8. Ring(l, m, s)'
    BY <1>1, <1>2, <2>7, RingMoved
  <2> QED  BY <1>10, <2>1, <2>2, <2>7, <2>8 DEF Effect
<1>11. CASE InsertLinkCur(t, i[t])
  <2>1. ~InsertLinkPrev(t, i[t]) /\ ~DeleteUnlinkNext(t)
    BY <1>11 DEF InsertLinkPrev, DeleteUnlinkNext, InsertLinkCur
  <2>2. Circle(l, n, r)' /\ Stands(t, l, n, r)'
    BY <1>1, <1>3, <1>6, <1>11, <2>1, LinkCurMoves
  <2> QED  BY <1>7, <2>1, <2>2
<1>12. CASE DeleteUnlinkNext(t)
  <2>1. ~InsertLinkPrev(t, i[t])
    BY <1>12 DEF InsertLinkPrev, DeleteUnlinkNext
  <2>2. PICK v \in On(n, r) : key[v] = key[i[t]] /\ Moved(t, l, On(n, r) \ {v})
    BY <1>1, <1>3, <1>6, <1>12, <2>1, UnlinkNextMoves
  <2>3. PICK m \in Nat : \E s : /\ Circle(l, m, s)' /\ Stands(t, l, m, s)'
                                /\ On(m, s) = On(n, r) \ {v}
    BY <2>2 DEF Moved
  <2>4. PICK s : /\ Circle(l, m, s)' /\ Stands(t, l, m, s)'
                 /\ On(m, s) = On(n, r) \ {v}
    BY <2>3
  <2>5. Ring(l, m, s)'
    BY <1>1, <1>2, <2>4, RingMoved
  <2> QED  BY <1>12, <2>1, <2>2, <2>4, <2>5 DEF Effect
<1>13. CASE DeleteUnlinkPrev(t)
  <2>1. ~InsertLinkPrev(t, i[t]) /\ ~DeleteUnlinkNext(t)
    BY <1>13 DEF InsertLinkPrev, DeleteUnlinkNext, DeleteUnlinkPrev
  <2>2. Circle(l, n, r)' /\ Stands(t, l, n, r)'
    BY <1>1, <1>3, <1>6, <1>13, <2>1, UnlinkPrevMoves
  <2> QED  BY <1>7, <2>1, <2>2
<1>14. CASE InsertStep(t, ListOf(i[t]), i[t])
  <2>1. ListOf(i[t]) = l
    BY <1>4, <1>14 DEF InsertStep, InsertEntry, InsertPast, InsertLinkElement,
       InsertLinkPrev, InsertLinkCur, StartWalk, InsertLabels
  <2> QED  BY <1>8, <1>9, <1>10, <1>11, <1>14, <2>1 DEF InsertStep, WalkStep
<1>15. CASE LookupStep(t, ListOf(i[t]), i[t])
  <2>1. ListOf(i[t]) = l
    BY <1>4, <1>15 DEF LookupStep, LookupEntry, LookupNext, LookupHit, LookupMiss,
       StartWalk, DeleteLabels
  <2> QED  BY <1>8, <1>15, <2>1 DEF WalkStep
<1>16. CASE LengthStep(t, i[t])
  <2>1. i[t] = l
    BY <1>16 DEF LengthStep, LengthEntry, LengthNext, LengthReturn, StartWalk,
       LengthLabels, CallList
  <2> QED  BY <1>8, <1>16, <2>1 DEF WalkStep
<1>17. CASE DeleteStep(t)
  BY <1>8, <1>12, <1>13, <1>17 DEF DeleteStep, WalkStep
<1> QED  BY <1>14, <1>15, <1>16, <1>17 DEF CallStep

\* A call leaves the circles of the other lists alone.
LEMMA CallKeepsOthers ==
  ASSUME IInv, LoopInv, RingInv, NEW t \in Threads, ThreadStep(t), CallStep(t),
         NEW l \in Lists, l # CallList(t), NEW n \in Nat, NEW r, Ring(l, n, r)
  PROVE  Ring(l, n, r)'
<1> t \in Agents /\ TypeOK
  BY AgentFacts DEF IInv
<1>1. CallList(t) \in Lists /\ ~Holds(t, l) /\ ~Holds(t, l)'
  BY CallHolds
<1>2. PICK m \in Nat : \E s : Ring(CallList(t), m, s)
  BY <1>1 DEF RingInv
<1>3. PICK s : Ring(CallList(t), m, s)
  BY <1>2
<1>4. \A x \in OfList(l) : next'[x] = next[x] /\ prev'[x] = prev[x]
  <2>1. \A x \in OfList(l) : x \notin OfList(CallList(t))
    BY <1>1, OfListsDiffer
  <2> QED  BY <1>3, <2>1, CallWrites
<1>5. \A a \in Agents \ {t} : /\ pc'[a] = pc[a] /\ cur'[a] = cur[a]
                              /\ i'[a] = i[a] /\ cnt'[a] = cnt[a]
  BY ThreadFrame, CountFrame
<1>6. key' = key /\ InsertedElements \subseteq InsertedElements'
  BY KeysFixed, InsertedStep
<1>7. (\A u \in Threads : ~Holds(u, l)') => BackLinksBut(n, r, 0)
  <2>1. \A u \in Threads \ {t} : Holds(u, l)' <=> Holds(u, l)
    BY HoldsFrame
  <2> QED  BY <1>1, <2>1 DEF Ring
<1> QED  BY <1>1, <1>4, <1>5, <1>6, <1>7, RingKept

\* Taking and giving back a lock leaves every circle alone.
LEMMA OwnStepKeepsRings ==
  ASSUME Locking, IInv, IInv', LoopInv, NEW t \in Threads, ThreadStep(t),
         OwnStep(t) \/ Fail(t),
         NEW l \in Lists, NEW n \in Nat, NEW r, Ring(l, n, r)
  PROVE  Ring(l, n, r)' /\ InsertedElements' = InsertedElements
<1> t \in Agents /\ TypeOK
  BY AgentFacts DEF IInv
<1>1. UNCHANGED <<next, prev, key, cur>>
  BY DEF OwnStep, BeginInsert, EndInsert, InsertsDone, BeginLength, EndLength,
       LengthsDone, AcquireGlobal, AddLength, BeginDelete, EndDelete, DeletesDone, Fail,
       listVars, links
<1>2. InsertedElements' = InsertedElements
  <2>1. ~InsertLinkPrev(t, i[t])
    BY DEF OwnStep, BeginInsert, EndInsert, InsertsDone, BeginLength, EndLength,
       LengthsDone, AcquireGlobal, AddLength, BeginDelete, EndDelete, DeletesDone, Fail,
       listVars, InsertLinkPrev
  <2> QED  BY <2>1, InsertedStep
<1>3. \A a \in Agents \ {t} : /\ pc'[a] = pc[a] /\ cur'[a] = cur[a]
                              /\ i'[a] = i[a] /\ cnt'[a] = cnt[a]
  BY ThreadFrame, CountFrame
<1>4. \A u \in Threads \ {t} : Holds(u, l)' <=> Holds(u, l)
  BY HoldsFrame
<1>5. /\ pc[t] \notin {"insertCur", "deletePrev"}
      /\ pc'[t] \in InsertLabels \cup LengthLabels \cup DeleteLabels
           => pc'[t] \in {"insert", "length", "lookup", "failed"}
      /\ pc[t] \in InsertLabels \cup LengthLabels \cup DeleteLabels
           => Fail(t) \/ pc'[t] \notin InsertLabels \cup LengthLabels \cup DeleteLabels
  BY DEF OwnStep, BeginInsert, EndInsert, InsertsDone, BeginLength, EndLength,
       LengthsDone, AcquireGlobal, AddLength, BeginDelete, EndDelete, DeletesDone, Fail,
       listVars, GoTo, TypeOK, InsertLabels, LengthLabels, DeleteLabels
<1>6. Holds(t, l) => BackLinksBut(n, r, 0)
  BY <1>5 DEF Ring, Stands, MidUpdate
<1>7. (\A u \in Threads : ~Holds(u, l)') => BackLinksBut(n, r, 0)
  BY <1>4, <1>6 DEF Ring
<1>8. Holds(t, l)' => BackLinksBut(n, r, 0)
  <2> SUFFICES ASSUME Holds(t, l)', ~Holds(t, l) PROVE BackLinksBut(n, r, 0)
    BY <1>6
  <2>1. \A u \in Threads \ {t} : ~Holds(u, l)'
    BY DEF IInv, MutualExclusion, Locking, Threads
  <2>2. \A u \in Threads : ~Holds(u, l)
    BY <1>4, <2>1
  <2> QED  BY <2>2 DEF Ring
<1>9. Holds(t, l)' => Stands(t, l, n, r)'
  <2> SUFFICES ASSUME Holds(t, l)' PROVE Stands(t, l, n, r)'
    OBVIOUS
  <2>1. pc'[t] \in {"insert", "length", "lookup", "failed"}
    BY <1>5 DEF Holds, InsertLabels, LengthLabels, DeleteLabels
  <2>2. BackLinksBut(n, r, 0)'
    BY <1>1, <1>8 DEF BackLinksBut
  <2> QED  BY <2>1, <2>2 DEF Stands
<1>10. Ring(l, n, r)'
  BY <1>1, <1>2, <1>3, <1>7, <1>9, RingKept
<1> QED  BY <1>2, <1>10

\* In a step of a thread every circle moves as the operations promise.
LEMMA ThreadMovesRing ==
  ASSUME Locking, IInv, IInv', LoopInv, RingInv, NEW t \in Threads, ThreadStep(t),
         NEW l \in Lists, NEW n \in Nat, NEW r, Ring(l, n, r)
  PROVE  \E m \in Nat : \E s : Ring(l, m, s)' /\ Effect(t, l, n, r, m, s)
<1>1. CASE CallStep(t) /\ l = CallList(t)
  BY <1>1, CallMovesRing
<1>2. CASE CallStep(t) /\ l # CallList(t)
  <2>1. Ring(l, n, r)'
    BY <1>2, CallKeepsOthers
  <2> QED  BY <1>2, <2>1 DEF Effect
<1>3. CASE OwnStep(t) \/ Fail(t)
  <2>1. Ring(l, n, r)'
    BY <1>3, OwnStepKeepsRings
  <2>2. ~InsertLinkPrev(t, i[t]) /\ ~DeleteUnlinkNext(t)
    BY <1>3 DEF OwnStep, BeginInsert, EndInsert, InsertsDone, BeginLength, EndLength,
       LengthsDone, AcquireGlobal, AddLength, BeginDelete, EndDelete, DeletesDone, Fail,
       listVars, InsertLinkPrev, DeleteUnlinkNext
  <2> QED  BY <2>1, <2>2 DEF Effect
<1> QED  BY <1>1, <1>2, <1>3 DEF ThreadStep

\* Main keeps every circle, and the insertions, deletions and measurements.
LEMMA MainEffects ==
  ASSUME IInv, LoopInv, MainStep
  PROVE  /\ UNCHANGED <<next, prev, key, list_len>>
         /\ InsertedElements' = InsertedElements /\ ConsumedElements' = ConsumedElements
         /\ \A t \in Threads : /\ MeasuredLists(t)' = MeasuredLists(t)
                               /\ TotalLength(t)' = TotalLength(t)
<1> USE AgentFacts DEF IInv, TypeOK, GoTo, SetIndex, SetCur
<1>1. UNCHANGED <<next, prev, key, list_len>>
  BY DEF MainStep, MainWorks, Create, CreateFails, CreateDone, Join, JoinDone, BeginCheck,
        CheckStep, EndCheck, NotEmpty, Report, LengthStep, LengthEntry, LengthNext,
        LengthReturn, StartWalk, listVars, opsVars, links
<1>2. \A t \in Threads : /\ i'[t] = i[t] /\ cnt'[t] = cnt[t]
                         /\ pc'[t] = pc[t] \/ (pc[t] = "unborn" /\ pc'[t] = "insertLoop")
  <2>1. CASE Create
    <3>1. i[Main] \in Threads /\ pc[i[Main]] = "unborn"
      BY <2>1, OpsAssumption DEF Create, IndexInv, Threads
    <3> QED  BY <2>1, <3>1 DEF Create
  <2>2. CASE ~Create
    <3>1. \A t \in Threads : pc'[t] = pc[t] /\ i'[t] = i[t]
      BY <2>2, MainFrame
    <3>2. \A t \in Threads : cnt'[t] = cnt[t]
      BY <2>2 DEF MainStep, MainWorks, CreateFails, CreateDone, Join, JoinDone,
         BeginCheck, CheckStep, EndCheck, NotEmpty, Report, LengthStep, LengthEntry,
         LengthNext, LengthReturn, StartWalk, listVars, opsVars
    <3> QED  BY <3>1, <3>2
  <2> QED  BY <2>1, <2>2
<1>3. InsertedElements' = InsertedElements /\ ConsumedElements' = ConsumedElements
  <2>1. \A e \in Elements : Owner(e) \in Threads
    BY OwnerIsThread
  <2> QED  BY <1>2, <2>1
           DEF InsertedElements, ConsumedElements, Elements, Owner, InsertPhase,
               InsertLabels, DeletePhase, DeleteLabels
<1>4. \A t \in Threads : /\ MeasuredLists(t)' = MeasuredLists(t)
                         /\ TotalLength(t)' = TotalLength(t)
  BY <1>1, <1>2 DEF MeasuredLists, TotalLength, Counted, InsertPhase, InsertLabels,
      DeletePhase, DeleteLabels, Lists
<1> QED  BY <1>1, <1>3, <1>4

\* Main writes no link and holds no list that a thread holds.
LEMMA MainKeepsRings ==
  ASSUME IInv, LoopInv, MainStep, NEW l \in Lists, NEW n \in Nat, NEW r, Ring(l, n, r)
  PROVE  Ring(l, n, r)'
<1> Main \in Agents /\ TypeOK
  BY AgentFacts DEF IInv
<1>1. UNCHANGED <<next, prev, key>> /\ InsertedElements' = InsertedElements
  BY MainEffects
<1>2. CASE Create
  <2>1. PICK u \in Threads : u = i[Main] /\ pc[u] = "unborn"
    BY <1>2, AgentFacts, OpsAssumption DEF Create, IInv, TypeOK, IndexInv, Threads
  <2>2. /\ pc' = [pc EXCEPT ![u] = "insertLoop"]
        /\ i' = [i EXCEPT ![Main] = i[Main] + 1]
        /\ cur' = cur /\ cnt' = cnt
    BY <1>2, <2>1 DEF Create, SetIndex
  <2>3. pc[Main] = "create" /\ pc'[Main] = "create"
    BY <1>2, <2>1, <2>2, AgentFacts DEF Create, TypeOK
  <2>4. \A a \in Agents \ {Main} : /\ cur'[a] = cur[a] /\ i'[a] = i[a] /\ cnt'[a] = cnt[a]
                                   /\ a # u => pc'[a] = pc[a]
    BY <2>2, AgentFacts DEF TypeOK
  <2>5. pc'[u] = "insertLoop"
    BY <2>1, <2>2, AgentFacts DEF TypeOK
  <2>6. \A a \in Agents : /\ Holds(a, l)' => Holds(a, l) /\ a # Main /\ a # u
                          /\ Holds(a, l) => Holds(a, l)'
    <3>1. ~Holds(Main, l) /\ ~Holds(Main, l)' /\ ~Holds(u, l) /\ ~Holds(u, l)'
      BY <2>1, <2>3, <2>5 DEF Holds, InsertLabels, LengthLabels, DeleteLabels
    <3>2. \A a \in Agents \ {Main, u} : Holds(a, l)' <=> Holds(a, l)
      BY <1>1, <2>4 DEF Holds, ListOf, InsertLabels, LengthLabels, DeleteLabels
    <3> QED  BY <3>1, <3>2
  <2>7. Circle(l, n, r)'
    BY <1>1, CircleStays DEF Ring
  <2>8. ASSUME NEW a \in Agents, Holds(a, l)' PROVE Stands(a, l, n, r)'
    <3>1. /\ pc'[a] = pc[a] /\ cur'[a] = cur[a] /\ i'[a] = i[a] /\ cnt'[a] = cnt[a]
          /\ Holds(a, l)
      BY <2>4, <2>6, <2>8
    <3>2. Circle(l, n, r) /\ Stands(a, l, n, r)
      BY <3>1 DEF Ring
    <3> QED  BY <1>1, <3>1, <3>2, StandsStays
  <2>9. (\A t \in Threads : ~Holds(t, l)') => BackLinksBut(n, r, 0)'
    BY <1>1, <2>6, AgentFacts DEF Ring, BackLinksBut
  <2> QED  BY <2>7, <2>8, <2>9 DEF Ring, Threads
<1>3. CASE ~Create
  <2>1. \A a \in Agents \ {Main} : /\ pc'[a] = pc[a] /\ cur'[a] = cur[a]
                                   /\ i'[a] = i[a] /\ cnt'[a] = cnt[a]
    <3>1. \A t \in Threads : pc'[t] = pc[t] /\ i'[t] = i[t] /\ cur'[t] = cur[t]
      BY <1>3, MainFrame
    <3>2. \A t \in Threads : cnt'[t] = cnt[t]
      BY <1>3, AgentFacts DEF MainStep, MainWorks, CreateFails, CreateDone, Join, JoinDone,
         BeginCheck, CheckStep, EndCheck, NotEmpty, Report, LengthStep, LengthEntry,
         LengthNext, LengthReturn, StartWalk, listVars, opsVars, TypeOK
    <3> QED  BY <3>1, <3>2, OpsAssumption
  <2>2. \A t \in Threads : Holds(t, l)' <=> Holds(t, l)
    BY <1>1, <2>1, AgentFacts DEF Holds, ListOf, InsertLabels, LengthLabels, DeleteLabels
  <2>3. (\A t \in Threads : ~Holds(t, l)') => BackLinksBut(n, r, 0)
    BY <2>2 DEF Ring
  <2>4. Holds(Main, l)' => Stands(Main, l, n, r)'
    <3> SUFFICES ASSUME Holds(Main, l)' PROVE Stands(Main, l, n, r)'
      OBVIOUS
    <3> USE DEF GoTo, SetIndex, TypeOK
    <3>1. CASE CheckStep
      <4>1. pc[Main] \in LengthLabels /\ i' = i
        BY <3>1 DEF CheckStep, LengthStep, LengthEntry, LengthNext, LengthReturn,
            StartWalk, LengthLabels, opsVars
      <4>2. pc[Main] \notin InsertLabels /\ pc'[Main] \notin InsertLabels \cup DeleteLabels
        BY <3>1 DEF CheckStep, LengthStep, LengthEntry, LengthNext, LengthReturn,
            StartWalk, InsertLabels, DeleteLabels
      <4>3. l = i[Main] /\ Holds(Main, l)
        BY <4>1, <4>2 DEF Holds, InsertLabels, DeleteLabels, LengthLabels
      <4>4. Circle(l, n, r) /\ Stands(Main, l, n, r)
        BY <4>3 DEF Ring
      <4>5. WalkStep(Main, l, i[Main])
        BY <3>1, <4>3 DEF CheckStep, WalkStep
      <4> QED  BY <1>1, <4>1, <4>2, <4>4, <4>5, WalkMoves
    <3>2. CASE BeginCheck
      <4>1. pc[Main] = "checkLoop" /\ pc'[Main] = "length"
        BY <3>2 DEF BeginCheck
      <4>2. \A t \in Threads : pc[t] = "returned"
        BY <4>1 DEF LoopInv
      <4>3. BackLinksBut(n, r, 0)'
        BY <1>1, <4>2 DEF Ring, Holds, InsertLabels, LengthLabels, DeleteLabels, BackLinksBut
      <4> QED  BY <4>1, <4>3 DEF Stands
    <3>3. CASE CreateFails \/ CreateDone \/ Join \/ JoinDone \/ EndCheck
      <4>1. pc'[Main] \in {"create", "join", "checkLoop"}
        BY <3>3 DEF CreateFails, CreateDone, Join, JoinDone, EndCheck, listVars
      <4> QED  BY <4>1 DEF Holds, InsertLabels, LengthLabels, DeleteLabels
    <3>4. CASE NotEmpty \/ Report
      <4>1. UNCHANGED <<listVars, i>>
        BY <3>4 DEF NotEmpty, Report
      <4>2. Holds(Main, l)
        BY <4>1 DEF Holds, ListOf, InsertLabels, LengthLabels, DeleteLabels, listVars
      <4>3. Circle(l, n, r) /\ Stands(Main, l, n, r)
        BY <4>2 DEF Ring
      <4> QED  BY <4>1, <4>2, <4>3, StandsStays DEF listVars
    <3> QED  BY <1>3, <3>1, <3>2, <3>3, <3>4 DEF MainStep, MainWorks
  <2> QED  BY <1>1, <2>1, <2>3, <2>4, RingKept
<1> QED  BY <1>2, <1>3

\* Initially every list is a circle of its head alone.
LEMMA InitRings == Init => RingInv
<1> SUFFICES ASSUME Init, NEW l \in Lists PROVE \E n \in Nat : \E r : Ring(l, n, r)
  BY DEF RingInv
<1> DEFINE r == [k \in 0..1 |-> ListHead(l)]
<1>1. ListHead(l) \in Heads /\ ListHead(l) \in Nodes
  BY NodeFacts
<1>2. next[ListHead(l)] = ListHead(l) /\ prev[ListHead(l)] = ListHead(l)
  BY <1>1 DEF Init
<1>3. Circle(l, 0, r)
  BY <1>1, <1>2 DEF Circle
<1>4. BackLinksBut(0, r, 0)
  BY <1>2 DEF BackLinksBut
<1>5. \A a \in Agents : ~Holds(a, l)
  BY DEF Init, Holds, InsertLabels, DeleteLabels, LengthLabels
<1>6. Ring(l, 0, r)
  BY <1>3, <1>4, <1>5 DEF Ring
<1> QED  BY <1>6

\* Every step keeps every list a circle.
LEMMA NextRings ==
  ASSUME Locking, IInv, IInv', LoopInv, RingInv, [Next]_vars
  PROVE  RingInv'
<1> SUFFICES ASSUME NEW l \in Lists PROVE \E n \in Nat : \E r : Ring(l, n, r)'
  BY DEF RingInv, Lists
<1>1. PICK n \in Nat : \E r : Ring(l, n, r)
  BY DEF RingInv
<1>2. PICK r : Ring(l, n, r)
  BY <1>1
<1>3. ASSUME NEW t \in Threads, ThreadStep(t) PROVE \E m \in Nat : \E s : Ring(l, m, s)'
  BY <1>2, <1>3, ThreadMovesRing
<1>4. CASE MainStep
  BY <1>2, <1>4, MainKeepsRings
<1>5. CASE UNCHANGED vars
  <2>1. Ring(l, n, r)'
    <3>1. \A a \in Agents : Stands(a, l, n, r)' <=> Stands(a, l, n, r)
      BY <1>5 DEF vars, listVars, opsVars, Stands, MidUpdate, BackLinksBut, ListOf, Elements
    <3>2. Circle(l, n, r)'
      BY <1>2, <1>5 DEF vars, listVars, opsVars, Ring, Circle, ListOf, InsertedElements,
         InsertPhase, InsertLabels, Owner, Nodes, Elements, Heads, Lists, ListHead
    <3>3. /\ \A a \in Agents : Holds(a, l)' <=> Holds(a, l)
          /\ \A t \in Threads : Holds(t, l)' <=> Holds(t, l)
      BY <1>5 DEF vars, listVars, opsVars, Holds, ListOf, InsertLabels, LengthLabels,
         DeleteLabels
    <3>4. BackLinksBut(n, r, 0)' <=> BackLinksBut(n, r, 0)
      BY <1>5 DEF vars, listVars, BackLinksBut
    <3> QED  BY <1>2, <3>1, <3>2, <3>3, <3>4 DEF Ring, Threads
  <2> QED  BY <2>1
<1> QED  BY <1>3, <1>4, <1>5 DEF Next, Terminated

\* Under the locks every list is a circle at all times.
ListInv == Locking /\ IInv /\ LoopInv /\ RingInv

\* The three invariants hold together in every reachable state.
LEMMA SpecListInv == Locking /\ Spec => []ListInv
<1>1. Locking /\ Init => ListInv
  <2>1. Init => LoopInv
    BY InitLoops
  <2> QED  BY <2>1, InitIInv, InitRings DEF ListInv
<1>2. ListInv /\ [Next]_vars => ListInv'
  <2> SUFFICES ASSUME ListInv, [Next]_vars PROVE ListInv'
    OBVIOUS
  <2>1. IInv' /\ LoopInv'
    BY NextIInv, NextLoops DEF ListInv
  <2>2. RingInv'
    BY <2>1, NextRings DEF ListInv
  <2> QED  BY <2>1, <2>2 DEF ListInv, Locking
<1> QED  BY <1>1, <1>2, PTL DEF Spec

\* A list is intact when its circle lacks no back link.
LEMMA CircleIsIntact ==
  ASSUME TypeOK, NEW l \in Lists, NEW n \in Nat, NEW r, Circle(l, n, r),
         BackLinksBut(n, r, 0)
  PROVE  Intact(l) /\ \A e \in Chain(l) : ListOf(e) = l
<1>1. Chain(l) = On(n, r)
  BY CircleIsChain DEF CirclesAreChains
<1>2. /\ r[0] = ListHead(l) /\ r[n+1] = ListHead(l)
      /\ \A k \in 1..n : r[k] \in Elements /\ ListOf(r[k]) = l
      /\ \A k \in 0..n : next[r[k]] = r[k+1]
  BY CircleNodes
<1>3. On(n, r) \subseteq Elements /\ \A e \in On(n, r) : ListOf(e) = l
  BY <1>2 DEF On
<1> DEFINE on == On(n, r) \cup {ListHead(l)}
<1>4. \A x \in on : next[x] \in on /\ prev[next[x]] = x
  <2> SUFFICES ASSUME NEW x \in on PROVE next[x] \in on /\ prev[next[x]] = x
    OBVIOUS
  <2>1. PICK k \in 0..n : x = r[k]
    BY <1>2 DEF On
  <2>2. next[x] = r[k+1] /\ prev[r[k+1]] = r[k]
    BY <1>2, <2>1 DEF BackLinksBut
  <2>3. r[k+1] \in on
    <3>1. CASE k = n
      BY <1>2, <3>1
    <3>2. CASE k < n
      BY <3>2 DEF On
    <3> QED  BY <3>1, <3>2
  <2> QED  BY <2>1, <2>2, <2>3
<1>5. \A x \in On(n, r) : next[x] # ListHead(l) => key[x] <= key[next[x]]
  <2> SUFFICES ASSUME NEW x \in On(n, r), next[x] # ListHead(l) PROVE key[x] <= key[next[x]]
    OBVIOUS
  <2>1. PICK k \in 1..n : x = r[k]
    BY DEF On
  <2>2. next[x] = r[k+1] /\ k + 1 \in 1..n
    BY <1>2, <2>1
  <2> QED  BY <2>1, <2>2 DEF Circle
<1> QED  BY <1>1, <1>3, <1>4, <1>5 DEF Intact

\* SortedList.h:8-12, 31-33: with a --sync option every list on which no update is
\* half done is a sorted circle of its own elements, whatever the threads do.
THEOREM ListKeepsListsIntact == Locking /\ Spec => []ListsIntact
<1>1. ListInv => ListsIntact
  <2> SUFFICES ASSUME ListInv, NEW l \in Lists,
                      \A t \in Threads : MidUpdate(t) => ListOf(i[t]) # l
               PROVE  Intact(l) /\ \A e \in Chain(l) : ListOf(e) = l
    BY DEF ListsIntact
  <2>1. PICK n \in Nat : \E r : Ring(l, n, r)
    BY DEF ListInv, RingInv
  <2>2. PICK r : Ring(l, n, r)
    BY <2>1
  <2>3. BackLinksBut(n, r, 0)
    <3>1. CASE \E t \in Threads : Holds(t, l)
      <4>1. PICK t \in Threads : Holds(t, l)
        BY <3>1
      <4>2. ~MidUpdate(t)
        BY <4>1 DEF Holds, MidUpdate, LengthLabels
      <4> QED  BY <2>2, <4>1, <4>2, AgentFacts DEF Ring, Stands
    <3>2. CASE \A t \in Threads : ~Holds(t, l)
      BY <2>2, <3>2 DEF Ring
    <3> QED  BY <3>1, <3>2
  <2> QED  BY <2>2, <2>3, CircleIsIntact DEF Ring, ListInv, IInv
<1> QED  BY <1>1, SpecListInv, PTL

-----------------------------------------------------------------------------
(* Refinement.                                                               *)

\* The elements on the lists.
Present == UNION {Chain(l) : l \in Lists}

\* The chain of a list is made of inserted elements of that list, and finite.
LEMMA ChainFacts ==
  ASSUME ListInv, NEW l \in Lists
  PROVE  /\ Chain(l) \subseteq InsertedElements
         /\ \A e \in Chain(l) : e \in Elements /\ ListOf(e) = l
         /\ IsFiniteSet(Chain(l))
<1>1. PICK n \in Nat : \E r : Ring(l, n, r)
  BY DEF ListInv, RingInv
<1>2. PICK r : Ring(l, n, r)
  BY <1>1
<1>3. Circle(l, n, r) /\ TypeOK
  BY <1>2 DEF Ring, ListInv, IInv
<1>4. Chain(l) = On(n, r) /\ IsFiniteSet(On(n, r))
  BY <1>3, CircleIsChain DEF CirclesAreChains
<1> QED  BY <1>3, <1>4 DEF On, Circle, InsertedElements

\* How a thread's step changes the chain of a list.
LEMMA ChainStep ==
  ASSUME ListInv, ListInv', NEW t \in Threads, ThreadStep(t), NEW l \in Lists
  PROVE  /\ l = CallList(t) /\ InsertLinkPrev(t, i[t]) => Chain(l)' = Chain(l) \cup {i[t]}
         /\ l = CallList(t) /\ DeleteUnlinkNext(t) =>
              \E v \in Chain(l) : key[v] = key[i[t]] /\ Chain(l)' = Chain(l) \ {v}
         /\ l # CallList(t) \/ ~(InsertLinkPrev(t, i[t]) \/ DeleteUnlinkNext(t))
              => Chain(l)' = Chain(l)
<1>1. PICK n \in Nat : \E r : Ring(l, n, r)
  BY DEF ListInv, RingInv
<1>2. PICK r : Ring(l, n, r)
  BY <1>1
<1>3. PICK m \in Nat : \E s : Ring(l, m, s)' /\ Effect(t, l, n, r, m, s)
  BY <1>2, ThreadMovesRing DEF ListInv
<1>4. PICK s : Ring(l, m, s)' /\ Effect(t, l, n, r, m, s)
  BY <1>3
<1>5. Chain(l) = On(n, r)
  BY <1>2, CircleIsChain DEF CirclesAreChains, ListInv, IInv, Ring
<1>6. Chain(l)' = On(m, s)
  <2>1. CirclesAreChains'
    BY CircleIsChain, PTL
  <2>2. Circle(l, m, s)' /\ TypeOK' /\ l \in Lists'
    BY <1>4 DEF ListInv, IInv, Ring, Lists
  <2> QED  BY <2>1, <2>2 DEF On, CirclesAreChains
<1> QED  BY <1>4, <1>5, <1>6 DEF Effect

\* How a thread's step changes the elements on the lists.
LEMMA PresentStep ==
  ASSUME ListInv, ListInv', NEW t \in Threads, ThreadStep(t)
  PROVE  /\ InsertLinkPrev(t, i[t]) => Present' = Present \cup {i[t]}
         /\ DeleteUnlinkNext(t) =>
              \E v \in Present : key[v] = key[i[t]] /\ Present' = Present \ {v}
         /\ ~(InsertLinkPrev(t, i[t]) \/ DeleteUnlinkNext(t)) => Present' = Present
<1>1. Present' = UNION {Chain(l)' : l \in Lists}
  BY DEF Present, Lists
<1>2. InsertLinkPrev(t, i[t]) \/ DeleteUnlinkNext(t) => CallList(t) \in Lists
  BY CallHolds DEF ListInv, ThreadStep, CallStep, OwnStep, Fail, InsertLinkPrev, DeleteUnlinkNext,
     BeginInsert, EndInsert, InsertsDone, BeginLength, EndLength, LengthsDone,
     AcquireGlobal, AddLength, BeginDelete, EndDelete, DeletesDone
<1>3. ASSUME InsertLinkPrev(t, i[t]) PROVE Present' = Present \cup {i[t]}
  <2>1. PICK c \in Lists : c = CallList(t)
    BY <1>2, <1>3
  <2>2. \A l \in Lists : Chain(l)' = IF l = c THEN Chain(l) \cup {i[t]} ELSE Chain(l)
    BY <1>3, <2>1, ChainStep
  <2> QED  BY <1>1, <2>1, <2>2 DEF Present
<1>4. ASSUME DeleteUnlinkNext(t)
      PROVE  \E v \in Present : key[v] = key[i[t]] /\ Present' = Present \ {v}
  <2>1. PICK c \in Lists : c = CallList(t)
    BY <1>2, <1>4
  <2>2. PICK v \in Chain(c) : key[v] = key[i[t]] /\ Chain(c)' = Chain(c) \ {v}
    BY <1>4, <2>1, ChainStep
  <2>3. \A l \in Lists : l # c => Chain(l)' = Chain(l)
    BY <1>4, <2>1, ChainStep
  <2>4. \A l \in Lists : l # c => v \notin Chain(l)
    <3>1. ListOf(v) = c
      BY <2>1, <2>2, ChainFacts
    <3> QED  BY <3>1, ChainFacts
  <2>5. \A l \in Lists : Chain(l)' = Chain(l) \ {v}
    BY <2>2, <2>3, <2>4
  <2> QED  BY <1>1, <2>1, <2>2, <2>5 DEF Present
<1>5. ASSUME ~(InsertLinkPrev(t, i[t]) \/ DeleteUnlinkNext(t)) PROVE Present' = Present
  <2>1. \A l \in Lists : Chain(l)' = Chain(l)
    BY <1>5, ChainStep
  <2> QED  BY <1>1, <2>1 DEF Present
<1> QED  BY <1>3, <1>4, <1>5

\* The object's constants and lists are those of the program.
LEMMA ObjectConstants ==
  /\ Object!Threads = Threads /\ Object!Lists = Lists /\ Object!Elements = Elements
<1>1. ThreadNum * IterNum = OpNum
  BY OpsAssumption
<1> QED  BY <1>1 DEF Object!Threads, Threads, Object!Lists, Lists, Object!Elements, Elements

\* Of the elements on the lists, those whose key belongs to list l are its chain.
LEMMA OnListIsChain ==
  ASSUME ListInv, NEW l \in Lists
  PROVE  Object!OnList(Present, l) = Chain(l)
<1>1. \A m \in Lists : \A e \in Chain(m) : e \in Elements /\ ListOf(e) = m
  BY ChainFacts
<1>2. \A e \in Elements : [k \in Keys |-> FirstChar[k] % ListNum][key[e]] = ListOf(e)
  BY DEF ListOf, ListInv, IInv, TypeOK
<1> QED  BY <1>1, <1>2 DEF Object!OnList, Present

\* Initially the object is empty.
LEMMA InitObject == Init => Object!Init
<1> SUFFICES ASSUME Init PROVE Object!Init
  OBVIOUS
<1>1. TypeOK /\ RingInv
  BY InitIInv, InitRings DEF IInv
<1>2. \A t \in Threads : pc[t] = "unborn" /\ i[t] = t /\ list_len[t] = 0
  BY AgentFacts DEF Init
<1>3. InsertedElements = {}
  <2> SUFFICES ASSUME NEW e \in InsertedElements PROVE FALSE
    OBVIOUS
  <2>1. e \in Elements /\ Owner(e) \in Threads
    BY OwnerIsThread DEF InsertedElements
  <2>2. e < e % ThreadNum
    BY <1>2, <2>1 DEF InsertedElements, Owner, InsertPhase, InsertLabels
  <2>3. e \in Nat /\ ThreadNum \in Nat /\ ThreadNum > 0
    BY <2>1, OpsAssumption DEF Elements
  <2>4. PICK m : m = e % ThreadNum
    OBVIOUS
  <2>5. m \in 0..(ThreadNum - 1) /\ \E p \in Int : e = ThreadNum * p + m
    BY ONLY <2>3, <2>4, Divide, Zenon
  <2>6. PICK p \in Int : e = ThreadNum * p + m
    BY <2>5
  <2>7. p < 0
    BY <2>2, <2>3, <2>4, <2>5, <2>6
  <2>8. ThreadNum * p <= -ThreadNum
    BY <2>3, <2>7
  <2> QED  BY <2>3, <2>5, <2>6, <2>8
<1>4. ConsumedElements = {}
  BY <1>2, OwnerIsThread DEF ConsumedElements, DeletePhase, DeleteLabels
<1>5. Present = {}
  <2> SUFFICES ASSUME NEW l \in Lists PROVE Chain(l) = {}
    BY DEF Present
  <2>1. PICK n \in Nat : \E r : Ring(l, n, r)
    BY <1>1 DEF RingInv
  <2>2. PICK r : Ring(l, n, r)
    BY <2>1
  <2>3. Chain(l) = On(n, r)
    BY <1>1, <2>2, CircleIsChain DEF CirclesAreChains, Ring
  <2> QED  BY <1>3, <2>2, <2>3 DEF Ring, Circle, On
<1>6. \A t \in Threads : MeasuredLists(t) = {} /\ TotalLength(t) = 0
  BY <1>2 DEF MeasuredLists, TotalLength, Counted, InsertPhase, DeletePhase, DeleteLabels,
     InsertLabels
<1>7. key \in [Elements -> Keys]
  BY DEF Init
<1> QED  BY <1>3, <1>4, <1>5, <1>6, <1>7, ObjectConstants DEF Object!Init, Present

\* The object counts as the program's modules do.
LEMMA SameCardinality == \A S : Object!Cardinality(S) = Cardinality(S)
  BY DEF Object!Cardinality, Cardinality

\* A call that has found the head of the list has counted its chain.
LEMMA CountIsLength ==
  ASSUME ListInv, NEW a \in Agents, NEW l \in Lists, Holds(a, l),
         \/ pc[a] = "lengthScan" /\ cur[a] = ListHead(l)
         \/ pc[a] = "counted"
  PROVE  cnt[a] = Cardinality(Chain(l))
<1>1. PICK n \in Nat : \E r : Ring(l, n, r)
  BY DEF ListInv, RingInv
<1>2. PICK r : Ring(l, n, r)
  BY <1>1
<1>3. Circle(l, n, r) /\ Stands(a, l, n, r) /\ TypeOK
  BY <1>2 DEF Ring, ListInv, IInv
<1>4. cnt[a] = n
  <2>1. CASE pc[a] = "counted"
    BY <1>3, <2>1 DEF Stands
  <2>2. CASE pc[a] = "lengthScan" /\ cur[a] = ListHead(l)
    <3>1. PICK p \in 1..n+1 : cur[a] = r[p] /\ cnt[a] = p - 1
      BY <1>3, <2>2 DEF Stands
    <3>2. \A k \in 1..n : r[k] # ListHead(l)
      BY <1>3, CircleNodes
    <3>3. p = n + 1
      BY <2>2, <3>1, <3>2
    <3> QED  BY <3>1, <3>3
  <2> QED  BY <2>1, <2>2
<1>5. Chain(l) = On(n, r) /\ Cardinality(On(n, r)) = n
  BY <1>3, CircleIsChain DEF CirclesAreChains
<1> QED  BY <1>4, <1>5

\* Between its insertions and its deletions a thread has all its elements inserted.
LEMMA OwnElements ==
  ASSUME NEW t \in Threads
  PROVE  /\ pc[t] \notin InsertPhase => \A e \in Elements : Owner(e) = t => e \in InsertedElements
         /\ pc[t] \notin DeletePhase => \A e \in Elements : Owner(e) = t => e \notin ConsumedElements
  BY DEF InsertedElements, ConsumedElements

\* A thread's step is one of the object's, or a stutter.
LEMMA ThreadImplements ==
  ASSUME ListInv, ListInv', NEW t \in Threads, ThreadStep(t)
  PROVE  Object!Next \/ UNCHANGED Object!vars
<1> t \in Agents /\ TypeOK /\ IInv /\ LoopInv
  BY AgentFacts DEF ListInv, IInv
<1>1. key' = key /\ ConsumedElements \subseteq Elements
  BY KeysFixed DEF ConsumedElements
<1>2. Object!Threads = Threads /\ Object!Lists = Lists /\ Object!Elements = Elements
  BY ObjectConstants
<1>3. Present = UNION {Chain(l) : l \in Lists} /\ Present' = UNION {Chain(l) : l \in Lists}'
  BY DEF Present
<1>4. /\ ~LengthReturn(t, i[t]) => [s \in Threads |-> MeasuredLists(s)]' = [s \in Threads |-> MeasuredLists(s)]
      /\ ~LengthReturn(t, i[t]) => [s \in Threads |-> TotalLength(s)]' = [s \in Threads |-> TotalLength(s)]
  <2>1. \A s \in Threads : ~LengthReturn(t, i[t]) => /\ MeasuredLists(s)' = MeasuredLists(s)
                                                    /\ TotalLength(s)' = TotalLength(s)
    BY MeasuredStep
  <2> QED  BY <2>1 DEF Threads
<1>5. CASE InsertLinkPrev(t, i[t])
  <2>1. ~DeleteUnlinkNext(t) /\ ~LengthReturn(t, i[t])
    BY <1>5 DEF InsertLinkPrev, DeleteUnlinkNext, LengthReturn
  <2>2. i[t] \in Elements \ InsertedElements /\ InsertedElements' = InsertedElements \cup {i[t]}
    BY <1>5, InsertedStep
  <2>3. ConsumedElements' = ConsumedElements
    BY <2>1, ConsumedStep
  <2>4. Present' = Present \cup {i[t]}
    BY <1>5, PresentStep
  <2>5. Object!Insert(i[t])
    BY <1>1, <1>3, <1>4, <2>1, <2>2, <2>3, <2>4 DEF Object!Insert
  <2> QED  BY <1>2, <2>2, <2>5 DEF Object!Next
<1>6. CASE DeleteUnlinkNext(t)
  <2>1. ~InsertLinkPrev(t, i[t]) /\ ~LengthReturn(t, i[t])
    BY <1>6 DEF InsertLinkPrev, DeleteUnlinkNext, LengthReturn
  <2>2. i[t] \in Elements \ ConsumedElements /\ ConsumedElements' = ConsumedElements \cup {i[t]}
    BY <1>6, ConsumedStep
  <2>3. InsertedElements' = InsertedElements
    BY <2>1, InsertedStep
  <2>4. PICK v \in Present : key[v] = key[i[t]] /\ Present' = Present \ {v}
    BY <1>6, PresentStep
  <2>5. pc[t] \in DeletePhase \cap DeleteLabels
    BY <1>6 DEF DeleteUnlinkNext, DeletePhase, DeleteLabels
  <2>6. Owner(i[t]) = t
    BY <2>5, IndexIsOwn
  <2>7. i[t] \in InsertedElements
    BY <2>2, <2>5, <2>6, OwnElements DEF InsertPhase, InsertLabels, DeleteLabels
  <2>8. [s \in Threads |-> MeasuredLists(s)][i[t] % ThreadNum] = Lists
    BY <2>5, <2>6 DEF Owner, MeasuredLists
  <2>9. v \in Object!Matches(i[t])
    BY <1>3, <2>4 DEF Object!Matches
  <2>10. Object!Remove(i[t])
    BY <1>1, <1>2, <1>3, <1>4, <2>1, <2>2, <2>3, <2>4, <2>7, <2>8, <2>9 DEF Object!Remove
  <2> QED  BY <1>2, <2>2, <2>10 DEF Object!Next
<1>7. CASE LengthReturn(t, i[t])
  <2>1. ~InsertLinkPrev(t, i[t]) /\ ~DeleteUnlinkNext(t)
    BY <1>7 DEF InsertLinkPrev, DeleteUnlinkNext, LengthReturn
  <2>2. InsertedElements' = InsertedElements /\ ConsumedElements' = ConsumedElements
    BY <2>1, InsertedStep, ConsumedStep
  <2>3. Present' = Present
    BY <2>1, PresentStep
  <2>4. /\ \A s \in Threads \ {t} : /\ MeasuredLists(s)' = MeasuredLists(s)
                                    /\ TotalLength(s)' = TotalLength(s)
        /\ i[t] \in Lists \ MeasuredLists(t)
        /\ MeasuredLists(t)' = MeasuredLists(t) \cup {i[t]}
        /\ TotalLength(t)' = TotalLength(t) + cnt[t]
    BY <1>7, MeasuredStep
  <2>5. pc[t] = "lengthScan" /\ cur[t] = ListHead(i[t])
    BY <1>7 DEF LengthReturn
  <2>6. cnt[t] = Cardinality(Chain(i[t]))
    <3>1. Holds(t, i[t])
      BY <2>5 DEF Holds, LengthLabels
    <3> QED  BY <2>4, <2>5, <3>1, CountIsLength
  <2>7. Chain(i[t]) = Object!OnList(Present, i[t])
    BY <2>4, OnListIsChain
  <2>8. Object!Own(t) \subseteq InsertedElements \ ConsumedElements
    BY <1>2, <2>5, OwnElements DEF Object!Own, Owner, InsertPhase, DeletePhase, InsertLabels,
       DeleteLabels
  <2>9. /\ [s \in Threads |-> MeasuredLists(s)]'
             = [[s \in Threads |-> MeasuredLists(s)] EXCEPT ![t] = @ \cup {i[t]}]
        /\ [s \in Threads |-> TotalLength(s)]'
             = [[s \in Threads |-> TotalLength(s)] EXCEPT ![t] = @ + cnt[t]]
    BY <2>4 DEF Threads
  <2>10. Object!Measure(t, i[t])
    <3>1. cnt[t] = Object!Cardinality(Object!OnList(UNION {Chain(l) : l \in Lists}, i[t]))
      BY <1>3, <2>6, <2>7, SameCardinality
    <3>2. i[t] \notin [s \in Threads |-> MeasuredLists(s)][t]
      BY <2>4
    <3> QED  BY ONLY <1>1, <1>3, <2>2, <2>3, <2>8, <2>9, <3>1, <3>2 DEF Object!Measure
  <2> QED  BY <1>2, <2>4, <2>10 DEF Object!Next
<1>8. CASE ~InsertLinkPrev(t, i[t]) /\ ~DeleteUnlinkNext(t) /\ ~LengthReturn(t, i[t])
  <2>1. InsertedElements' = InsertedElements /\ ConsumedElements' = ConsumedElements
    BY <1>8, InsertedStep, ConsumedStep
  <2>2. Present' = Present
    BY <1>8, PresentStep
  <2> QED  BY <1>1, <1>3, <1>4, <1>8, <2>1, <2>2 DEF Object!vars
<1> QED  BY <1>5, <1>6, <1>7, <1>8

\* Every step of the program is one of the object's, or a stutter.
LEMMA NextImplements ==
  ListInv /\ ListInv' /\ [Next]_vars => [Object!Next]_(Object!vars)
<1> SUFFICES ASSUME ListInv, ListInv', [Next]_vars PROVE [Object!Next]_(Object!vars)
  OBVIOUS
<1>1. ASSUME UNCHANGED <<next, key, list_len>>,
             InsertedElements' = InsertedElements, ConsumedElements' = ConsumedElements,
             \A t \in Threads : /\ MeasuredLists(t)' = MeasuredLists(t)
                                /\ TotalLength(t)' = TotalLength(t)
      PROVE  UNCHANGED Object!vars
  <2>1. \A l \in Lists : Chain(l)' = Chain(l)
    BY <1>1 DEF Chain, ListHead
  <2>2. UNION {Chain(l) : l \in Lists}' = UNION {Chain(l) : l \in Lists}
    BY <2>1 DEF Lists
  <2>3. /\ [s \in Threads |-> MeasuredLists(s)]' = [s \in Threads |-> MeasuredLists(s)]
        /\ [s \in Threads |-> TotalLength(s)]' = [s \in Threads |-> TotalLength(s)]
    BY <1>1 DEF Threads
  <2> QED  BY <1>1, <2>2, <2>3 DEF Object!vars
<1>2. CASE MainStep
  BY <1>1, <1>2, MainEffects DEF ListInv
<1>3. CASE UNCHANGED vars
  BY <1>1, <1>3 DEF vars, listVars, opsVars, InsertedElements, ConsumedElements,
     MeasuredLists, TotalLength, Counted, Owner
<1> QED  BY <1>2, <1>3, ThreadImplements DEF Next, Terminated

\* With a --sync option the statements of SortedList.c under the locks implement
\* indivisible insertions, measurements and deletions (lab2_list.c:139-245).
THEOREM ListImplementsObject == Locking /\ Spec => ImplementsListObject
  BY NextImplements, InitObject, SpecListInv, PTL DEF Spec, ImplementsListObject, Object!Spec

-----------------------------------------------------------------------------
(* No failure.                                                               *)

\* The results about the object, under the refinement mapping.
ObjectResults == INSTANCE ListObject_proofs
                   WITH Place <- [k \in Keys |-> FirstChar[k] % ListNum],
                        present <- UNION {Chain(l) : l \in Lists},
                        inserted <- InsertedElements,
                        consumed <- ConsumedElements,
                        measured <- [t \in Threads |-> MeasuredLists(t)],
                        total <- [t \in Threads |-> TotalLength(t)]

\* The object's balance of elements, in the state of the program.
Balanced == ObjectResults!TypeOK /\ ObjectResults!ClassesBalance

\* The program's constants are constants of the object.
LEMMA ObjectConstantsAllowed == ObjectResults!ObjectAssumption
<1> SUFFICES ASSUME NEW k \in Keys PROVE FirstChar[k] % ListNum \in 0..(ListNum - 1)
  BY OpsAssumption, ListAssumption DEF ObjectResults!ObjectAssumption
<1>1. FirstChar[k] \in Nat
  BY OpsAssumption
<1>2. ListNum \in Nat \ {0}
  BY ListAssumption
<1> QED  BY <1>1, <1>2

\* Initially nothing is inserted.
LEMMA InitBalanced == Init => Balanced
  BY InitObject, ObjectConstantsAllowed, ObjectResults!InitBalance
  DEF Balanced, Object!Init, ObjectResults!Init, Object!Threads, ObjectResults!Threads,
      Object!Elements, ObjectResults!Elements

\* Every step keeps the balance.
LEMMA NextBalanced == ListInv /\ ListInv' /\ Balanced /\ [Next]_vars => Balanced'
<1> SUFFICES ASSUME ListInv, ListInv', Balanced, [Next]_vars PROVE Balanced'
  OBVIOUS
<1>1. [Object!Next]_(Object!vars)
  BY NextImplements
<1>2. [ObjectResults!Next]_(ObjectResults!vars)
  BY <1>1
  DEF Object!Next, ObjectResults!Next, Object!vars, ObjectResults!vars,
      Object!Insert, ObjectResults!Insert, Object!Remove, ObjectResults!Remove,
      Object!Measure, ObjectResults!Measure, Object!Matches, ObjectResults!Matches,
      Object!OnList, ObjectResults!OnList, Object!Own, ObjectResults!Own,
      Object!Threads, ObjectResults!Threads, Object!Lists, ObjectResults!Lists,
      Object!Elements, ObjectResults!Elements, Object!Cardinality, ObjectResults!Cardinality
<1> QED  BY <1>2, ObjectResults!TypeStep, ObjectResults!BalanceStep, ObjectConstantsAllowed
         DEF Balanced

\* A lookup under the lock ends at an element: its walk has passed every element
\* of the list when it is back at the head, and one of them has its key.
LEMMA LookupFinds ==
  ASSUME ListInv, Balanced, NEW t \in Threads, pc[t] = "lookupScan"
  PROVE  cur[t] # ListHead(ListOf(i[t]))
<1> SUFFICES ASSUME cur[t] = ListHead(ListOf(i[t])) PROVE FALSE
  OBVIOUS
<1>1. i[t] \in Elements /\ Owner(i[t]) = t
  BY IndexIsOwn DEF ListInv, DeleteLabels
<1>2. ListOf(i[t]) \in Lists /\ TypeOK
  BY <1>1, ListOfType DEF ListInv, IInv
<1>3. i[t] \in InsertedElements \ ConsumedElements
  <2>1. i[t] \in InsertedElements
    BY <1>1, OwnElements DEF InsertPhase, InsertLabels
  <2>2. i[t] \notin ConsumedElements
    BY <1>1, OpsAssumption DEF ConsumedElements, Elements
  <2> QED  BY <2>1, <2>2
<1>4. ObjectResults!NeverMisses
  BY ObjectResults!BalanceNeverMisses, ObjectConstantsAllowed DEF Balanced
<1>5. PICK v \in Present : key[v] = key[i[t]]
  BY <1>3, <1>4 DEF ObjectResults!NeverMisses, ObjectResults!Matches, Present
<1>6. v \in Chain(ListOf(i[t]))
  <2>1. PICK m \in Lists : v \in Chain(m)
    BY DEF Present
  <2>2. ListOf(v) = m
    BY <2>1, ChainFacts
  <2>3. ListOf(v) = ListOf(i[t])
    BY <1>5 DEF ListOf
  <2> QED  BY <2>1, <2>2, <2>3
<1>7. PICK l \in Lists : l = ListOf(i[t])
  BY <1>2
<1>8. PICK n \in Nat : \E r : Ring(l, n, r)
  BY DEF ListInv, RingInv
<1>9. PICK r : Ring(l, n, r)
  BY <1>8
<1>10. Circle(l, n, r) /\ Stands(t, l, n, r)
  BY <1>7, <1>9, AgentFacts DEF Ring, Holds, DeleteLabels
<1>11. PICK p \in 1..n+1 : cur[t] = r[p] /\ \A j \in 1..p-1 : key[r[j]] # key[i[t]]
  BY <1>10 DEF Stands
<1>12. \A k \in 1..n : r[k] # ListHead(l)
  BY <1>10, CircleNodes
<1>13. p = n + 1
  BY <1>7, <1>11, <1>12
<1>14. \A j \in 1..n : key[r[j]] # key[i[t]]
  BY <1>11, <1>13
<1>15. Chain(l) = On(n, r)
  BY <1>2, <1>10, CircleIsChain DEF CirclesAreChains
<1> QED  BY <1>5, <1>6, <1>7, <1>14, <1>15 DEF On

\* When main checks the lists every element is consumed and every list is empty.
LEMMA ListsEndEmpty ==
  ASSUME ListInv, Balanced, pc[Main] = "counted"
  PROVE  cnt[Main] = 0
<1>1. \A t \in Threads : pc[t] = "returned" /\ i[t] >= OpNum /\ i[t] \in Nat
  BY AgentFacts DEF ListInv, LoopInv, LengthLabels, IInv, TypeOK
<1>2. ConsumedElements = Elements
  <2> SUFFICES ASSUME NEW e \in Elements PROVE e \in ConsumedElements
    BY DEF ConsumedElements
  <2>1. pc[Owner(e)] = "returned" /\ i[Owner(e)] >= OpNum /\ i[Owner(e)] \in Nat
    BY <1>1, OwnerIsThread
  <2>2. e < i[Owner(e)]
    BY <2>1, ListAssumption DEF Elements
  <2> QED  BY <2>1, <2>2 DEF ConsumedElements, DeletePhase
<1>3. ObjectResults!EndsEmpty
  BY ObjectResults!BalanceEndsEmpty, ObjectConstantsAllowed DEF Balanced
<1>4. ObjectResults!Elements = Elements
  <2>1. ThreadNum * IterNum = OpNum
    BY OpsAssumption
  <2> QED  BY <2>1 DEF ObjectResults!Elements, Elements
<1>5. \A l \in Lists : Chain(l) = {}
  BY <1>2, <1>3, <1>4 DEF ObjectResults!EndsEmpty
<1>6. PICK l \in Lists : l = i[Main]
  BY DEF ListInv, IInv, IndexInv, LengthLabels
<1>7. cnt[Main] = Cardinality(Chain(l))
  BY <1>6, AgentFacts, CountIsLength DEF Holds, LengthLabels
<1> QED  BY <1>5, <1>7, FS_EmptySet

\* No step of a process that has not failed makes it fail.
LEMMA NextNoFailure ==
  ListInv /\ Balanced /\ NoFailure /\ [Next]_vars => NoFailure'
<1> SUFFICES ASSUME ListInv, Balanced, NoFailure, [Next]_vars PROVE NoFailure'
  OBVIOUS
<1>1. IInv /\ TypeOK /\ Threads' = Threads
  BY DEF ListInv, IInv, Threads
<1>2. CASE UNCHANGED vars
  BY <1>2 DEF vars, listVars, opsVars, NoFailure, Threads
<1>3. ASSUME NEW t \in Threads, ThreadStep(t) PROVE NoFailure'
  <2> t \in Agents
    BY AgentFacts
  <2>1. ~Fail(t)
    BY DEF Fail, NoFailure
  <2>2. \A s \in Threads \ {t} : pc'[s] = pc[s]
    BY <1>1, <1>3, AgentFacts, ThreadFrame
  <2>3. pc'[t] # "failed"
    <3>1. CASE OwnStep(t)
      BY <1>1, <3>1
      DEF OwnStep, BeginInsert, EndInsert, InsertsDone, BeginLength, EndLength, LengthsDone,
          AcquireGlobal, AddLength, BeginDelete, EndDelete, DeletesDone, GoTo, TypeOK
    <3>2. CASE InsertStep(t, ListOf(i[t]), i[t]) \/ LengthStep(t, i[t])
      BY <1>1, <3>2
      DEF InsertStep, InsertEntry, InsertPast, InsertLinkElement, InsertLinkPrev,
          InsertLinkCur, LengthStep, LengthEntry, LengthNext, LengthReturn, StartWalk,
          GoTo, TypeOK
    <3>3. CASE LookupStep(t, ListOf(i[t]), i[t])
      <4>1. ~LookupMiss(t, ListOf(i[t]))
        BY LookupFinds DEF LookupMiss
      <4> QED  BY <1>1, <3>3, <4>1
               DEF LookupStep, LookupEntry, LookupNext, LookupHit, StartWalk, GoTo, TypeOK
    <3>4. CASE DeleteStep(t)
      <4>1. pc[t] = "delete" => prev[next[cur[t]]] = next[prev[cur[t]]]
        <5> SUFFICES ASSUME pc[t] = "delete" PROVE prev[next[cur[t]]] = next[prev[cur[t]]]
          OBVIOUS
        <5>1. PICK l \in Lists : l = ListOf(i[t])
          BY <1>1, HeldNodes DEF DeleteLabels
        <5>2. PICK n \in Nat : \E r : Ring(l, n, r)
          BY DEF ListInv, RingInv
        <5>3. PICK r : Ring(l, n, r)
          BY <5>2
        <5>4. Circle(l, n, r) /\ Stands(t, l, n, r)
          BY <5>1, <5>3 DEF Ring, Holds, DeleteLabels
        <5> QED  BY <5>4, CheckPasses
      <4> QED  BY <1>1, <3>4, <4>1
               DEF DeleteStep, DeleteCheck, DeleteUnlinkNext, DeleteUnlinkPrev, GoTo, TypeOK
    <3> QED  BY <1>3, <2>1, <3>1, <3>2, <3>3, <3>4 DEF ThreadStep, CallStep
  <2>4. status' = status
    BY <1>3, <2>1 DEF ThreadStep
  <2> QED  BY <1>1, <2>2, <2>3, <2>4 DEF NoFailure
<1>4. CASE MainStep
  <2>1. \A t \in Threads : pc'[t] = pc[t] \/ pc'[t] = "insertLoop"
    BY <1>1, <1>4, MainFrame, AgentFacts DEF Create, TypeOK
  <2>2. ~NotEmpty
    BY ListsEndEmpty DEF NotEmpty
  <2>3. status' # "exit2"
    BY <1>4, <2>2 DEF MainStep, MainWorks, Create, CreateFails, CreateDone, Join, JoinDone,
       BeginCheck, CheckStep, EndCheck, Report, opsVars, NoFailure
  <2> QED  BY <1>1, <2>1, <2>3 DEF NoFailure
<1> QED  BY <1>2, <1>3, <1>4 DEF Next, Terminated

\* lab2_list.c:104-113, 416-423: with a --sync option no thread fails to find or to
\* delete an element, although equal keys make it delete another thread's, and main
\* finds every list empty.
THEOREM ListNeverFails == Locking /\ Spec => []NoFailure
<1>1. Init => NoFailure
  BY AgentFacts DEF Init, NoFailure
<1>2. Locking /\ Spec => [](ListInv /\ Balanced)
  BY InitBalanced, NextBalanced, SpecListInv, PTL DEF Spec
<1> QED  BY <1>1, <1>2, NextNoFailure, PTL DEF Spec
=============================================================================

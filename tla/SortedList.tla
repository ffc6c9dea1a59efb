----------------------------- MODULE SortedList -----------------------------
(* Lab2B/SortedList.c (Lab2A's copy is identical): circular doubly linked    *)
(* lists, each kept in ascending key order, and the four operations on them  *)
(* as steps of concurrent agents.  A step is a statement that touches shared *)
(* nodes; a test of an agent's own variables and of the keys, which never    *)
(* change, belongs to the step that follows it.  sched_yield() is a          *)
(* stuttering step between two of them.                                      *)
EXTENDS Integers

CONSTANTS Agents,   \* the threads that call the operations
          ListNum,  \* the number of lists
          OpNum,    \* the number of elements
          Keys,     \* the keys; strcmp's order is the order of the numbers
          NULL      \* the content of a pointer malloc has not initialised

Lists == 0..(ListNum - 1)
Elements == 0..(OpNum - 1)
ListHead(l) == -1 - l
Heads == {ListHead(l) : l \in Lists}
Nodes == Elements \cup Heads

ASSUME ListAssumption == /\ ListNum \in Nat \ {0}
                         /\ OpNum \in Nat
                         /\ Keys \subseteq Nat
                         /\ NULL \notin Nodes

VARIABLES next, prev,  \* the links of every node
          key,         \* the key of every element
          pc,          \* pc[a]: where agent a is
          cur,         \* cur[a]: current in insert, lookup, length; the
                       \*         element to delete in delete
          cnt          \* cnt[a]: counter in length

links == <<next, prev>>
listVars == <<next, prev, key, pc, cur, cnt>>

\* A walk over a corrupted list may never meet the head again; its count stops
\* at MaxCount.  An intact list is shorter.
MaxCount == OpNum + 1

GoTo(a, label) == pc' = [pc EXCEPT ![a] = label]
SetCur(a, n) == cur' = [cur EXCEPT ![a] = n]

\* current = list->next, at the start of a walk.
StartWalk(a, l, from, to) == /\ pc[a] = from
                             /\ SetCur(a, next[ListHead(l)])
                             /\ GoTo(a, to)
                             /\ UNCHANGED <<links, key, cnt>>

-----------------------------------------------------------------------------
(* SortedList_insert(&list[l], &element[e]).                                 *)

InsertEntry(a, l) == StartWalk(a, l, "insert", "insertScan")

\* Fault: the comparison of the keys is the wrong way round.
InsertBeforeSmaller(a, l, e) == cur[a] # ListHead(l) => key[e] >= key[cur[a]]

\* The loop ends at the head or at the first key that is not smaller.
InsertBefore(a, l, e) == cur[a] # ListHead(l) => key[e] <= key[cur[a]]

InsertPast(a, l, e) == /\ pc[a] = "insertScan"
                       /\ ~InsertBefore(a, l, e)
                       /\ SetCur(a, next[cur[a]])
                       /\ UNCHANGED <<links, key, pc, cnt>>

\* Fault: element->prev is left as malloc gave it.
InsertLinkNextOnly(a, l, e) ==
  /\ pc[a] = "insertScan"
  /\ InsertBefore(a, l, e)
  /\ next' = [next EXCEPT ![e] = cur[a]]
  /\ GoTo(a, "insertPrev")
  /\ UNCHANGED <<prev, key, cur, cnt>>

\* element->next = current; element->prev = current->prev
InsertLinkElement(a, l, e) ==
  /\ pc[a] = "insertScan"
  /\ InsertBefore(a, l, e)
  /\ next' = [next EXCEPT ![e] = cur[a]]
  /\ prev' = [prev EXCEPT ![e] = prev[cur[a]]]
  /\ GoTo(a, "insertPrev")
  /\ UNCHANGED <<key, cur, cnt>>

\* current->prev->next = element
InsertLinkPrev(a, e) == /\ pc[a] = "insertPrev"
                        /\ next' = [next EXCEPT ![prev[cur[a]]] = e]
                        /\ GoTo(a, "insertCur")
                        /\ UNCHANGED <<prev, key, cur, cnt>>

\* current->prev = element; return
InsertLinkCur(a, e) == /\ pc[a] = "insertCur"
                       /\ prev' = [prev EXCEPT ![cur[a]] = e]
                       /\ SetCur(a, NULL)
                       /\ GoTo(a, "inserted")
                       /\ UNCHANGED <<next, key, cnt>>

InsertStep(a, l, e) == \/ InsertEntry(a, l)
                       \/ InsertPast(a, l, e)
                       \/ InsertLinkElement(a, l, e)
                       \/ InsertLinkPrev(a, e)
                       \/ InsertLinkCur(a, e)

-----------------------------------------------------------------------------
(* SortedList_lookup(&list[l], element[e].key), whose result, if any, is     *)
(* passed to SortedList_delete.                                              *)

LookupEntry(a, l) == StartWalk(a, l, "lookup", "lookupScan")

\* Fault: current is not advanced.
LookupStays(a, l, e) == /\ pc[a] = "lookupScan"
                        /\ cur[a] # ListHead(l)
                        /\ key[cur[a]] # key[e]
                        /\ UNCHANGED listVars

LookupNext(a, l, e) == /\ pc[a] = "lookupScan"
                       /\ cur[a] # ListHead(l)
                       /\ key[cur[a]] # key[e]
                       /\ SetCur(a, next[cur[a]])
                       /\ UNCHANGED <<links, key, pc, cnt>>

LookupHit(a, l, e) == /\ pc[a] = "lookupScan"
                      /\ cur[a] # ListHead(l)
                      /\ key[cur[a]] = key[e]
                      /\ GoTo(a, "delete")
                      /\ UNCHANGED <<links, key, cur, cnt>>

LookupMiss(a, l) == /\ pc[a] = "lookupScan"
                    /\ cur[a] = ListHead(l)
                    /\ GoTo(a, "failed")
                    /\ UNCHANGED <<links, key, cur, cnt>>

LookupStep(a, l, e) == \/ LookupEntry(a, l)
                       \/ LookupNext(a, l, e)
                       \/ LookupHit(a, l, e)
                       \/ LookupMiss(a, l)

-----------------------------------------------------------------------------
(* SortedList_delete(element).                                               *)

\* element->next->prev == element->prev->next
DeleteCheck(a) == /\ pc[a] = "delete"
                  /\ IF prev[next[cur[a]]] = next[prev[cur[a]]]
                     THEN GoTo(a, "deleteNext")
                     ELSE GoTo(a, "failed")
                  /\ UNCHANGED <<links, key, cur, cnt>>

\* element->prev->next = element->next
DeleteUnlinkNext(a) == /\ pc[a] = "deleteNext"
                       /\ next' = [next EXCEPT ![prev[cur[a]]] = next[cur[a]]]
                       /\ GoTo(a, "deletePrev")
                       /\ UNCHANGED <<prev, key, cur, cnt>>

\* Fault: the back pointer of the successor is not updated.
DeleteNoBackLink(a) == /\ pc[a] = "deletePrev"
                       /\ SetCur(a, NULL)
                       /\ GoTo(a, "deleted")
                       /\ UNCHANGED <<links, key, cnt>>

\* element->next->prev = element->prev; return 0
DeleteUnlinkPrev(a) == /\ pc[a] = "deletePrev"
                       /\ prev' = [prev EXCEPT ![next[cur[a]]] = prev[cur[a]]]
                       /\ SetCur(a, NULL)
                       /\ GoTo(a, "deleted")
                       /\ UNCHANGED <<next, key, cnt>>

DeleteStep(a) == DeleteCheck(a) \/ DeleteUnlinkNext(a) \/ DeleteUnlinkPrev(a)

-----------------------------------------------------------------------------
(* SortedList_length(&list[l]); the count is left in cnt[a].                 *)

LengthEntry(a, l) == StartWalk(a, l, "length", "lengthScan")

LengthNext(a, l) == /\ pc[a] = "lengthScan"
                    /\ cur[a] # ListHead(l)
                    /\ cnt' = [cnt EXCEPT ![a] = IF @ < MaxCount THEN @ + 1 ELSE @]
                    /\ SetCur(a, next[cur[a]])
                    /\ UNCHANGED <<links, key, pc>>

LengthReturn(a, l) == /\ pc[a] = "lengthScan"
                      /\ cur[a] = ListHead(l)
                      /\ SetCur(a, NULL)
                      /\ GoTo(a, "counted")
                      /\ UNCHANGED <<links, key, cnt>>

LengthStep(a, l) == LengthEntry(a, l) \/ LengthNext(a, l) \/ LengthReturn(a, l)

-----------------------------------------------------------------------------
(* What an intact list is.                                                   *)

\* The nodes met from the head of list l along next, the head itself apart.
\* It is meaningful while every link on the way is initialised.
Chain(l) ==
  LET walk[k \in 0..OpNum + 1] == IF k = 0 THEN ListHead(l) ELSE next[walk[k - 1]]
  IN  {walk[k] : k \in 1..OpNum + 1} \ {ListHead(l)}

\* next and prev are inverse to each other on list l and lead back to its head,
\* and the keys ascend.
Intact(l) ==
  LET on == Chain(l) \cup {ListHead(l)}
  IN  /\ Chain(l) \subseteq Elements
      /\ \A n \in on : next[n] \in on /\ prev[next[n]] = n
      /\ \A n \in Chain(l) : next[n] # ListHead(l) => key[n] <= key[next[n]]
=============================================================================

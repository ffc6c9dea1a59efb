------------------------------- MODULE ListOps -------------------------------
(* Lab2B/lab2_list.c: ThreadNum threads insert their elements into ListNum   *)
(* sorted lists, add up the lengths of the lists, then look up and delete an *)
(* element for each of their keys.  Every list has a lock, and list_len has  *)
(* the global lock.  main creates and joins the threads and ends with a      *)
(* check that every list is empty.                                           *)
EXTENDS SortedList

CONSTANTS ThreadNum,  \* --threads
          IterNum,    \* --iterations
          OptSync,    \* --sync, "none" when the option is absent
          FirstChar   \* FirstChar[k]: the first character of key k

Threads == 0..(ThreadNum - 1)
Main == ThreadNum

ASSUME OpsAssumption ==
  /\ ThreadNum \in Nat \ {0}
  /\ IterNum \in Nat \ {0}
  /\ OpNum = IterNum * ThreadNum
  /\ Agents = Threads \cup {Main}
  /\ OptSync \in {"m", "s", "none"}
  /\ FirstChar \in [Keys -> Nat]
  /\ \A j, k \in Keys : j <= k => FirstChar[j] <= FirstChar[k]

VARIABLES lock,      \* lock[l]: mutex[l] or spin[l], 1 while it is taken
          global,    \* global_mutex or global_spin
          i,         \* i[a]: the loop index of a
          list_len,  \* list_len[t]: the sum of the lengths t has seen
          status     \* "running", or the exit status of the process

opsVars == <<lock, global, i, list_len, status>>
vars == <<listVars, opsVars>>

Locking == OptSync \in {"m", "s"}

\* list_ind[e]: the list that element e belongs to.
ListOf(e) == FirstChar[key[e]] % ListNum

\* main up to the creation of the threads: empty lists, random keys, and
\* elements as malloc left them.
Init == /\ next = [n \in Nodes |-> IF n \in Heads THEN n ELSE NULL]
        /\ prev = [n \in Nodes |-> IF n \in Heads THEN n ELSE NULL]
        /\ key \in [Elements -> Keys]
        /\ pc = [a \in Agents |-> IF a = Main THEN "create" ELSE "unborn"]
        /\ cur = [a \in Agents |-> NULL]
        /\ cnt = [a \in Agents |-> 0]
        /\ lock = [l \in Lists |-> 0]
        /\ global = 0
        /\ i = [a \in Agents |-> IF a = Main THEN 0 ELSE a]
        /\ list_len = [t \in Threads |-> 0]
        /\ status = "running"

-----------------------------------------------------------------------------
(* list_ops(), the thread body.                                              *)

SetIndex(a, n) == i' = [i EXCEPT ![a] = n]

\* Fault: the old value returned by the test-and-set is ignored.
AcquireIgnoringHolder(l) == lock' = IF Locking THEN [lock EXCEPT ![l] = 1] ELSE lock

Acquire(l) == IF Locking
              THEN lock[l] = 0 /\ lock' = [lock EXCEPT ![l] = 1]
              ELSE UNCHANGED lock

Release(l) == lock' = IF Locking THEN [lock EXCEPT ![l] = 0] ELSE lock

\* One iteration of the insert loop, up to the call of SortedList_insert.
BeginInsert(t) == /\ pc[t] = "insertLoop"
                  /\ i[t] < OpNum
                  /\ Acquire(ListOf(i[t]))
                  /\ GoTo(t, "insert")
                  /\ UNCHANGED <<links, key, cur, cnt, global, i, list_len>>

EndInsert(t) == /\ pc[t] = "inserted"
                /\ Release(ListOf(i[t]))
                /\ SetIndex(t, i[t] + ThreadNum)
                /\ GoTo(t, "insertLoop")
                /\ UNCHANGED <<links, key, cur, cnt, global, list_len>>

InsertsDone(t) == /\ pc[t] = "insertLoop"
                  /\ i[t] >= OpNum
                  /\ SetIndex(t, 0)
                  /\ GoTo(t, "lengthLoop")
                  /\ UNCHANGED <<links, key, cur, cnt, lock, global, list_len>>

\* Fault: the length is counted without the lock of the list.
BeginLengthUnlocked(t) == /\ pc[t] = "lengthLoop"
                          /\ i[t] < ListNum
                          /\ GoTo(t, "length")
                          /\ UNCHANGED <<links, key, cur, cnt, opsVars>>

\* One iteration of the loop over the lists.
BeginLength(t) == /\ pc[t] = "lengthLoop"
                  /\ i[t] < ListNum
                  /\ Acquire(i[t])
                  /\ GoTo(t, "length")
                  /\ UNCHANGED <<links, key, cur, cnt, global, i, list_len>>

EndLength(t) == /\ pc[t] = "counted"
                /\ Release(i[t])
                /\ GoTo(t, "total")
                /\ UNCHANGED <<links, key, cur, cnt, global, i, list_len>>

AcquireGlobal(t) == /\ pc[t] = "total"
                    /\ global = 0
                    /\ global' = IF Locking THEN 1 ELSE 0
                    /\ GoTo(t, "add")
                    /\ UNCHANGED <<links, key, cur, cnt, lock, i, list_len>>

\* list_len += temp_len, and the release of the global lock.
AddLength(t) == /\ pc[t] = "add"
                /\ list_len' = [list_len EXCEPT ![t] = @ + cnt[t]]
                /\ cnt' = [cnt EXCEPT ![t] = 0]
                /\ global' = 0
                /\ SetIndex(t, i[t] + 1)
                /\ GoTo(t, "lengthLoop")
                /\ UNCHANGED <<links, key, cur, lock>>

LengthsDone(t) == /\ pc[t] = "lengthLoop"
                  /\ i[t] >= ListNum
                  /\ SetIndex(t, t)
                  /\ GoTo(t, "deleteLoop")
                  /\ UNCHANGED <<links, key, cur, cnt, lock, global, list_len>>

\* One iteration of the delete loop, up to the call of lookup_and_delete.
BeginDelete(t) == /\ pc[t] = "deleteLoop"
                  /\ i[t] < OpNum
                  /\ Acquire(ListOf(i[t]))
                  /\ GoTo(t, "lookup")
                  /\ UNCHANGED <<links, key, cur, cnt, global, i, list_len>>

EndDelete(t) == /\ pc[t] = "deleted"
                /\ Release(ListOf(i[t]))
                /\ SetIndex(t, i[t] + ThreadNum)
                /\ GoTo(t, "deleteLoop")
                /\ UNCHANGED <<links, key, cur, cnt, global, list_len>>

DeletesDone(t) == /\ pc[t] = "deleteLoop"
                  /\ i[t] >= OpNum
                  /\ GoTo(t, "returned")
                  /\ UNCHANGED <<links, key, cur, cnt, lock, global, i, list_len>>

OwnStep(t) == \/ BeginInsert(t) \/ EndInsert(t) \/ InsertsDone(t)
              \/ BeginLength(t) \/ EndLength(t) \/ LengthsDone(t)
              \/ AcquireGlobal(t) \/ AddLength(t)
              \/ BeginDelete(t) \/ EndDelete(t) \/ DeletesDone(t)

\* A step inside one of the calls of SortedList.c.
CallStep(t) == /\ \/ InsertStep(t, ListOf(i[t]), i[t])
                  \/ LookupStep(t, ListOf(i[t]), i[t])
                  \/ DeleteStep(t)
                  \/ LengthStep(t, i[t])
               /\ UNCHANGED <<lock, global, i, list_len>>

\* lookup_and_delete() found no element, or a corrupted one: exit(2).
Fail(t) == /\ pc[t] = "failed"
           /\ status' = "exit2"
           /\ UNCHANGED <<listVars, lock, global, i, list_len>>

ThreadStep(t) == /\ status = "running"
                 /\ \/ (OwnStep(t) \/ CallStep(t)) /\ UNCHANGED status
                    \/ Fail(t)

-----------------------------------------------------------------------------
(* main().                                                                   *)

Create == /\ pc[Main] = "create"
          /\ i[Main] < ThreadNum
          /\ pc' = [pc EXCEPT ![i[Main]] = "insertLoop"]
          /\ SetIndex(Main, i[Main] + 1)
          /\ UNCHANGED <<links, key, cur, cnt, lock, global, list_len, status>>

\* pthread_create fails: exit(1) ends the threads already running.
CreateFails == /\ pc[Main] = "create"
               /\ i[Main] < ThreadNum
               /\ status' = "exit1"
               /\ UNCHANGED <<listVars, lock, global, i, list_len>>

CreateDone == /\ pc[Main] = "create"
              /\ i[Main] >= ThreadNum
              /\ SetIndex(Main, 0)
              /\ GoTo(Main, "join")
              /\ UNCHANGED <<links, key, cur, cnt, lock, global, list_len, status>>

Join == /\ pc[Main] = "join"
        /\ i[Main] < ThreadNum
        /\ pc[i[Main]] = "returned"
        /\ SetIndex(Main, i[Main] + 1)
        /\ UNCHANGED <<listVars, lock, global, list_len, status>>

JoinDone == /\ pc[Main] = "join"
            /\ i[Main] >= ThreadNum
            /\ SetIndex(Main, 0)
            /\ GoTo(Main, "checkLoop")
            /\ UNCHANGED <<links, key, cur, cnt, lock, global, list_len, status>>

\* The final SortedList_length of list i, without a lock.
BeginCheck == /\ pc[Main] = "checkLoop"
              /\ i[Main] < ListNum
              /\ GoTo(Main, "length")
              /\ UNCHANGED <<links, key, cur, cnt, opsVars>>

CheckStep == LengthStep(Main, i[Main]) /\ UNCHANGED opsVars

EndCheck == /\ pc[Main] = "counted"
            /\ cnt[Main] = 0
            /\ SetIndex(Main, i[Main] + 1)
            /\ GoTo(Main, "checkLoop")
            /\ UNCHANGED <<links, key, cur, cnt, lock, global, list_len, status>>

NotEmpty == /\ pc[Main] = "counted"
            /\ cnt[Main] # 0
            /\ status' = "exit2"
            /\ UNCHANGED <<listVars, lock, global, i, list_len>>

Report == /\ pc[Main] = "checkLoop"
          /\ i[Main] >= ListNum
          /\ status' = "exit0"
          /\ UNCHANGED <<listVars, lock, global, i, list_len>>

MainWorks == /\ status = "running"
             /\ \/ Create \/ CreateDone \/ Join \/ JoinDone
                \/ BeginCheck \/ CheckStep \/ EndCheck \/ NotEmpty \/ Report

MainStep == MainWorks \/ (status = "running" /\ CreateFails)

\* The process is gone.
Terminated == status # "running" /\ UNCHANGED vars

Next == \/ \E t \in Threads : ThreadStep(t)
        \/ MainStep
        \/ Terminated

Spec == Init /\ [][Next]_vars

\* The kernel runs every runnable thread sooner or later.
FairSpec == /\ Spec
            /\ \A t \in Threads : WF_vars(ThreadStep(t))
            /\ WF_vars(MainWorks)

-----------------------------------------------------------------------------
(* Who is where.                                                             *)

InsertLabels == {"insert", "insertScan", "insertPrev", "insertCur", "inserted"}
LengthLabels == {"length", "lengthScan", "counted"}
DeleteLabels == {"lookup", "lookupScan", "delete", "deleteNext", "deletePrev",
                 "deleted", "failed"}
LoopLabels == {"unborn", "insertLoop", "lengthLoop", "total", "add",
               "deleteLoop", "returned"}
MainLabels == {"create", "join", "checkLoop"} \cup LengthLabels
Labels == InsertLabels \cup LengthLabels \cup DeleteLabels \cup LoopLabels
            \cup MainLabels

\* The labels at which cur is a node that will be read or written.
WalkLabels == {"insertScan", "insertPrev", "insertCur", "lengthScan",
               "lookupScan", "delete", "deleteNext", "deletePrev"}

\* Thread t is between the lock and the unlock of list l.
Holds(t, l) == \/ pc[t] \in InsertLabels \cup DeleteLabels /\ l = ListOf(i[t])
               \/ pc[t] \in LengthLabels /\ l = i[t]

\* Thread t has written one of the two links of an update of its list.
MidUpdate(t) == pc[t] \in {"insertCur", "deletePrev"}

InsertPhase == {"unborn", "insertLoop"} \cup InsertLabels
DeletePhase == {"deleteLoop", "returned"} \cup DeleteLabels

-----------------------------------------------------------------------------
(* Properties.                                                               *)

\* The type of every variable.
TypeOK == /\ next \in [Nodes -> Nodes \cup {NULL}]
          /\ prev \in [Nodes -> Nodes \cup {NULL}]
          /\ key \in [Elements -> Keys]
          /\ pc \in [Agents -> Labels]
          /\ cur \in [Agents -> Nodes \cup {NULL}]
          /\ cnt \in [Agents -> 0..MaxCount]
          /\ lock \in [Lists -> {0, 1}]
          /\ global \in {0, 1}
          /\ i \in [Agents -> Nat]
          /\ list_len \in [Threads -> Nat]
          /\ status \in {"running", "exit0", "exit1", "exit2"}

\* The nodes whose links have been written.
Linked == {n \in Nodes : next[n] # NULL /\ prev[n] # NULL}

\* No operation follows a pointer that malloc left uninitialised: the links of
\* a linked node lead to linked nodes, and so does every walk
\* (SortedList.c:19-37, 46-53, 65-76, 88-98).
NoWildPointers ==
  /\ \A n \in Linked : next[n] \in Linked /\ prev[n] \in Linked
  /\ \A a \in Agents : pc[a] \in WalkLabels => cur[a] \in Linked

\* lab2_list.c:141-243: the lock of a list is taken exactly when one thread
\* works on that list, and never do two; the same for list_len's global lock.
MutualExclusion ==
  Locking =>
    /\ \A s, t \in Threads, l \in Lists : Holds(s, l) /\ Holds(t, l) => s = t
    /\ \A l \in Lists : lock[l] = 1 <=> \E t \in Threads : Holds(t, l)
    /\ \A s, t \in Threads : pc[s] = "add" /\ pc[t] = "add" => s = t
    /\ global = 1 <=> \E t \in Threads : pc[t] = "add"

\* SortedList.h:8-12, 31-33: a list on which no update is half done is a sorted
\* circle in which next and prev are inverse, and its elements belong there.
ListsIntact ==
  \A l \in Lists :
    (\A t \in Threads : MidUpdate(t) => ListOf(i[t]) # l)
      => Intact(l) /\ \A e \in Chain(l) : ListOf(e) = l

\* No thread reports "Failed to find element" or "Failed to delete element",
\* and main never finds a list that is not empty, although equal keys make a
\* thread delete another thread's element (lab2_list.c:104-113, 416-423).
NoFailure == status # "exit2" /\ \A t \in Threads : pc[t] # "failed"

\* The state of the abstract object: what is reachable along next, and which
\* operations of each thread have taken effect.
Owner(e) == e % ThreadNum
InsertedElements ==
  {e \in Elements : LET t == Owner(e)
                    IN  \/ pc[t] \notin InsertPhase
                        \/ e < i[t]
                        \/ e = i[t] /\ pc[t] \in {"insertCur", "inserted"}}
ConsumedElements ==
  {e \in Elements : LET t == Owner(e)
                    IN  /\ pc[t] \in DeletePhase
                        /\ e < i[t] \/ (e = i[t] /\ pc[t] \in {"deletePrev", "deleted"})}
Counted(t) == pc[t] \in {"counted", "total", "add"}
MeasuredLists(t) ==
  {l \in Lists : \/ pc[t] \in DeletePhase
                 \/ pc[t] \notin InsertPhase /\ (l < i[t] \/ (l = i[t] /\ Counted(t)))}
TotalLength(t) == list_len[t] + (IF Counted(t) THEN cnt[t] ELSE 0)

\* With a --sync option the steps of SortedList.c under the locks implement
\* indivisible insertions, measurements and deletions (lab2_list.c:139-245).
Object == INSTANCE ListObject
            WITH Place <- [k \in Keys |-> FirstChar[k] % ListNum],
                 present <- UNION {Chain(l) : l \in Lists},
                 inserted <- InsertedElements,
                 consumed <- ConsumedElements,
                 measured <- [t \in Threads |-> MeasuredLists(t)],
                 total <- [t \in Threads |-> TotalLength(t)]
ImplementsListObject == Object!Spec

\* Every thread gets its locks and the process exits (lab2_list.c:384-392).
Termination == <>(status # "running")

\* Nobody else is inside an operation on a list.
Alone(t) == \A s \in Threads \ {t} : pc[s] \in LoopLabels

\* SortedList.h:71-76: the length operation checks all pointers and returns -1,
\* not a count, if the list is corrupted.
LengthDetectsCorruption ==
  [][\A t \in Threads :
       pc[t] = "lengthScan" /\ pc'[t] = "counted" /\ Alone(t)
         => Intact(i[t])]_vars
=============================================================================

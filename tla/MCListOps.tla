----------------------------- MODULE MCListOps -----------------------------
(* Bounded instances of ListOps for TLC.                                     *)
EXTENDS ListOps

\* Keys 1 and 2 share their first character: with two lists one list gets equal
\* and different keys, the other gets key 3.
ThreeKeys == 1..3
ThreeFirstChars == <<1, 1, 2>>

\* Two keys on the same list; a second list stays empty.
TwoKeys == 1..2
SharedFirstChar == <<2, 2>>

\* The agents of a run of two threads, main included.
TwoThreads == 0..2
=============================================================================

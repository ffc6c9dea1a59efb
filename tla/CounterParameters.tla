------------------------- MODULE CounterParameters -------------------------
(* The size of a run of Lab2A/lab2_add.c.                                    *)
EXTENDS Integers

CONSTANTS ThreadNum,  \* --threads
          IterNum     \* --iterations

ASSUME CounterAssumption == /\ ThreadNum \in Nat \ {0}
                            /\ IterNum \in Nat \ {0}
=============================================================================

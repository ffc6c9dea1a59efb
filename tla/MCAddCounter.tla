---------------------------- MODULE MCAddCounter ----------------------------
(* Bounded instances of AddCounter for TLC: the constants come from the cfg. *)
EXTENDS AddCounter
=============================================================================

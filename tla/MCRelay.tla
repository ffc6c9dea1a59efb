------------------------------- MODULE MCRelay -------------------------------
(* Bounded instances of Relay for TLC.                                       *)
EXTENDS Relay

\* Every sequence of up to two keys, and one whose ^C comes behind more keys than
\* the pipe to the shell holds.
MCScripts == UNION {[1..n -> Keys] : n \in 0..2} \cup {<<"NL", "a", "a", "^C">>}

\* A line of one byte.
OneLine == <<"x", "NL">>
=============================================================================

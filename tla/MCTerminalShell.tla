--------------------------- MODULE MCTerminalShell ---------------------------
(* Bounded instances of TerminalShell for TLC.                               *)
EXTENDS TerminalShell

\* Every sequence of up to three keys.
UpToThree == UNION {[1..n -> Keys] : n \in 0..3}

\* Three keys behind a command line whose output fills the pipe.
FillBoth == {<<"NL", "a", "a", "^C">>, <<"NL", "a", "a", "^D">>}
KeyScripts == UpToThree \cup FillBoth

\* A command line, and then the end of the input.
OneCommand == {<<"NL", "^D">>}

TwoBytes == <<"x", "y">>
=============================================================================

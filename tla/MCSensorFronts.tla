--------------------------- MODULE MCSensorFronts ---------------------------
(* Bounded instances of SensorFronts for TLC.                                *)
EXTENDS SensorFronts, MCSensorTcp

AllFronts == {"tcp", "tls", "pipe", "file", "tty"}
Streams == {"tcp", "tls", "pipe"}
Stale == {<<>>, <<"C">>}
OneDigit == {"1"}
Two == {2}

\* Up to two whole lines.
Blank == <<"NL">>
FirstLines == {Scale, Stop, Start, LogStop, Off, Period("0"), Period("1"), Blank}
SecondLines == {Scale, Start, Off}
FrontScripts == {<<>>} \cup {<<a>> : a \in FirstLines}
                      \cup {<<a, b>> : a \in FirstLines, b \in SecondLines}

\* Up to two lines that arrive in pieces; PERIOD=0 may be read as PERIOD=01.
PieceLines == {Scale, Stop, Start, Off, Period("0")}
PieceScripts == UNION {[1..n -> PieceLines] : n \in 0..2}
=============================================================================

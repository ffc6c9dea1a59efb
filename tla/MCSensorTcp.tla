----------------------------- MODULE MCSensorTcp -----------------------------
(* Bounded instances of SensorTcp for TLC.                                   *)
EXTENDS SensorTcp

Scale == <<"SCALE=", "C", "NL">>
Stop == <<"STOP", "NL">>
Start == <<"START", "NL">>
LogStop == <<"LOG ", "STOP", "NL">>
Off == <<"OFF", "NL">>
Period(d) == <<"PERIOD=", d, "NL">>
Lines == {Scale, Stop, Start, LogStop, Off, Period("0"), Period("1"), Period("3")}

\* Every sequence of up to three lines.
AllScripts == UNION {[1..n -> Lines] : n \in 0..3}

\* Every sequence of up to two lines, for arrival in pieces.
ShortScripts == UNION {[1..n -> Lines \ {Period("3")}] : n \in 0..2}

\* Two lines of which the second must be obeyed.
ScaleThenOff == {<<Scale, Off>>}

OneOrTwo == {1, 2}
NoDigit == {}
ZeroDigit == {"0"}
=============================================================================

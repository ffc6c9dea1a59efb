------------------------- MODULE SensorFronts_proofs -------------------------
(* What processing buff again does to the sensor programs, for every front,  *)
(* every script, every arrival of the bytes and every content of temp_buff   *)
(* and of the rest of buff.                                                  *)
EXTENDS SensorFronts, TLAPS

\* The text in buff has had its effect: processing it again leaves the scale
\* and stop_flag as they are.
LastIsDone == /\ ScaleAfter(last, scale) = scale
              /\ StopAfter(last, stop_flag) = stop_flag

\* Processing a text twice is processing it once.
LEMMA ProcessTwice ==
  ASSUME NEW text, NEW x
  PROVE  /\ ScaleAfter(text, ScaleAfter(text, x)) = ScaleAfter(text, x)
         /\ StopAfter(text, StopAfter(text, x)) = StopAfter(text, x)
<1>1. ScaleAfter(text, ScaleAfter(text, x)) = ScaleAfter(text, x)
  BY DEF ScaleAfter
<1>2. StopAfter(text, StopAfter(text, x)) = StopAfter(text, x)
  BY DEF StopAfter
<1> QED  BY <1>1, <1>2

\* So obeying a text that becomes buff leaves buff done.
LEMMA ObeyLastIsDone ==
  ASSUME NEW text, Obey(text), last' = text
  PROVE  LastIsDone'
<1>1. /\ scale' = ScaleAfter(text, scale)
      /\ stop_flag' = StopAfter(text, stop_flag)
  BY DEF Obey
<1> QED  BY <1>1, ProcessTwice DEF LastIsDone

\* Obeying buff again has no effect.
LEMMA ObeyLast ==
  ASSUME LastIsDone, Obey(last)
  PROVE  UNCHANGED <<scale, stop_flag>>
  BY DEF LastIsDone, Obey

\* There is no line and no word in nothing.
LEMMA NothingInNothing == /\ EndOfLine(<<>>) = 0
                          /\ ~HasWord(<<>>)
<1>1. EndOfLine(<<>>) = 0
  BY DEF EndOfLine, SelectInSeq
<1>2. WordStart(<<>>) = 0
  BY DEF WordStart, SelectInSeq
<1> QED  BY <1>1, <1>2 DEF HasWord

\* No text has been read at first, and none is processed.
LEMMA InitLastIsDone == FrontInit => LastIsDone
<1> SUFFICES ASSUME FrontInit PROVE LastIsDone
  OBVIOUS
<1>1. last = <<>>
  BY DEF FrontInit, Init
<1>2. /\ <<>> # <<"STOP">> /\ <<>> # <<"START">>
      /\ <<>> \notin {<<"SCALE=", "F">>, <<"SCALE=", "C">>}
  OBVIOUS
<1> QED  BY <1>1, <1>2 DEF LastIsDone, ScaleAfter, StopAfter

-----------------------------------------------------------------------------
\* The steps in which a text is obeyed.
Obeying(text) == Obey(text) /\ last' = text

\* What lab4c_tcp does with a text, it reads or has in buff.
LEMMA TcpStep ==
  ASSUME Main
  PROVE  \/ UNCHANGED <<scale, stop_flag, last>>
         \/ Obeying(last)
         \/ inbox # <<>> /\ \E text : Obeying(text)
<1>1. CASE Sample \/ End \/ Leave \/ Idle \/ ReceiveError
  BY <1>1 DEF Sample, End, Leave, Idle, ReceiveError, setting
<1>2. CASE Receive
  BY <1>2 DEF Receive, Process, Obeying
<1>3. CASE ReceiveEnd
  BY <1>3 DEF ReceiveEnd, Process, Obeying
<1> QED  BY <1>1, <1>2, <1>3 DEF Main

\* The same for lab4c_tls, whose bytes may also be in OpenSSL.
LEMMA TlsStep ==
  ASSUME Tls
  PROVE  \/ UNCHANGED <<scale, stop_flag, last>>
         \/ Obeying(last)
         \/ (inbox # <<>> \/ held # <<>>) /\ \E text : Obeying(text)
<1>1. CASE Sample \/ End \/ Leave \/ Idle
  BY <1>1 DEF Sample, End, Leave, Idle, setting
<1>2. CASE TlsLine
  <2>1. \E text : Obeying(text)
    BY <1>2 DEF TlsLine, ProcessBuff, Process, Obeying
  <2>2. EndOfLine(held \o inbox) # 0
    BY <1>2 DEF TlsLine
  <2>3. CASE inbox = <<>> /\ held = <<>>
    <3>1. held \o inbox = <<>>
      BY <2>3
    <3> QED  BY <3>1, <2>2, NothingInNothing
  <2> QED  BY <2>1, <2>3
<1>3. CASE TlsPart
  <2>1. PICK stale \in StaleTexts :
          ProcessBuff(IF held \o inbox = <<>> THEN last ELSE held \o inbox \o stale)
    BY <1>3 DEF TlsPart
  <2>2. CASE inbox = <<>> /\ held = <<>>
    <3>1. held \o inbox = <<>>
      BY <2>2
    <3> QED  BY <3>1, <2>1 DEF ProcessBuff, Process, Obeying
  <2>3. \E text : Obeying(text)
    BY <2>1 DEF ProcessBuff, Process, Obeying
  <2> QED  BY <2>2, <2>3
<1> QED  BY <1>1, <1>2, <1>3 DEF Tls

\* The same for lab4b; a file may have all that is left in it read by the step.
LEMMA TerminalStep ==
  ASSUME Terminal
  PROVE  \/ UNCHANGED <<scale, stop_flag, last>>
         \/ ~(inbox = <<>> /\ held = <<>> /\ UNCHANGED script) /\ \E text : Obeying(text)
<1>1. CASE Sample \/ End \/ Leave \/ NoInput \/ ReadButton
  BY <1>1 DEF Sample, End, Leave, NoInput, ReadButton, setting
<1>2. CASE Scan
  <2>1. CASE Scanned(held) /\ UNCHANGED <<inbox, script>>
    <3>1. \E text : Obeying(text)
      BY <2>1 DEF Scanned, ProcessWord, Obeying
    <3>2. held # <<>>
      BY <2>1, NothingInNothing DEF Scanned
    <3> QED  BY <3>1, <3>2
  <2>2. CASE ~HasWord(held) /\ Scanned(held \o Arrived) /\ TakeArrived
    <3>1. \E text : Obeying(text)
      BY <2>2 DEF Scanned, ProcessWord, Obeying
    <3>2. HasWord(held \o Arrived)
      BY <2>2 DEF Scanned
    <3>3. ASSUME inbox = <<>>, held = <<>>, UNCHANGED script
          PROVE  FALSE
      <4>1. Arrived = <<>>
        <5>1. CASE front = "file"
          <6>1. script = <<>>
            BY <2>2, <3>3, <5>1 DEF TakeArrived
          <6> QED  BY <5>1, <6>1 DEF Arrived, FlattenSeq
        <5>2. CASE front = "pipe"
          BY <3>3, <5>2 DEF Arrived
        <5>3. CASE front = "tty"
          <6>1. Arrived = SubSeq(<<>>, 1, 0)
            BY <3>3, <5>3, NothingInNothing DEF Arrived
          <6> QED  BY <6>1
        <5> QED  BY <5>1, <5>2, <5>3 DEF Terminal, Stdio
      <4>2. held \o Arrived = <<>>
        BY <3>3, <4>1
      <4> QED  BY <3>2, <4>2, NothingInNothing
    <3> QED  BY <3>1, <3>3
  <2>3. CASE UNCHANGED <<setting, last, status>>
    BY <2>3 DEF setting
  <2> QED  BY <1>2, <2>1, <2>2, <2>3 DEF Scan
<1> QED  BY <1>1, <1>2 DEF Terminal

\* Nobody but the program changes the setting and buff.
LEMMA OthersStep ==
  ASSUME FrontNext, ~Programs
  PROVE  UNCHANGED <<scale, stop_flag, last>>
  BY DEF FrontNext, Isr, Tick, Operator, SendMore, Send, Disconnect, Press,
         Terminated, setting, vars

\* All together: a step that obeys anything but buff has something to read.
LEMMA FrontStep ==
  ASSUME [FrontNext]_frontVars
  PROVE  \/ UNCHANGED <<scale, stop_flag, last>>
         \/ Obeying(last)
         \/ /\ ~(inbox = <<>> /\ held = <<>> /\ UNCHANGED script)
            /\ \E text : Obeying(text)
<1>1. CASE UNCHANGED frontVars
  BY <1>1 DEF frontVars, vars, setting
<1>2. CASE Programs
  BY <1>2, TcpStep, TlsStep, TerminalStep DEF Programs
<1>3. CASE FrontNext /\ ~Programs
  BY <1>3, OthersStep
<1> QED  BY <1>1, <1>2, <1>3

\* Every step keeps buff done.
LEMMA NextLastIsDone == LastIsDone /\ [FrontNext]_frontVars => LastIsDone'
<1> SUFFICES ASSUME LastIsDone, [FrontNext]_frontVars PROVE LastIsDone'
  OBVIOUS
<1>1. CASE UNCHANGED <<scale, stop_flag, last>>
  BY <1>1 DEF LastIsDone
<1>2. CASE \E text : Obeying(text)
  BY <1>2, ObeyLastIsDone DEF Obeying
<1> QED  BY <1>1, <1>2, FrontStep

\* Where nothing is left to be read, lab4c_tcp.c:283-290 and lab4c_tls.c:313-328
\* process buff once more; the scale and stop_flag stay what they are.  lab4b does
\* not even do that.
THEOREM FrontsQuietIsNoCommand == FrontSpec => QuietIsNoCommand
<1>1. LastIsDone /\ [FrontNext]_frontVars
        => [inbox = <<>> /\ held = <<>> /\ UNCHANGED script
              => UNCHANGED <<scale, stop_flag>>]_frontVars
  <2> SUFFICES ASSUME LastIsDone, [FrontNext]_frontVars,
                      inbox = <<>>, held = <<>>, UNCHANGED script
               PROVE  UNCHANGED <<scale, stop_flag>>
    OBVIOUS
  <2>1. CASE UNCHANGED <<scale, stop_flag, last>>
    BY <2>1
  <2>2. CASE Obeying(last)
    BY <2>2, ObeyLast DEF Obeying
  <2> QED  BY <2>1, <2>2, FrontStep
<1> QED  BY <1>1, InitLastIsDone, NextLastIsDone, PTL DEF FrontSpec, QuietIsNoCommand
=============================================================================

---------------------------- MODULE SensorFronts ----------------------------
(* The three sensor programs by where their commands come from: lab4c_tcp's  *)
(* socket, lab4c_tls's TLS connection, and lab4b's standard input with its   *)
(* button.  The last two read through a buffer of their own, OpenSSL's or    *)
(* stdio's, and poll does not see what is in it.                             *)
EXTENDS SensorTcp

CONSTANTS Fronts,     \* the ways commands come that are considered
          StaleTexts  \* what may follow the part of a line that was read last

Stdio == {"pipe", "file", "tty"}

ASSUME FrontsAssumption == /\ Fronts \subseteq {"tcp", "tls"} \cup Stdio
                           /\ StaleTexts \subseteq Seq(Bytes \cup Words)

VARIABLES front,
          held,   \* bytes taken from the descriptor that the program has not seen
          button  \* lab4b's button: "up" while it was never pressed, "down", "released"

frontVars == <<vars, front, held, button>>
gadgets == <<front, held, button>>

FrontInit == /\ Init
             /\ front \in Fronts
             /\ held = <<>>
             /\ button = "up"

-----------------------------------------------------------------------------
(* lab4c_tls.c                                                               *)

EndOfLine(text) == SelectInSeq(text, LAMBDA piece : piece = "NL")

ProcessBuff(text) == /\ last' = text
                     /\ Process(text)
                     /\ UpdateEnd
                     /\ UNCHANGED <<age, pc, script>>

\* SSL_read returns the bytes of one line; what is left of the record the line
\* ends in stays in OpenSSL.
TlsLine ==
  /\ pc = "wait"
  /\ Waiting
  /\ HasInput
  /\ LET unread == held \o inbox
         end == EndOfLine(unread)
         rest == SubSeq(unread, end + 1, Len(unread))
     IN  /\ end # 0
         /\ \E n \in 0..Len(rest) :
              /\ end <= Len(held) => n = Len(held) - end
              /\ held' = SubSeq(rest, 1, n)
              /\ inbox' = SubSeq(rest, n + 1, Len(rest))
         /\ ProcessBuff(SubSeq(unread, 1, end - 1))

\* SSL_read runs out of bytes before the end of a line: the part is in buff, with
\* whatever was there behind it; with no byte at all buff is what it was.
TlsPart ==
  /\ pc = "wait"
  /\ Waiting
  /\ HasInput
  /\ LET unread == held \o inbox
     IN  /\ EndOfLine(unread) = 0
         /\ \E stale \in StaleTexts :
              ProcessBuff(IF unread = <<>> THEN last ELSE unread \o stale)
  /\ held' = <<>>
  /\ inbox' = <<>>

Tls == /\ front = "tls"
       /\ \/ (Sample \/ End \/ Leave \/ Idle) /\ UNCHANGED held
          \/ TlsLine
          \/ TlsPart
       /\ UNCHANGED <<front, button>>

-----------------------------------------------------------------------------
(* lab4b.c                                                                   *)

\* The bytes a read from standard input gets: from a terminal those of a line.
Arrived == CASE front = "file" -> FlattenSeq(script)
             [] front = "pipe" -> inbox
             [] front = "tty"  -> SubSeq(inbox, 1, EndOfLine(inbox))

\* poll sees what is in the descriptor; a file can always be read, and a pipe
\* whose other end is closed is not POLLIN.
StdioInput == front = "file" \/ Arrived # <<>>

\* The first word of a text, up to the line feed or space behind it; there may be
\* line feeds before it.
WordStart(text) == SelectInSeq(text, LAMBDA piece : piece # "NL")
WordEnd(text) ==
  SelectInSubSeq(text, WordStart(text), Len(text), LAMBDA piece : piece \in {"NL", "LOG "})
HasWord(text) == WordStart(text) # 0 /\ WordEnd(text) # 0

\* lab4b's process_input; it writes to its standard output.  "LOG " is no command.
ProcessWord(text) == /\ Obey(text)
                     /\ status' = IF IsOff(text) THEN "exit0" ELSE status
                     /\ last' = text

TakeArrived == /\ inbox' = IF front = "file" THEN inbox
                           ELSE SubSeq(inbox, Len(Arrived) + 1, Len(inbox))
               /\ script' = IF front = "file" THEN <<>> ELSE script

\* scanf finds a word in text, and leaves what is behind it.
Scanned(text) ==
  LET end == WordEnd(text)
      stop == IF text[end] = "NL" THEN end - 1 ELSE end
  IN  /\ HasWord(text)
      /\ ProcessWord(SubSeq(text, WordStart(text), stop))
      /\ held' = SubSeq(text, stop + 1, Len(text))
      /\ pc' = "button"

\* scanf reads when there is no whole word in stdio's buffer; if there is none then
\* either, main waits in it, but for the end of a file.
Scan == /\ (pc = "wait" /\ Waiting /\ StdioInput) \/ (pc = "scanf" /\ Arrived # <<>>)
        /\ \/ Scanned(held) /\ UNCHANGED <<inbox, script>>
           \/ ~HasWord(held) /\ Scanned(held \o Arrived) /\ TakeArrived
           \/ /\ ~HasWord(held \o Arrived)
              /\ held' = held \o Arrived
              /\ TakeArrived
              /\ pc' = IF front = "file" THEN "button" ELSE "scanf"
              /\ UNCHANGED <<setting, last, status>>
        /\ UNCHANGED <<clock, peer>>

NoInput == /\ pc = "wait"
           /\ Waiting
           /\ ~StdioInput
           /\ pc' = "button"
           /\ UNCHANGED <<setting, clock, server, held, last, status>>

\* Fault: the button is not read while reports are stopped.
ReadButtonUnlessStopped ==
  /\ pc = "button"
  /\ UNCHANGED <<setting, age, server, held, last>>
  /\ IF button = "down" /\ stop_flag = 0
     THEN status' = "exit0" /\ UNCHANGED seen
     ELSE UpdateEnd /\ UNCHANGED status
  /\ pc' = "wait"

\* mraa_gpio_read, and shutdown() if the button is down.
ReadButton == /\ pc = "button"
              /\ UNCHANGED <<setting, age, server, held, last>>
              /\ IF button = "down"
                 THEN status' = "exit0" /\ UNCHANGED seen
                 ELSE UpdateEnd /\ UNCHANGED status
              /\ pc' = "wait"

Terminal == /\ front \in Stdio
            /\ \/ (Sample \/ End \/ Leave) /\ UNCHANGED held
               \/ Scan \/ NoInput \/ ReadButton
            /\ UNCHANGED <<front, button>>

\* The rising edge runs shutdown() in a thread of mraa.
Isr == /\ front \in Stdio /\ status = "running"
       /\ button # "up"
       /\ status' = "exit0"
       /\ UNCHANGED <<setting, clock, server, pc, last, gadgets>>

Programs == /\ status = "running"
            /\ \/ front = "tcp" /\ Main /\ UNCHANGED gadgets
               \/ Tls
               \/ Terminal

-----------------------------------------------------------------------------
(* The environment.                                                          *)

\* A line is sent behind those that were not read yet.
SendMore == /\ front \notin {"tcp", "file"}
            /\ LinePace
            /\ status = "running" /\ peer = "open" /\ script # <<>>
            /\ inbox' = inbox \o Head(script)
            /\ script' = Tail(script)
            /\ UNCHANGED <<setting, clock, peer, pc, last, status>>

Operator == /\ \/ SendMore
               \/ front = "tcp" /\ Send
               \/ front # "file" /\ ~LinePace /\ Send
               \/ front \in {"tcp", "tls"} /\ Disconnect
            /\ UNCHANGED gadgets

Press == /\ front \in Stdio
         /\ status = "running"
         /\ button' = IF button = "down" THEN "released" ELSE "down"
         /\ UNCHANGED <<vars, front, held>>

FrontNext == \/ Programs
             \/ Isr
             \/ Tick /\ UNCHANGED gadgets
             \/ Operator
             \/ Press
             \/ Terminated /\ UNCHANGED gadgets

FrontSpec == FrontInit /\ [][FrontNext]_frontVars

\* The program and the clock are not stopped; mraa's thread may never run.
FairFrontSpec == /\ FrontSpec
                 /\ WF_frontVars(Programs)
                 /\ WF_frontVars(Tick /\ UNCHANGED gadgets)
                 /\ SF_frontVars(status = "running" /\ age = 0 /\ End /\ UNCHANGED gadgets)

-----------------------------------------------------------------------------
(* Properties.                                                               *)

\* A text line by line, without empty lines; for lab4b a word is a line, and "LOG "
\* is none.
LinesOf(text) ==
  LET Put(acc, piece) ==
        IF piece = "NL"
        THEN [lines |-> IF acc.part = <<>> THEN acc.lines
                        ELSE Append(acc.lines, Append(acc.part, "NL")),
              part |-> <<>>]
        ELSE [acc EXCEPT !.part = IF front \in Stdio /\ piece = "LOG " THEN <<>>
                                  ELSE Append(@, piece)]
      all == FoldLeft(Put, [lines |-> <<>>, part |-> <<>>], text)
  IN  all.lines \o (IF all.part = <<>> THEN <<>> ELSE <<all.part>>)

\* Every line, or for lab4b every word, takes effect once and in order, whatever
\* OpenSSL and stdio hold back, and reading the end of the stream again and again
\* repeats nothing; for lab4c_tcp that needs a line per read, for lab4c_tls records
\* that end with a line (lab4c_tcp.c:279-290, lab4c_tls.c:313-328, lab4b.c:232-238).
Commands == INSTANCE SensorCommands
              WITH todo <- LinesOf(held \o inbox \o FlattenSeq(script)),
                   on <- status = "running"
ImplementsCommands == Commands!Spec

\* An OFF that the program will come to without further input: it is the next thing
\* in the descriptor and no line is held, or it is a line of a file or a terminal.
OffInReach ==
  LET all == LinesOf(held \o FlattenSeq(script))
  IN  \/ LinesOf(held) = <<>> /\ IsPrefix(<<"OFF", "NL">>, inbox)
      \/ front = "tty" /\ OffPending
      \/ front = "file" /\ \E k \in DOMAIN all : all[k] = <<"OFF", "NL">>

\* Such an OFF ends the program, also while reports are stopped, unless the period
\* is 0: then the loop that reads commands is never entered.
OffInReachIsHonoured == OffInReach ~> status # "running" \/ period = 0

\* A button that is held down ends lab4b even if no interrupt does: main reads it
\* in every round of its loop, also while reports are stopped and whatever input
\* there is, unless it waits in scanf, or the period is 0 and the loop is never
\* entered (lab4b.c:221-250).
HeldButtonEnds ==
  button = "down" ~> status # "running" \/ button # "down" \/ pc = "scanf" \/ period = 0

\* A program that is not stopped reports again after every period, unless it waits
\* in scanf (lab4b.c:224-250, lab4c_tls.c:305-333).
ReportsAgain ==
  pc = "wait" ~> pc = "sample" \/ status # "running" \/ stop_flag = 1 \/ pc = "scanf"

\* Where nothing is left to be read, processing buff again is no command: it has no
\* further effect on the scale or on stop_flag, also if buff was a part of a line
\* with old bytes behind it (lab4c_tcp.c:283-290, lab4c_tls.c:313-328).
QuietIsNoCommand ==
  [][inbox = <<>> /\ held = <<>> /\ UNCHANGED script => UNCHANGED <<scale, stop_flag>>]_frontVars
=============================================================================

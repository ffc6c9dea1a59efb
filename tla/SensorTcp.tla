------------------------------ MODULE SensorTcp ------------------------------
(* Lab4C/lab4c_tcp.c after the connection is up: the loop that samples the   *)
(* sensor once per period and reads the server's commands while it waits.    *)
(* The server, TCP and the clock are its environment.  Times are seconds     *)
(* since period_start.                                                       *)
EXTENDS SensorText

CONSTANTS Scripts,      \* the sequences of lines the server may send
          InitPeriods,  \* the values of --period
          MaxAge,       \* the clock stops there, past every period that is set
          LinePace      \* the server sends a line when the last one was read

ASSUME SensorAssumption == /\ MaxAge \in Nat
                           /\ InitPeriods \subseteq 0..MaxAge
                           /\ LinePace \in BOOLEAN

VARIABLES scale, period, stop_flag,
          pc,      \* where main's loops are
          age,     \* time - period_start
          seen,    \* period_end - period_start
          last,    \* buff, as the last read that got bytes left it
          status,  \* "running", or how the process ended
          script,  \* the lines the server has still to send
          inbox,   \* the bytes that have arrived and were not read
          peer     \* the connection: "open", "closed" by the server, "reset"

setting == <<scale, period, stop_flag>>
clock == <<age, seen>>
server == <<script, inbox, peer>>
vars == <<setting, clock, server, pc, last, status>>

Init == /\ scale = "F"
        /\ period \in InitPeriods
        /\ stop_flag = 0
        /\ pc = "sample"
        /\ age = 0
        /\ seen = 0
        /\ last = <<>>
        /\ status = "running"
        /\ script \in Scripts
        /\ inbox = <<>>
        /\ peer = "open"

-----------------------------------------------------------------------------
(* The process.                                                              *)

\* Fault: SIGPIPE is ignored, and so is the error.
WriteIgnoringPipe(end) == /\ status' = end
                          /\ peer' = IF peer = "open" THEN "open" ELSE "reset"

\* dprintf on the socket, after which the process is in state end: writing to
\* a closed peer makes it reset the connection, writing after that is SIGPIPE.
Write(end) == \/ /\ peer = "open"
                 /\ status' = end
                 /\ UNCHANGED peer
              \/ /\ peer = "closed"
                 /\ status' = end
                 /\ peer' = "reset"
              \/ /\ peer = "reset"
                 /\ status' = "killed"
                 /\ UNCHANGED peer

\* The report, unless reports are stopped, and the first time().
Sample == /\ pc = "sample"
          /\ IF stop_flag = 0 THEN Write("running") ELSE UNCHANGED <<status, peer>>
          /\ age' = 0
          /\ pc' = "end"
          /\ UNCHANGED <<setting, seen, last, script, inbox>>

\* The second time().
End == /\ pc = "end"
       /\ seen' = age
       /\ pc' = "wait"
       /\ UNCHANGED <<setting, age, server, last, status>>

\* Fault: the period is a second short.
WaitingShort == seen + 1 < period

\* difftime(period_end, period_start) < period
Waiting == seen < period

Leave == /\ pc = "wait"
         /\ ~Waiting
         /\ pc' = "sample"
         /\ UNCHANGED <<setting, clock, server, last, status>>

\* Fault: no input is read while reports are stopped.
HasInputUnlessStopped == stop_flag = 0 /\ (inbox # <<>> \/ peer # "open")

\* POLLIN: bytes, the end of the stream, or an error can be read.
HasInput == inbox # <<>> \/ peer # "open"

\* Fault: period_end is read once.
UpdateEndNever == UNCHANGED seen

\* period_end is the time again, unless reports are stopped.
UpdateEnd == seen' = IF stop_flag' = 0 THEN age ELSE seen

Idle == /\ pc = "wait"
        /\ Waiting
        /\ ~HasInput
        /\ UNCHANGED <<setting, age, server, pc, last, status>>
        /\ UpdateEnd

\* process_input(text) changes the setting; OFF is start_shutdown().
Obey(text) == /\ scale' = ScaleAfter(text, scale)
              /\ period' \in PeriodsAfter(text, period)
              /\ stop_flag' = StopAfter(text, stop_flag)
Process(text) == /\ Obey(text)
                 /\ IF IsOff(text) THEN Write("exit0")
                                   ELSE UNCHANGED <<status, peer>>

\* One read takes all that has arrived and takes it for one command.
Receive == /\ pc = "wait"
           /\ Waiting
           /\ HasInput
           /\ inbox # <<>>
           /\ inbox' = <<>>
           /\ last' = DropLast(inbox)
           /\ Process(DropLast(inbox))
           /\ UpdateEnd
           /\ UNCHANGED <<age, pc, script>>

\* read returns 0 and leaves buff alone; buff[-1] is not part of it.  The text
\* of the last read is processed again.
ReceiveEnd == /\ pc = "wait"
              /\ Waiting
              /\ HasInput
              /\ inbox = <<>>
              /\ Process(last)
              /\ UpdateEnd
              /\ UNCHANGED <<age, pc, last, script, inbox>>

\* read fails with ECONNRESET: exit(1).
ReceiveError == /\ pc = "wait"
                /\ Waiting
                /\ HasInput
                /\ inbox = <<>>
                /\ peer = "reset"
                /\ status' = "exit1"
                /\ UNCHANGED <<setting, clock, server, pc, last>>

Main == /\ status = "running"
        /\ \/ Sample \/ End \/ Leave \/ Idle
           \/ Receive \/ ReceiveEnd \/ ReceiveError

-----------------------------------------------------------------------------
(* The environment.                                                          *)

Tick == /\ status = "running"
        /\ age < MaxAge
        /\ age' = age + 1
        /\ UNCHANGED <<setting, seen, server, pc, last, status>>

\* A line arrives after the one before it was read.
SendLine == /\ LinePace
            /\ inbox = <<>>
            /\ script # <<>>
            /\ inbox' = Head(script)
            /\ script' = Tail(script)

\* The first n pieces of what is left of a line arrive, behind what is there.
SendPieces(n) == /\ ~LinePace
                 /\ script # <<>>
                 /\ n <= Len(Head(script))
                 /\ inbox' = inbox \o SubSeq(Head(script), 1, n)
                 /\ script' = IF n = Len(Head(script))
                              THEN Tail(script)
                              ELSE [script EXCEPT ![1] = SubSeq(@, n + 1, Len(@))]

Send == /\ status = "running"
        /\ peer = "open"
        /\ SendLine \/ \E n \in 1..3 : SendPieces(n)
        /\ UNCHANGED <<setting, clock, peer, pc, last, status>>

\* The server closes the connection, or the connection breaks.
Disconnect == /\ status = "running"
              /\ peer = "open"
              /\ peer' \in {"closed", "reset"}
              /\ script' = <<>>
              /\ UNCHANGED <<setting, clock, inbox, pc, last, status>>

\* The process is gone.
Terminated == status # "running" /\ UNCHANGED vars

Next == Main \/ Tick \/ Send \/ Disconnect \/ Terminated

Spec == Init /\ [][Next]_vars

\* The process runs, the clock ticks, and the two calls of time() do not fall
\* into different seconds every time.
FairSpec == /\ Spec
            /\ WF_vars(Main)
            /\ WF_vars(Tick)
            /\ SF_vars(status = "running" /\ age = 0 /\ End)

-----------------------------------------------------------------------------
(* Properties.                                                               *)

\* A new sample is taken a full period after the last one, although STOP
\* freezes period_end and PERIOD changes in between (lab4c_tcp.c:269-296).
SamplesSpaced == [][pc = "wait" /\ pc' = "sample" => age >= period]_vars

\* A whole line OFF has arrived.
OffPending == \E k \in 1..(Len(inbox) - 1) :
                /\ SubSeq(inbox, k, k + 1) = <<"OFF", "NL">>
                /\ k = 1 \/ inbox[k - 1] = "NL"

\* OFF ends the program, also while reports are stopped, unless the period is
\* 0: then the loop that reads commands is never entered (lab4c_tcp.c:271).
OffHonoured == OffPending ~> status # "running" \/ period = 0

\* A program that has lost its server ends, unless reports are stopped: its
\* next reports run into the closed connection (lab4c_tcp.c:261, 283).
EndsWithoutServer == peer # "open" ~> status # "running" \/ stop_flag = 1
=============================================================================

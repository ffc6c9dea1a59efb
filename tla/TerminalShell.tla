---------------------------- MODULE TerminalShell ----------------------------
(* Lab1A/lab1a.c: a terminal in raw mode, echoed, and with --shell relayed   *)
(* byte by byte to and from a shell behind two pipes.  The terminal's user,  *)
(* the shell and the sender of SIGINT are the environment.                   *)
(*                                                                           *)
(* getopt_long stores the flag of --shell and returns 0, so that the case    *)
(* which installs the signal handlers is reached by the option -s only, of   *)
(* which the usage message does not speak: handled says that it was given.   *)
EXTENDS Integers, SequencesExt

CONSTANTS Scripts,        \* the sequences of keys the user may type
          Outputs,        \* the bytes the shell may write, in order
          PipeSize,       \* how many bytes a pipe holds
          MaxInterrupts   \* how often SIGINT may be sent to lab1a

Keys == {"a", "NL", "^C", "^D"}
Reply == {Outputs[k] : k \in DOMAIN Outputs}

ASSUME TerminalAssumption == /\ Scripts \subseteq Seq(Keys)
                             /\ Outputs \in Seq(Reply)
                             /\ Reply \cap Keys = {}
                             /\ PipeSize \in Nat \ {0}
                             /\ MaxInterrupts \in Nat

VARIABLES shell_flag,  \* --shell
          handled,     \* -s: SIGINT and SIGPIPE have a handler
          script, input, typed,  \* keys to type, typed but not read, typed
          echoed,      \* the keys shown
          shown,       \* the bytes shown as output of the shell
          buffer,      \* *buffer
          raw,         \* the terminal is in raw mode
          pc,          \* where lab1a is
          revents,     \* what the last poll found
          callers,     \* who is in reset_input_terminal
          resume,      \* where the interrupted loop goes on
          status,      \* "running", or how lab1a ended
          tchildOpen,  \* tchild[1] is open
          fchildOpen,  \* fchild[0] is open
          reaped,      \* waitpid has returned the shell
          toShell, fromShell,  \* the bytes in the pipes
          fed,         \* the bytes the shell has read
          wrote,       \* how many bytes the shell has written
          work,        \* how many it is about to write
          shell,       \* "running", "exited" or "signaled"
          killed,      \* SIGINT is on its way to the shell
          interrupts   \* how often SIGINT was sent to lab1a

terminal == <<script, input, typed, echoed, shown>>
main == <<buffer, raw, pc, revents, callers, resume, status, reaped>>
pipes == <<tchildOpen, fchildOpen, toShell, fromShell>>
child == <<fed, wrote, work, shell, killed>>
options == <<shell_flag, handled>>
vars == <<options, terminal, main, pipes, child, interrupts>>

Quiet == [key |-> FALSE, out |-> FALSE, hup |-> FALSE]

Init == /\ shell_flag \in BOOLEAN
        /\ handled \in BOOLEAN
        /\ script \in Scripts
        /\ input = <<>> /\ typed = <<>> /\ echoed = <<>> /\ shown = <<>>
        /\ buffer = "none"
        /\ raw = TRUE
        /\ pc = IF shell_flag THEN "poll" ELSE "echo"
        /\ revents = Quiet
        /\ callers = {}
        /\ resume = "poll"
        /\ status = "running"
        /\ tchildOpen = TRUE /\ fchildOpen = TRUE
        /\ reaped = FALSE
        /\ toShell = <<>> /\ fromShell = <<>>
        /\ fed = <<>> /\ wrote = 0 /\ work = 0
        /\ shell = IF shell_flag THEN "running" ELSE "exited"
        /\ killed = FALSE
        /\ interrupts = 0

-----------------------------------------------------------------------------
(* read_write(), without --shell.                                            *)

\* Fault: read does not wait (VMIN = 0), and shows the old byte again.
EchoReadPolling ==
  /\ pc = "echo"
  /\ buffer' = IF input = <<>> THEN buffer ELSE Head(input)
  /\ input' = <<>>
  /\ echoed' = Append(echoed, buffer')
  /\ IF buffer' = "^D" THEN raw' = FALSE /\ status' = "exit0"
     ELSE UNCHANGED <<raw, status>>
  /\ UNCHANGED <<script, typed, shown, pc, revents, callers, resume, reaped,
                 pipes, child>>

\* One read takes all that was typed; the first byte is shown.  ^D restores
\* the terminal and exits.
EchoRead == /\ pc = "echo"
            /\ input # <<>>
            /\ input' = <<>>
            /\ buffer' = Head(input)
            /\ echoed' = Append(echoed, Head(input))
            /\ IF Head(input) = "^D"
               THEN raw' = FALSE /\ status' = "exit0"
               ELSE UNCHANGED <<raw, status>>
            /\ UNCHANGED <<script, typed, shown, pc, revents, callers, resume,
                           reaped, pipes, child>>

-----------------------------------------------------------------------------
(* reset_input_terminal(), as exit handler and from the signal handler.      *)

\* The terminal is restored and the pipes are closed; waitpid is next.
Reset(who) == /\ raw' = FALSE
              /\ tchildOpen' = FALSE
              /\ fchildOpen' = FALSE
              /\ callers' = callers \cup {who}
              /\ pc' = "waitpid"

\* Fault: waitpid does not wait (WNOHANG).
WaitFailsAtOnce == /\ pc = "waitpid"
                   /\ status' = "exit1"
                   /\ UNCHANGED <<buffer, raw, pc, revents, callers, resume, reaped>>

\* waitpid has no child left, or is called again by the exit handler: exit(1).
WaitFails == /\ pc = "waitpid"
             /\ reaped
             /\ status' = "exit1"
             /\ UNCHANGED <<buffer, raw, pc, revents, callers, resume, reaped>>

\* The shell exited by itself: exit(0), which ends lab1a if the exit handler has
\* been entered, but from a signal handler runs it, and its waitpid fails.
WaitExited == /\ pc = "waitpid"
              /\ ~reaped
              /\ shell = "exited"
              /\ reaped' = TRUE
              /\ status' = IF "exit" \in callers THEN "exit0" ELSE "exit1"
              /\ UNCHANGED <<buffer, raw, pc, revents, callers, resume>>

\* A signal ended the shell: reset_input_terminal returns to the innermost caller.
\* The handler of SIGINT goes back to where it interrupted, which may be the
\* waitpid of another call; that of SIGPIPE calls exit(1).
WaitSignaled ==
  /\ pc = "waitpid"
  /\ ~reaped
  /\ shell = "signaled"
  /\ reaped' = TRUE
  /\ \/ "SIGINT" \in callers /\ callers' = callers \ {"SIGINT"}
        /\ pc' = resume /\ UNCHANGED status
     \/ "SIGINT" \notin callers /\ UNCHANGED <<callers, pc>>
        /\ status' = IF "SIGPIPE" \in callers THEN "exit1" ELSE "exit0"
  /\ UNCHANGED <<buffer, raw, revents, resume>>

Wait == /\ WaitFails \/ WaitExited \/ WaitSignaled
        /\ UNCHANGED <<terminal, pipes, child>>

-----------------------------------------------------------------------------
(* shell_read_write().                                                       *)

Poll == /\ pc = "poll"
        /\ revents' = [key |-> input # <<>>,
                       out |-> fchildOpen /\ fromShell # <<>>,
                       hup |-> fchildOpen /\ shell # "running"]
        /\ pc' = "key"
        /\ UNCHANGED <<buffer, raw, callers, resume, status, reaped, terminal,
                       pipes, child>>

NoKey == /\ pc = "key"
         /\ ~revents.key
         /\ pc' = "out"
         /\ UNCHANGED <<buffer, raw, revents, callers, resume, status, reaped,
                        terminal, pipes, child>>

\* read(STDIN_FILENO, buffer, 1), and the echo.
ReadKey(k) == /\ pc = "key"
              /\ revents.key
              /\ k = Head(input)
              /\ buffer' = k
              /\ input' = Tail(input)
              /\ echoed' = Append(echoed, k)

\* The shell is sent SIGINT, and exit(0) runs reset_input_terminal.
CtrlC == /\ ReadKey("^C")
         /\ killed' = ~reaped
         /\ Reset("exit")
         /\ UNCHANGED <<script, typed, shown, revents, resume, status, reaped,
                        toShell, fromShell, fed, wrote, work, shell>>

\* Fault: ^D is written to the shell before the pipe is closed.
CtrlDRelayed == /\ ReadKey("^D")
                /\ toShell' = IF tchildOpen THEN Append(toShell, "^D") ELSE toShell
                /\ tchildOpen' = FALSE
                /\ pc' = "out"
                /\ UNCHANGED <<script, typed, shown, raw, revents, callers, resume,
                               status, reaped, fchildOpen, fromShell, child>>

\* The pipe is closed, and writing ^D to it fails unnoticed.
CtrlD == /\ ReadKey("^D")
         /\ tchildOpen' = FALSE
         /\ pc' = "out"
         /\ UNCHANGED <<script, typed, shown, raw, revents, callers, resume,
                        status, reaped, fchildOpen, toShell, fromShell, child>>

\* Any other key is written to the shell next.
RelayKey == /\ \E k \in {"a", "NL"} : ReadKey(k)
            /\ pc' = "write"
            /\ UNCHANGED <<script, typed, shown, raw, revents, callers, resume,
                           status, reaped, pipes, child>>

\* A signal without a handler ends lab1a, and the kernel closes its pipes.
DieOf(signal) == /\ status' = signal
                 /\ tchildOpen' = FALSE
                 /\ fchildOpen' = FALSE

\* The write waits while the pipe is full; to a dead shell it is SIGPIPE, and to
\* a closed pipe an error that goes unnoticed.
WriteKey ==
  /\ pc = "write"
  /\ \/ /\ tchildOpen /\ shell = "running" /\ Len(toShell) < PipeSize
        /\ toShell' = Append(toShell, buffer)
        /\ pc' = "out"
        /\ UNCHANGED <<raw, callers, status, tchildOpen, fchildOpen>>
     \/ /\ tchildOpen /\ shell # "running" /\ handled
        /\ Reset("SIGPIPE")
        /\ UNCHANGED <<status, toShell>>
     \/ /\ tchildOpen /\ shell # "running" /\ ~handled
        /\ DieOf("SIGPIPE")
        /\ UNCHANGED <<raw, callers, pc, toShell>>
     \/ /\ ~tchildOpen
        /\ pc' = "out"
        /\ UNCHANGED <<raw, callers, status, tchildOpen, fchildOpen, toShell>>
  /\ UNCHANGED <<terminal, buffer, revents, resume, reaped, fromShell, child>>

NoOutput == /\ pc = "out"
            /\ ~revents.out
            /\ pc' = "hup"
            /\ UNCHANGED <<buffer, raw, revents, callers, resume, status, reaped,
                           terminal, pipes, child>>

\* Fault: a hang-up is taken for output, and the read finds the end of the pipe.
OutputOrHangUp == /\ pc = "out"
                  /\ revents.out \/ revents.hup
                  /\ IF fchildOpen /\ fromShell # <<>>
                     THEN buffer' = Head(fromShell) /\ fromShell' = Tail(fromShell)
                     ELSE UNCHANGED <<buffer, fromShell>>
                  /\ shown' = Append(shown, buffer')
                  /\ pc' = "hup"
                  /\ UNCHANGED <<script, input, typed, echoed, raw, revents,
                                 callers, resume, status, reaped, tchildOpen,
                                 fchildOpen, toShell, child>>

\* One byte from the shell; if SIGINT came since poll, the pipe is closed, and
\* what buffer holds is shown.
Output == /\ pc = "out"
          /\ revents.out
          /\ IF fchildOpen
             THEN buffer' = Head(fromShell) /\ fromShell' = Tail(fromShell)
             ELSE UNCHANGED <<buffer, fromShell>>
          /\ shown' = Append(shown, buffer')
          /\ pc' = "hup"
          /\ UNCHANGED <<script, input, typed, echoed, raw, revents, callers,
                         resume, status, reaped, tchildOpen, fchildOpen, toShell,
                         child>>

NoHangUp == /\ pc = "hup"
            /\ ~revents.hup
            /\ pc' = "poll"
            /\ UNCHANGED <<buffer, raw, revents, callers, resume, status, reaped,
                           terminal, pipes, child>>

HangUp == /\ pc = "hup"
          /\ revents.hup
          /\ Reset("exit")
          /\ UNCHANGED <<terminal, buffer, revents, resume, status, reaped,
                         toShell, fromShell, child>>

Main == /\ status = "running"
        /\ \/ EchoRead \/ Wait \/ Poll
           \/ NoKey \/ CtrlC \/ CtrlD \/ RelayKey \/ WriteKey
           \/ NoOutput \/ Output
           \/ NoHangUp \/ HangUp
        /\ UNCHANGED <<options, interrupts>>

\* Fault: a copy of the pipe's end is left open, so that the shell waits for more.
InterruptKeepsPipe == /\ ~handled
                      /\ status' = "SIGINT"
                      /\ UNCHANGED <<raw, pc, callers, resume, pipes, killed>>

\* Without a handler SIGINT ends lab1a.
InterruptDies == /\ ~handled
                 /\ DieOf("SIGINT")
                 /\ UNCHANGED <<raw, pc, callers, resume, toShell, fromShell, killed>>

\* signal_handler sends the shell one and resets, wherever lab1a is but in the
\* handler itself.
InterruptResets == /\ handled /\ shell_flag
                   /\ "SIGINT" \notin callers
                   /\ killed' = ~reaped
                   /\ resume' = pc
                   /\ Reset("SIGINT")
                   /\ UNCHANGED <<status, toShell, fromShell>>

\* Without a shell process_id is 0: the signal is sent to lab1a itself, which never
\* leaves the handler for good.
InterruptRepeats == /\ handled /\ pc = "echo"
                    /\ raw' = FALSE
                    /\ pc' = "handler"
                    /\ UNCHANGED <<status, callers, resume, pipes, killed>>

Interrupt == /\ status = "running"
             /\ interrupts < MaxInterrupts
             /\ interrupts' = interrupts + 1
             /\ InterruptDies \/ InterruptResets \/ InterruptRepeats
             /\ UNCHANGED <<options, terminal, buffer, revents, reaped,
                            fed, wrote, work, shell>>

-----------------------------------------------------------------------------
(* The user and the shell.                                                   *)

Type == /\ status = "running"
        /\ script # <<>>
        /\ script' = Tail(script)
        /\ input' = Append(input, Head(script))
        /\ typed' = Append(typed, Head(script))
        /\ UNCHANGED <<options, echoed, shown, main, pipes, child, interrupts>>

\* The shell reads a byte; at the end of a line it has output to write.
ShellRead == /\ work = 0
             /\ toShell # <<>>
             /\ toShell' = Tail(toShell)
             /\ fed' = Append(fed, Head(toShell))
             /\ IF Head(toShell) = "NL"
                THEN work' \in 0..(Len(Outputs) - wrote)
                ELSE UNCHANGED work
             /\ UNCHANGED <<tchildOpen, fchildOpen, fromShell, wrote, shell, killed>>

ShellWrite == /\ work > 0
              /\ fchildOpen
              /\ Len(fromShell) < PipeSize
              /\ fromShell' = Append(fromShell, Outputs[wrote + 1])
              /\ wrote' = wrote + 1
              /\ work' = work - 1
              /\ UNCHANGED <<tchildOpen, fchildOpen, toShell, fed, shell, killed>>

\* The end of its input, or an exit command, ends the shell.
ShellExit == /\ work = 0
             /\ \/ toShell = <<>> /\ ~tchildOpen
                \/ fed # <<>> /\ Last(fed) = "NL"
             /\ shell' = "exited"
             /\ UNCHANGED <<pipes, fed, wrote, work, killed>>

\* SIGINT, or SIGPIPE for writing to a closed pipe, ends it.
ShellSignaled == /\ killed \/ (work > 0 /\ ~fchildOpen)
                 /\ shell' = "signaled"
                 /\ UNCHANGED <<pipes, fed, wrote, work, killed>>

Shell == /\ shell = "running"
         /\ ShellRead \/ ShellWrite \/ ShellExit \/ ShellSignaled
         /\ UNCHANGED <<options, terminal, main, interrupts>>

\* lab1a and the shell wait for each other: both pipes are full.
Clogged == /\ status = "running" /\ shell = "running"
           /\ pc = "write" /\ tchildOpen /\ Len(toShell) = PipeSize
           /\ work > 0 /\ fchildOpen /\ Len(fromShell) = PipeSize
           /\ ~killed

\* lab1a is gone, or waits for keys nobody will type, or for ever.
Terminated == status # "running" /\ UNCHANGED vars
Asleep == /\ \/ pc = "echo" /\ input = <<>> /\ script = <<>>
             \/ pc = "handler"
             \/ Clogged
          /\ UNCHANGED vars

Next == Main \/ Interrupt \/ Type \/ Shell \/ Terminated \/ Asleep

Spec == Init /\ [][Next]_vars

\* lab1a and the shell run.
FairSpec == Spec /\ WF_vars(Main) /\ WF_vars(Shell)

-----------------------------------------------------------------------------
(* Properties.                                                               *)

\* The keys shown are among those typed, in their order and none twice, although
\* without a shell most bytes of a read are dropped (lab1a.c:114-128, 145).
EchoIsOfTyped ==
  \E at \in [DOMAIN echoed -> DOMAIN typed] :
    /\ \A m \in DOMAIN echoed : echoed[m] = typed[at[m]]
    /\ \A m, n \in DOMAIN echoed : m < n => at[m] < at[n]

\* The shell gets the keys that were typed before ^C or ^D, in order, and nothing
\* of what is typed behind a closed pipe (lab1a.c:153-168).
FedIsTyped == LET sent == fed \o toShell
              IN  IsPrefix(sent, echoed) /\ {"^C", "^D"} \cap ToSet(sent) = {}

\* What is shown as output is what the shell wrote, in order, although both
\* directions go through the one byte of buffer (lab1a.c:145, 172).  Only the handler
\* of a SIGINT between poll and read closes the pipe, and a key may show as output.
ShownIsOutput == (handled => interrupts = 0) => IsPrefix(shown, Outputs)

\* A lab1a that exits leaves neither a shell behind nor a terminal in raw mode,
\* wherever it exits and however often reset_input_terminal is entered; only a
\* signal without a handler ends it otherwise (lab1a.c:29-56, 80-92, 251-254).
LeavesNothingBehind ==
  /\ status \in {"exit0", "exit1"} => ~raw /\ shell # "running"
  /\ status \in {"SIGINT", "SIGPIPE"} => ~handled

\* ^C, ^D, the end of the shell and a SIGINT end lab1a and its shell
\* (lab1a.c:147-157, 183), whatever else is typed and shown in between, unless both
\* pipes fill up and the two wait for each other for ever.  A shell that a killed
\* lab1a did not wait for ends too: it finds its input at the end or its output
\* closed (lab1a.c:204-217).  With -s lab1a may go on as a mere echo after one SIGINT,
\* which ^C still ends, and so does a second SIGINT (lab1a.c:41-46, 82-86).
KeysEnd ==
  (shell_flag /\ \/ {"^C", "^D"} \cap ToSet(typed) # {}
                 \/ shell # "running"
                 \/ interrupts > (IF handled THEN 1 ELSE 0))
    ~> \/ status # "running" /\ shell # "running"
       \/ handled /\ interrupts = 1 /\ "^C" \notin ToSet(typed)
       \/ []Clogged

\* Lab1A/README: lab1a "passes input/output between two processes": what the
\* shell wrote was shown when lab1a ends after it (lab1a.c:170-186).
OutputIsPassed == shell_flag /\ status = "exit0" => Len(shown) = wrote
=============================================================================

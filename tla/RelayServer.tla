----------------------------- MODULE RelayServer -----------------------------
(* Lab1B/lab1b-server.c: bytes relayed one by one between the connection and *)
(* a shell behind two pipes.  The shell and the sender of SIGINT are the     *)
(* environment.                                                              *)
EXTENDS RelayWires

CONSTANTS Outputs,        \* the bytes the shell may write, in order
          PipeSize,       \* how many bytes a pipe holds
          MaxInterrupts   \* how often SIGINT may be sent to the server

ASSUME ServerAssumption == /\ Outputs \in Seq(Replies)
                           /\ PipeSize \in Nat \ {0}
                           /\ MaxInterrupts \in Nat

VARIABLES sbuffer,        \* *buffer
          srevents,       \* the branches of this round that are still to do
          scaller,        \* who is in exit_code, or "none"
          sstatus,        \* "running", or how the server ended
          encrypted, decrypted,   \* the uses of its two ciphers
          tchildOpen,     \* tchild[1] is open; fchild[0] is while the socket is
          reaped,         \* waitpid has returned the shell
          toShell, fromShell,     \* the bytes in the pipes
          fed,            \* the bytes of the connection the shell has read
          repeated,       \* a byte was relayed to it again, at the end of those
          wrote,          \* how many bytes the shell has written
          work,           \* how many it is about to write
          shell,          \* "running", "exited" or "signaled"
          killed,         \* SIGINT is on its way to the shell
          interrupts      \* how often SIGINT was sent to the server

loop == <<sbuffer, srevents, scaller, sstatus, encrypted, decrypted, reaped>>
child == <<fed, repeated, wrote, work, shell>>
serverVars == <<loop, tchildOpen, toShell, fromShell, child, killed, interrupts>>

ServerInit == /\ sbuffer = Plain(Other)
              /\ srevents = {}
              /\ scaller = "none"
              /\ sstatus = "running"
              /\ encrypted = 0 /\ decrypted = 0
              /\ tchildOpen = TRUE
              /\ reaped = FALSE
              /\ toShell = <<>> /\ fromShell = <<>>
              /\ fed = <<>> /\ repeated = FALSE
              /\ wrote = 0 /\ work = 0
              /\ shell = "running"
              /\ killed = FALSE
              /\ interrupts = 0

-----------------------------------------------------------------------------
(* exit_code(), as exit handler and from the signal handler.                 *)

\* The pipes and the socket are closed; waitpid is next.
ExitCode(who, unread) == /\ scaller' = who
                         /\ tchildOpen' = FALSE
                         /\ CloseServer(unread)

\* exit_code has run before: waitpid fails, unless the cipher that is released
\* again crashes the server first.
EndsTwice == {"exit1"} \cup (IF encrypt_flag THEN {"crashed"} ELSE {})

WaitFails == /\ reaped
             /\ sstatus' \in EndsTwice
             /\ UNCHANGED <<scaller, reaped>>

\* The shell exited by itself: exit(0), which from a handler runs exit_code again.
WaitExited == /\ ~reaped
              /\ shell = "exited"
              /\ reaped' = TRUE
              /\ sstatus' \in IF scaller = "exit" THEN {"exit0"} ELSE EndsTwice
              /\ UNCHANGED scaller

\* A signal ended the shell: exit_code returns.
WaitSignaled == /\ ~reaped
                /\ shell = "signaled"
                /\ reaped' = TRUE
                /\ \/ scaller = "exit" /\ sstatus' = "exit0" /\ UNCHANGED scaller
                   \/ scaller = "SIGPIPE" /\ sstatus' \in EndsTwice /\ UNCHANGED scaller
                   \/ scaller = "SIGINT" /\ scaller' = "none" /\ UNCHANGED sstatus

Wait == /\ scaller # "none"
        /\ WaitFails \/ WaitExited \/ WaitSignaled
        /\ UNCHANGED <<sbuffer, srevents, encrypted, decrypted, tchildOpen,
                       toShell, fromShell, child, killed, wires>>

-----------------------------------------------------------------------------
(* read_write().                                                             *)

Working == scaller = "none"

ServerPoll ==
  /\ Working /\ srevents = {}
  /\ srevents' = {e \in {"in", "out", "hup"} :
                    \/ e = "in" /\ ServerReadable
                    \/ e = "out" /\ serverOpen /\ fromShell # <<>>
                    \/ e = "hup" /\ serverOpen /\ shell # "running"}
  /\ UNCHANGED <<sbuffer, scaller, sstatus, encrypted, decrypted, reaped,
                 tchildOpen, toShell, fromShell, child, killed, wires>>

Fresh == up # <<>>
Unread == IF Fresh THEN Tail(up) ELSE <<>>

\* One byte of the connection; at its end, or when SIGINT has closed it since
\* poll, the old byte once more.
ServerReads(c) ==
  /\ Working /\ "in" \in srevents
  /\ srevents' = srevents \ {"in"}
  /\ c \in IF Fresh THEN Decode(Head(up), decrypted + 1) ELSE DecodeAgain(sbuffer)
  /\ decrypted' = IF encrypt_flag /\ Fresh THEN decrypted + 1 ELSE decrypted
  /\ sbuffer' = Plain(c)

OnlyReads == up' = Unread /\ UNCHANGED <<down, clientOpen, serverOpen, clientReset,
                                        serverReset>>

ServerCtrlC == /\ ServerReads("^C")
               /\ killed' = ~reaped
               /\ ExitCode("exit", Unread)
               /\ UNCHANGED <<sstatus, encrypted, reaped, toShell, fromShell, child>>

\* Fault: ^D is handed to the shell like any other byte.
ServerCtrlDRelayed == /\ ServerReads("^D")
                      /\ tchildOpen /\ Len(toShell) < PipeSize
                      /\ toShell' = Append(toShell, [char |-> "^D", fresh |-> Fresh])
                      /\ OnlyReads
                      /\ UNCHANGED <<scaller, sstatus, encrypted, reaped, tchildOpen,
                                     fromShell, child, killed>>

\* The pipe is closed, and writing ^D to it fails unnoticed.
ServerCtrlD == /\ ServerReads("^D")
               /\ tchildOpen' = FALSE
               /\ OnlyReads
               /\ UNCHANGED <<scaller, sstatus, encrypted, reaped, toShell,
                              fromShell, child, killed>>

\* Any other byte is written to the shell: that waits while the pipe is full, is
\* a SIGPIPE if the shell is gone, and fails unnoticed on a closed pipe.
RelayToShell(c) ==
  /\ c \notin {"^C", "^D"}
  /\ ServerReads(c)
  /\ \/ /\ tchildOpen /\ shell = "running" /\ Len(toShell) < PipeSize
        /\ toShell' = Append(toShell, [char |-> c, fresh |-> Fresh])
        /\ OnlyReads
        /\ UNCHANGED <<scaller, tchildOpen>>
     \/ /\ tchildOpen /\ shell # "running"
        /\ ExitCode("SIGPIPE", Unread)
        /\ UNCHANGED toShell
     \/ /\ ~tchildOpen
        /\ OnlyReads
        /\ UNCHANGED <<scaller, tchildOpen, toShell>>
  /\ UNCHANGED <<sstatus, encrypted, reaped, fromShell, child, killed>>

FromConnection == \/ ServerCtrlC
                  \/ ServerCtrlD
                  \/ \E c \in Chars \cup {Other} : RelayToShell(c)

\* Fault: one cipher serves both directions.
ToConnectionSharedCipher ==
  /\ Working /\ "out" \in srevents /\ "in" \notin srevents
  /\ serverOpen /\ ~serverReset
  /\ srevents' = srevents \ {"out"}
  /\ fromShell' = Tail(fromShell)
  /\ encrypted' = IF encrypt_flag THEN encrypted + 1 ELSE 0
  /\ sbuffer' = Encode(Head(fromShell), encrypted + decrypted + 1)
  /\ ServerWrites(sbuffer')
  /\ UNCHANGED <<up, clientOpen, serverOpen, clientReset, scaller, tchildOpen,
                 sstatus, decrypted, reaped, toShell, child, killed>>

\* One byte from the shell is written to the connection; after a reset that is
\* a SIGPIPE, or the report of the reset, which goes unnoticed.
ToConnection ==
  /\ Working /\ "out" \in srevents /\ "in" \notin srevents
  /\ serverOpen
  /\ srevents' = srevents \ {"out"}
  /\ fromShell' = Tail(fromShell)
  /\ encrypted' = IF encrypt_flag THEN encrypted + 1 ELSE 0
  /\ sbuffer' = Encode(Head(fromShell), encrypted + 1)
  /\ \/ /\ ServerWrites(sbuffer')
        /\ UNCHANGED <<up, clientOpen, serverOpen, clientReset, scaller, tchildOpen>>
     \/ /\ serverReset
        /\ ExitCode("SIGPIPE", up)
  /\ UNCHANGED <<sstatus, decrypted, reaped, toShell, child, killed>>

\* SIGINT has closed both since poll: nothing is read or written, but the cipher
\* that exit_code has released is used, which may crash the server.
ToClosedConnection ==
  /\ Working /\ "out" \in srevents /\ "in" \notin srevents
  /\ ~serverOpen
  /\ srevents' = srevents \ {"out"}
  /\ sstatus' \in {"running"} \cup (IF encrypt_flag THEN {"crashed"} ELSE {})
  /\ UNCHANGED <<sbuffer, scaller, encrypted, decrypted, reaped, tchildOpen,
                 toShell, fromShell, child, killed, wires>>

\* Fault: only POLLERR is tested, which a pipe that is read never has.
ServerHangUpOnError == /\ Working /\ srevents = {"hup"}
                       /\ srevents' = {}
                       /\ UNCHANGED <<sbuffer, scaller, sstatus, encrypted, decrypted,
                                      reaped, tchildOpen, toShell, fromShell, child,
                                      killed, wires>>

ServerHangUp ==
  /\ Working /\ srevents = {"hup"}
  /\ srevents' = {}
  /\ ExitCode("exit", up)
  /\ UNCHANGED <<sbuffer, sstatus, encrypted, decrypted, reaped, toShell,
                 fromShell, child, killed>>

ServerStep == /\ sstatus = "running"
              /\ \/ Wait \/ ServerPoll \/ FromConnection \/ ToConnection
                 \/ ToClosedConnection \/ ServerHangUp
              /\ UNCHANGED interrupts

\* Fault: SIGINT keeps its default action.
InterruptDefault == /\ sstatus = "running"
                    /\ Working
                    /\ interrupts < MaxInterrupts
                    /\ interrupts' = interrupts + 1
                    /\ sstatus' = "exit1"
                    /\ tchildOpen' = FALSE
                    /\ CloseServer(up)
                    /\ UNCHANGED <<sbuffer, srevents, scaller, encrypted, decrypted,
                                   reaped, toShell, fromShell, child, killed>>

\* SIGINT during a round of the loop: the shell is sent one, and exit_code runs.
Interrupt == /\ sstatus = "running"
             /\ Working
             /\ interrupts < MaxInterrupts
             /\ interrupts' = interrupts + 1
             /\ killed' = ~reaped
             /\ ExitCode("SIGINT", up)
             /\ UNCHANGED <<sbuffer, srevents, sstatus, encrypted, decrypted,
                            reaped, toShell, fromShell, child>>

-----------------------------------------------------------------------------
(* The shell.                                                                *)

\* The shell reads a byte; at the end of a line it has output to write.
ShellRead == /\ work = 0
             /\ toShell # <<>>
             /\ toShell' = Tail(toShell)
             /\ IF Head(toShell).fresh
                THEN fed' = Append(fed, Head(toShell).char) /\ UNCHANGED repeated
                ELSE repeated' = TRUE /\ UNCHANGED fed
             /\ IF Head(toShell).char = "NL"
                THEN work' \in 0..(Len(Outputs) - wrote)
                ELSE UNCHANGED work
             /\ UNCHANGED <<fromShell, wrote, shell>>

ShellWrite == /\ work > 0
              /\ serverOpen
              /\ Len(fromShell) < PipeSize
              /\ fromShell' = Append(fromShell, Outputs[wrote + 1])
              /\ wrote' = wrote + 1
              /\ work' = work - 1
              /\ UNCHANGED <<toShell, fed, repeated, shell>>

\* The end of its input, or an exit command, ends the shell.
ShellExit == /\ work = 0
             /\ \/ toShell = <<>> /\ ~tchildOpen
                \/ fed # <<>> /\ Last(fed) = "NL"
             /\ shell' = "exited"
             /\ UNCHANGED <<toShell, fromShell, fed, repeated, wrote, work>>

\* SIGINT, SIGPIPE for writing to a closed pipe, or a command such as kill -9 $$
\* ends it.
ShellSignaled == /\ \/ killed
                    \/ work > 0 /\ ~serverOpen
                    \/ work = 0 /\ fed # <<>> /\ Last(fed) = "NL"
                 /\ shell' = "signaled"
                 /\ UNCHANGED <<toShell, fromShell, fed, repeated, wrote, work>>

ShellStep == /\ shell = "running"
             /\ ShellRead \/ ShellWrite \/ ShellExit \/ ShellSignaled
             /\ UNCHANGED <<loop, tchildOpen, killed, interrupts, wires>>

=============================================================================

---------------------------- MODULE Relay_proofs ----------------------------
(* Theorems about Relay, for all scripts, outputs and sizes of the pipes.    *)
EXTENDS Relay, FiniteSetTheorems, TLAPS

\* exit_code closes the connection before it waits, and every way out of it, and
\* out of the server, leads through a waitpid that returned the shell.
WaitedFor == /\ sstatus # "running" => reaped
             /\ reaped => shell # "running"
             /\ ~serverOpen => scaller # "none" \/ reaped

waiting == <<sstatus, reaped, shell, serverOpen, scaller>>

\* The shell runs at first.
LEMMA InitWaitedFor == Init => WaitedFor
BY DEF Init, WiresInit, ServerInit, WaitedFor

-----------------------------------------------------------------------------
(* Steps that leave the server's end alone.                                  *)

\* The client never touches the server's end.
LEMMA ClientKeepsServer == Client \/ User => UNCHANGED waiting
<1>1. ASSUME Client PROVE UNCHANGED waiting
  <2>1. /\ UNCHANGED serverVars
        /\ ClientPoll \/ SendKey \/ Receive \/ ClientHangUp
    BY <1>1 DEF Client, ClientStep
  <2>2. UNCHANGED <<sstatus, reaped, shell, scaller>>
    BY <2>1 DEF serverVars, loop, child
  <2>3. UNCHANGED serverOpen
    <3>1. CASE ClientPoll  BY <3>1 DEF ClientPoll, wires
    <3>2. CASE SendKey
      BY <3>2 DEF SendKey, ClientWrites, CloseClient
    <3>3. CASE Receive
      <4>1. CASE ReceiveByte  BY <4>1 DEF ReceiveByte
      <4>2. CASE ReceiveEnd
        BY <4>2 DEF ReceiveEnd, ClientExit, CloseClient, wires
      <4> QED  BY <3>3, <4>1, <4>2 DEF Receive
    <3>4. CASE ClientHangUp  BY <3>4 DEF ClientHangUp, ClientExit, CloseClient
    <3> QED  BY <2>1, <3>1, <3>2, <3>3, <3>4
  <2> QED  BY <2>2, <2>3 DEF waiting
<1>2. ASSUME User PROVE UNCHANGED waiting
  BY <1>2 DEF User, Type, serverVars, loop, child, wires, waiting
<1> QED  BY <1>1, <1>2

\* What the shell does only lets it run on, or ends it.
LEMMA ShellKeepsServer ==
  Shell => /\ UNCHANGED <<sstatus, reaped, serverOpen, scaller>>
           /\ shell = "running"
BY DEF Shell, ShellStep, loop, wires

-----------------------------------------------------------------------------
(* Steps of the server.                                                      *)

\* exit_code starts: the server runs, and the shell is as it was.
LEMMA ExitCodeWaits ==
  ASSUME WaitedFor, NEW who \in {"exit", "SIGINT", "SIGPIPE"}, NEW unread,
         ExitCode(who, unread), UNCHANGED <<sstatus, reaped, shell>>
  PROVE  WaitedFor'
BY DEF ExitCode, CloseServer, WaitedFor

\* A waitpid of exit_code returns the shell, or fails once it was returned.
LEMMA WaitStep == WaitedFor /\ sstatus = "running" /\ Wait => WaitedFor'
<1> SUFFICES ASSUME WaitedFor, sstatus = "running", Wait PROVE WaitedFor'
  OBVIOUS
<1>1. UNCHANGED <<shell, serverOpen>>
  BY DEF Wait, child, wires
<1>2. CASE WaitFails  BY <1>1, <1>2 DEF WaitFails, WaitedFor
<1>3. CASE WaitExited  BY <1>1, <1>3 DEF WaitExited, WaitedFor
<1>4. CASE WaitSignaled  BY <1>1, <1>4 DEF WaitSignaled, WaitedFor
<1> QED  BY <1>2, <1>3, <1>4 DEF Wait

\* What the server reads ends it by way of exit_code.
LEMMA FromConnectionStep == WaitedFor /\ FromConnection => WaitedFor'
<1> SUFFICES ASSUME WaitedFor, FromConnection PROVE WaitedFor'
  OBVIOUS
<1>1. CASE ServerCtrlC
  BY <1>1, ExitCodeWaits DEF ServerCtrlC, child
<1>2. CASE ServerCtrlD
  BY <1>2 DEF ServerCtrlD, OnlyReads, child, WaitedFor
<1>3. ASSUME NEW c, RelayToShell(c) PROVE WaitedFor'
  <2>1. UNCHANGED <<sstatus, reaped, shell>>
    BY <1>3 DEF RelayToShell, child
  <2>2. ASSUME OnlyReads, UNCHANGED scaller PROVE WaitedFor'
    BY <2>1, <2>2 DEF OnlyReads, WaitedFor
  <2>3. ASSUME ExitCode("SIGPIPE", Unread) PROVE WaitedFor'
    BY <2>1, <2>3, ExitCodeWaits
  <2> QED  BY <1>3, <2>2, <2>3 DEF RelayToShell
<1> QED  BY <1>1, <1>2, <1>3 DEF FromConnection

\* A failing write ends it by way of exit_code.
LEMMA ToConnectionStep == WaitedFor /\ ToConnection => WaitedFor'
<1> SUFFICES ASSUME WaitedFor, ToConnection PROVE WaitedFor'
  OBVIOUS
<1>1. UNCHANGED <<sstatus, reaped, shell>>
  BY DEF ToConnection, child
<1>2. CASE UNCHANGED <<serverOpen, scaller>>
  BY <1>1, <1>2 DEF WaitedFor
<1>3. CASE ExitCode("SIGPIPE", up)
  BY <1>1, <1>3, ExitCodeWaits
<1> QED  BY <1>2, <1>3 DEF ToConnection

\* The closed connection is only met again after a SIGINT whose exit_code
\* returned, and so after the shell was waited for.
LEMMA ToClosedConnectionStep == WaitedFor /\ ToClosedConnection => WaitedFor'
BY DEF ToClosedConnection, Working, WaitedFor, child, wires

\* Every step of the server keeps the wait.
LEMMA ServerKeepsWaitedFor == WaitedFor /\ Server => WaitedFor'
<1> SUFFICES ASSUME WaitedFor, Server PROVE WaitedFor'
  OBVIOUS
<1>1. CASE Wait  BY <1>1, WaitStep DEF Server, ServerStep
<1>2. CASE ServerPoll  BY <1>2 DEF ServerPoll, child, wires, WaitedFor
<1>3. CASE ServerHangUp  BY <1>3, ExitCodeWaits DEF ServerHangUp, child
<1> QED
  BY <1>1, <1>2, <1>3, FromConnectionStep, ToConnectionStep, ToClosedConnectionStep
  DEF Server, ServerStep

-----------------------------------------------------------------------------
\* Every step of the system keeps the wait.
LEMMA NextWaitedFor == WaitedFor /\ [Next]_vars => WaitedFor'
<1> SUFFICES ASSUME WaitedFor, [Next]_vars PROVE WaitedFor'
  OBVIOUS
<1>1. CASE Client \/ User  BY <1>1, ClientKeepsServer DEF waiting, WaitedFor
<1>2. CASE Server  BY <1>2, ServerKeepsWaitedFor
<1>3. CASE Shell
  <2>1. ~reaped /\ sstatus = "running"
    BY <1>3, ShellKeepsServer DEF WaitedFor
  <2> QED  BY <1>3, <2>1, ShellKeepsServer DEF WaitedFor
<1>4. CASE Interrupt /\ UNCHANGED <<encrypt_flag, clientVars>>
  BY <1>4, ExitCodeWaits DEF Interrupt, child
<1>5. CASE KillClient /\ UNCHANGED <<encrypt_flag, serverVars>>
  BY <1>5 DEF KillClient, CloseClient, serverVars, loop, child, WaitedFor
<1>6. CASE UNCHANGED vars
  BY <1>6 DEF vars, wires, serverVars, loop, child, WaitedFor
<1> QED
  BY <1>1, <1>2, <1>3, <1>4, <1>5, <1>6 DEF Next, Signal, Terminated

\* However the server ends - by a key, the shell's end, SIGPIPE, SIGINT or a
\* cipher released twice - its shell has ended and was waited for
\* (lab1b-server.c:50-92).
THEOREM RelayLeavesNoShell == Spec => []LeavesNoShell
<1>1. WaitedFor => LeavesNoShell  BY DEF WaitedFor, LeavesNoShell
<1> QED  BY <1>1, InitWaitedFor, NextWaitedFor, PTL DEF Spec

-----------------------------------------------------------------------------
(* No byte is read twice while both ends run.                                *)

ShellBytes == [char : Chars \cup {Other}, fresh : BOOLEAN]

\* What passes through the connection and the pipes, and that poll tells the
\* truth about the two inputs that only their reader takes from.
Traffic == /\ up \in Seq(Bytes) /\ down \in Seq(Bytes)
           /\ script \in Seq(Keys) /\ input \in Seq(Keys)
           /\ "key" \in crevents => input # <<>>
           /\ cencrypted \in Nat /\ encrypted \in Nat
           /\ toShell \in Seq(ShellBytes) /\ fromShell \in Seq(Replies)
           /\ "out" \in srevents => fromShell # <<>>
           /\ wrote \in Nat /\ work \in Nat
           /\ wrote + work <= Len(Outputs)

\* What each end's poll, and each reset, says about the other end.
EndsSeen == /\ cstatus = "running" => clientOpen
            /\ serverReset /\ serverOpen => ~clientOpen
            /\ clientReset => ~serverOpen
            /\ tchildOpen => serverOpen
            /\ "in" \in srevents /\ serverOpen /\ up = <<>> => ~clientOpen
            /\ "sock" \in crevents /\ down = <<>> /\ cstatus = "running" => ~serverOpen

\* Old bytes go round only after the end that sent them is gone.
OldBytes == /\ shownAgain => ~serverOpen
            /\ repeated => cstatus # "running"
            /\ \A n \in DOMAIN toShell : ~toShell[n].fresh => cstatus # "running"

RInv == Traffic /\ EndsSeen /\ OldBytes

\* Nothing is on the way at first.
LEMMA InitRInv == Init => RInv
BY ClientAssumption, ServerAssumption
DEF Init, WiresInit, ClientInit, ServerInit, RInv, Traffic, EndsSeen, OldBytes

\* What a cipher makes is a byte of the connection.
LEMMA EncodeType == ASSUME NEW c \in Chars, NEW n \in Nat PROVE Encode(c, n) \in Bytes
BY DEF Encode, Bytes, Plain

\* What the server relays is a byte of the pipe.
LEMMA ShellByteType == ASSUME NEW c \in Chars \cup {Other}
                       PROVE  [char |-> c, fresh |-> Fresh] \in ShellBytes
<1>1. Fresh \in BOOLEAN  BY Zenon DEF Fresh
<1> QED  BY <1>1, Zenon DEF ShellBytes

\* A sequence with one element more.
LEMMA AppendType ==
  ASSUME NEW S, NEW s \in Seq(S), NEW e \in S
  PROVE  Append(s, e) \in Seq(S) /\ Append(s, e) # <<>>
<1>1. Append(s, e) \in Seq(S)  OBVIOUS
<1>2. Len(Append(s, e)) = Len(s) + 1 /\ Len(s) \in Nat  OBVIOUS
<1> QED  BY <1>1, <1>2

\* A write adds a byte, or leaves the connection as it is.
LEMMA ClientWritesByte ==
  ASSUME NEW b \in Bytes, up \in Seq(Bytes), ClientWrites(b)
  PROVE  /\ up' \in Seq(Bytes)
         /\ up' = <<>> => up = <<>>
         /\ clientReset' => clientReset \/ ~serverOpen
<1>1. Append(up, b) \in Seq(Bytes) /\ Append(up, b) # <<>>
  BY AppendType
<1> QED  BY <1>1 DEF ClientWrites

\* The same of the server.
LEMMA ServerWritesByte ==
  ASSUME NEW b \in Bytes, down \in Seq(Bytes), ServerWrites(b)
  PROVE  /\ down' \in Seq(Bytes)
         /\ down' = <<>> => down = <<>>
         /\ serverReset' => serverReset \/ ~clientOpen
<1>1. Append(down, b) \in Seq(Bytes) /\ Append(down, b) # <<>>
  BY AppendType
<1> QED  BY <1>1 DEF ServerWrites

\* The client, and the user, keep the traffic and what each end sees.
LEMMA ClientKeepsRInv == RInv /\ (Client \/ User) => RInv'
<1> SUFFICES ASSUME RInv, Client \/ User PROVE RInv'
  OBVIOUS
<1> USE DEF RInv, Traffic, EndsSeen, OldBytes, wires, serverVars, loop, child
<1>1. CASE ClientPoll /\ UNCHANGED <<encrypt_flag, serverVars>> /\ cstatus = "running"
  BY <1>1 DEF ClientPoll, ClientReadable
<1>2. CASE SendKey /\ UNCHANGED <<encrypt_flag, serverVars>> /\ cstatus = "running"
  <2>1. Head(input) \in Keys /\ Tail(input) \in Seq(Keys)
    BY <1>2 DEF SendKey
  <2>2. Encode(Head(input), cencrypted + 1) \in Bytes
    BY <2>1, EncodeType DEF Chars
  <2>3. cencrypted' \in Nat
    BY <1>2 DEF SendKey
  <2>4. CASE clientReset /\ cstatus' = "killed" /\ CloseClient(down)
    BY <1>2, <2>1, <2>3, <2>4 DEF SendKey, CloseClient
  <2>5. CASE /\ ClientWrites(Encode(Head(input), cencrypted + 1))
             /\ UNCHANGED <<down, clientOpen, serverOpen, serverReset, cstatus>>
    <3>1. /\ up' \in Seq(Bytes)
          /\ up' = <<>> => up = <<>>
          /\ clientReset' => clientReset \/ ~serverOpen
      BY <2>2, <2>5, ClientWritesByte
    <3>2. /\ UNCHANGED <<script, shownAgain, serverVars>>
          /\ input' = Tail(input)
          /\ crevents' = crevents \ {"key"}
      BY <1>2 DEF SendKey
    <3> QED  BY <2>1, <2>3, <2>5, <3>1, <3>2
  <2>6. \/ /\ ClientWrites(Encode(Head(input), cencrypted + 1))
           /\ UNCHANGED <<down, clientOpen, serverOpen, serverReset, cstatus>>
        \/ clientReset /\ cstatus' = "killed" /\ CloseClient(down)
    BY <1>2, Zenon DEF SendKey
  <2> QED  BY <2>4, <2>5, <2>6
<1>3. CASE Receive /\ UNCHANGED <<encrypt_flag, serverVars>> /\ cstatus = "running"
  <2>1. CASE ReceiveByte  BY <1>3, <2>1 DEF Receive, ReceiveByte
  <2>2. CASE ReceiveEnd
    BY <1>3, <2>2 DEF Receive, ReceiveEnd, ClientExit, CloseClient
  <2> QED  BY <1>3, <2>1, <2>2 DEF Receive
<1>4. CASE ClientHangUp /\ UNCHANGED <<encrypt_flag, serverVars>>
  BY <1>4 DEF ClientHangUp, ClientExit, CloseClient
<1>5. CASE User
  <2>1. /\ script' \in Seq(Keys)
        /\ Head(script) \in Keys
        /\ input' = Append(input, Head(script))
    BY <1>5 DEF User, Type
  <2>2. input' \in Seq(Keys) /\ input' # <<>>
    BY <2>1
  <2>3. UNCHANGED <<serverVars, wires, shownAgain, cstatus, crevents, cencrypted>>
    BY <1>5 DEF User, Type
  <2> QED  BY <2>1, <2>2, <2>3
<1> QED  BY <1>1, <1>2, <1>3, <1>4, <1>5 DEF Client, ClientStep
\* The server's end closes, and with it everything that a server without a
\* connection must not touch any more.
LEMMA CloseKeepsRInv ==
  ASSUME RInv, NEW who, NEW unread, ExitCode(who, unread),
         encrypted' \in Nat,
         toShell' = toShell, fromShell' \in Seq(Replies),
         "out" \in srevents' => fromShell' # <<>>,
         UNCHANGED <<clientVars, child>>
  PROVE  RInv'
BY DEF RInv, Traffic, EndsSeen, OldBytes, ExitCode, CloseServer, clientVars, child

\* What the server reads.
LEMMA FromConnectionKeepsRInv ==
  RInv /\ FromConnection /\ UNCHANGED clientVars => RInv'
<1> SUFFICES ASSUME RInv, FromConnection, UNCHANGED clientVars PROVE RInv'
  OBVIOUS
<1>1. ASSUME NEW c, ServerReads(c)
      PROVE  /\ srevents' = srevents \ {"in"} /\ "in" \in srevents
             /\ Unread \in Seq(Bytes)
    BY <1>1 DEF ServerReads, Unread, Fresh, RInv, Traffic
<1>2. CASE ServerCtrlC
  BY <1>1, <1>2, CloseKeepsRInv DEF ServerCtrlC, RInv, Traffic
<1>3. CASE ServerCtrlD
  BY <1>1, <1>3
  DEF ServerCtrlD, OnlyReads, clientVars, child, RInv, Traffic, EndsSeen, OldBytes
<1>4. ASSUME NEW c \in Chars \cup {Other}, RelayToShell(c) PROVE RInv'
  <2>1. /\ ServerReads(c)
        /\ UNCHANGED <<sstatus, encrypted, reaped, fromShell, child, killed>>
    BY <1>4 DEF RelayToShell
  <2>2. CASE ExitCode("SIGPIPE", Unread) /\ UNCHANGED toShell
    BY <1>1, <2>1, <2>2, CloseKeepsRInv DEF RInv, Traffic
  <2>3. CASE OnlyReads /\ UNCHANGED <<scaller, tchildOpen, toShell>>
    BY <1>1, <2>1, <2>3
    DEF OnlyReads, clientVars, child, RInv, Traffic, EndsSeen, OldBytes
  <2>4. CASE /\ tchildOpen
             /\ toShell' = Append(toShell, [char |-> c, fresh |-> Fresh])
             /\ OnlyReads
             /\ UNCHANGED <<scaller, tchildOpen>>
    <3>1. ~Fresh => cstatus # "running"
      BY <1>1, <2>1, <2>4 DEF Fresh, RInv, EndsSeen
    <3>2. [char |-> c, fresh |-> Fresh] \in ShellBytes
      BY ShellByteType
    <3>3. Traffic'
      BY <1>1, <2>1, <2>4, <3>2 DEF OnlyReads, clientVars, child, RInv, Traffic
    <3>4. EndsSeen'
      BY <1>1, <2>1, <2>4 DEF OnlyReads, clientVars, child, RInv, EndsSeen
    <3>5. OldBytes'
      <4>1. UNCHANGED <<shownAgain, serverOpen, repeated, cstatus>>
        BY <2>1, <2>4 DEF OnlyReads, clientVars, child
      <4>2. ASSUME NEW n \in DOMAIN toShell', ~toShell'[n].fresh
            PROVE  cstatus # "running"
        <5>1. toShell \in Seq(ShellBytes)
          BY DEF RInv, Traffic
        <5>2. CASE n \in DOMAIN toShell /\ toShell'[n] = toShell[n]
          BY <4>2, <5>2 DEF RInv, OldBytes
        <5>3. CASE toShell'[n] = [char |-> c, fresh |-> Fresh]
          BY <3>1, <4>2, <5>3
        <5> QED  BY <2>4, <3>2, <5>1, <5>2, <5>3
      <4> QED  BY <4>1, <4>2 DEF RInv, OldBytes
    <3> QED  BY <3>3, <3>4, <3>5 DEF RInv
  <2> QED  BY <1>4, <2>2, <2>3, <2>4 DEF RelayToShell
<1> QED  BY <1>2, <1>3, <1>4 DEF FromConnection

\* What the server writes.
LEMMA ToConnectionKeepsRInv ==
  RInv /\ ToConnection /\ UNCHANGED clientVars => RInv'
<1> SUFFICES ASSUME RInv, ToConnection, UNCHANGED clientVars PROVE RInv'
  OBVIOUS
<1>1. /\ Head(fromShell) \in Replies /\ Tail(fromShell) \in Seq(Replies)
      /\ encrypted' \in Nat
      /\ srevents' = srevents \ {"out"}
  BY DEF ToConnection, RInv, Traffic
<1>2. Encode(Head(fromShell), encrypted + 1) \in Bytes
  BY <1>1, EncodeType DEF Chars, RInv, Traffic
<1>3. CASE /\ ServerWrites(sbuffer')
           /\ UNCHANGED <<up, clientOpen, serverOpen, clientReset, scaller, tchildOpen>>
  <2>1. /\ UNCHANGED <<toShell, child, clientVars, up>>
        /\ fromShell' = Tail(fromShell)
        /\ sbuffer' \in Bytes
    BY <1>2, <1>3 DEF ToConnection
  <2>2. /\ down' \in Seq(Bytes)
        /\ down' = <<>> => down = <<>>
        /\ serverReset' => serverReset \/ ~clientOpen
    BY <1>3, <2>1, ServerWritesByte DEF RInv, Traffic
  <2>3. Traffic'
    BY <1>1, <2>1, <2>2 DEF clientVars, child, RInv, Traffic
  <2>4. EndsSeen'
    BY <1>1, <1>3, <2>1, <2>2 DEF clientVars, RInv, EndsSeen
  <2>5. OldBytes'
    BY <1>3, <2>1 DEF clientVars, child, RInv, OldBytes
  <2> QED  BY <2>3, <2>4, <2>5 DEF RInv
<1>4. CASE ExitCode("SIGPIPE", up)
  BY <1>1, <1>4, CloseKeepsRInv DEF ToConnection
<1> QED  BY <1>3, <1>4 DEF ToConnection

\* The server keeps the traffic and what each end sees.
LEMMA ServerKeepsRInv == RInv /\ Server => RInv'
<1> SUFFICES ASSUME RInv, Server PROVE RInv'
  OBVIOUS
<1>1. UNCHANGED clientVars  BY DEF Server
<1> USE DEF RInv, Traffic, EndsSeen, OldBytes, clientVars, child, wires
<1>2. CASE Wait  BY <1>1, <1>2 DEF Wait
<1>3. CASE ServerPoll  BY <1>1, <1>3 DEF ServerPoll, ServerReadable
<1>4. CASE FromConnection  BY <1>1, <1>4, FromConnectionKeepsRInv
<1>5. CASE ToConnection  BY <1>1, <1>5, ToConnectionKeepsRInv
<1>6. CASE ToClosedConnection  BY <1>1, <1>6 DEF ToClosedConnection
<1>7. CASE ServerHangUp  BY <1>1, <1>7, CloseKeepsRInv DEF ServerHangUp
<1> QED  BY <1>2, <1>3, <1>4, <1>5, <1>6, <1>7 DEF Server, ServerStep

\* So does the shell.
LEMMA ShellKeepsRInv == RInv /\ Shell => RInv'
<1> SUFFICES ASSUME RInv, Shell PROVE RInv'
  OBVIOUS
<1>1. UNCHANGED <<loop, tchildOpen, killed, interrupts, wires, clientVars>>
  BY DEF Shell, ShellStep
<1> USE DEF RInv, Traffic, EndsSeen, OldBytes, clientVars, loop, wires
<1>2. CASE ShellRead
  <2>1. /\ toShell # <<>> /\ toShell \in Seq(ShellBytes)
        /\ toShell' = Tail(toShell)
    BY <1>2 DEF ShellRead
  <2>2. /\ toShell' \in Seq(ShellBytes)
        /\ \A n \in DOMAIN toShell' : n + 1 \in DOMAIN toShell /\ toShell'[n] = toShell[n + 1]
        /\ 1 \in DOMAIN toShell /\ Head(toShell) = toShell[1]
    BY <2>1
  <2>3. work' \in Nat /\ wrote' = wrote /\ wrote + work' <= Len(Outputs)
    BY <1>2, ServerAssumption DEF ShellRead
  <2>4. Traffic'
    BY <1>1, <1>2, <2>2, <2>3 DEF ShellRead
  <2>5. repeated' => cstatus # "running"
    BY <1>2, <2>2 DEF ShellRead
  <2>6. \A n \in DOMAIN toShell' : ~toShell'[n].fresh => cstatus # "running"
    BY <2>2
  <2> QED  BY <1>1, <2>4, <2>5, <2>6
<1>3. CASE ShellWrite
  <2>1. Outputs[wrote + 1] \in Replies
    BY <1>3, ServerAssumption DEF ShellWrite
  <2>2. /\ fromShell' \in Seq(Replies) /\ fromShell' # <<>>
        /\ wrote' \in Nat /\ work' \in Nat /\ wrote' + work' <= Len(Outputs)
        /\ UNCHANGED <<toShell, fed, repeated, shell>>
    BY <1>3, <2>1 DEF ShellWrite
  <2> QED  BY <1>1, <2>2
<1>4. CASE ShellExit  BY <1>1, <1>4 DEF ShellExit
<1>5. CASE ShellSignaled  BY <1>1, <1>5 DEF ShellSignaled
<1> QED  BY <1>2, <1>3, <1>4, <1>5 DEF Shell, ShellStep

\* So does every step.
LEMMA NextRInv == RInv /\ [Next]_vars => RInv'
<1> SUFFICES ASSUME RInv, [Next]_vars PROVE RInv'
  OBVIOUS
<1>1. CASE Client \/ User  BY <1>1, ClientKeepsRInv
<1>2. CASE Server  BY <1>2, ServerKeepsRInv
<1>3. CASE Shell  BY <1>3, ShellKeepsRInv
<1>4. CASE Interrupt /\ UNCHANGED <<encrypt_flag, clientVars>>
  BY <1>4, CloseKeepsRInv DEF Interrupt, child, RInv, Traffic
<1>5. CASE KillClient /\ UNCHANGED <<encrypt_flag, serverVars>>
  BY <1>5 DEF KillClient, CloseClient, serverVars, loop, child,
              RInv, Traffic, EndsSeen, OldBytes
<1>6. CASE UNCHANGED vars
  BY <1>6 DEF vars, wires, clientVars, serverVars, loop, child,
              RInv, Traffic, EndsSeen, OldBytes
<1> QED
  BY <1>1, <1>2, <1>3, <1>4, <1>5, <1>6 DEF Next, Signal, Terminated

\* The shell is fed an old byte only once the client has ended, and the terminal
\* is shown one only once the server has closed its end, whatever is in flight
\* and whenever either side is interrupted or killed (lab1b-client.c:234,
\* lab1b-server.c:50-57, 107).
THEOREM RelayRepeatsOnlyAtEnd == Spec => []RepeatsOnlyAtEnd
<1>1. RInv => RepeatsOnlyAtEnd  BY DEF RInv, OldBytes, RepeatsOnlyAtEnd
<1> QED  BY <1>1, InitRInv, NextRInv, PTL DEF Spec

-----------------------------------------------------------------------------
(* What the terminal shows is what the shell wrote.                          *)

\* The uses of a cipher for n bytes.
Uses(n) == IF encrypt_flag THEN n ELSE 0

ShownInv == /\ shown \in Seq(Replies)
            /\ Len(shown) <= Len(Outputs)
            /\ \A n \in 1..Len(shown) : shown[n] = Outputs[n]

\* As long as the client runs, the connection holds the bytes that come next,
\* each encrypted with the use of the cipher that decrypts it.
DownInv ==
  cstatus = "running" =>
    /\ cdecrypted = Uses(Len(shown))
    /\ Len(shown) + Len(down) <= Len(Outputs)
    /\ \A n \in 1..Len(down) :
         down[n] = Encode(Outputs[Len(shown) + n], Len(shown) + n)

\* As long as both run, the pipe holds the bytes after those.
PipeInv ==
  cstatus = "running" /\ serverOpen =>
    /\ encrypted = Uses(Len(shown) + Len(down))
    /\ Len(shown) + Len(down) + Len(fromShell) = wrote
    /\ \A n \in 1..Len(fromShell) :
         fromShell[n] = Outputs[Len(shown) + Len(down) + n]

OutInv == ShownInv /\ DownInv /\ PipeInv

\* Nothing is shown at first.
LEMMA InitOutInv == Init => OutInv
BY ServerAssumption
DEF Init, WiresInit, ClientInit, ServerInit, OutInv, ShownInv, DownInv, PipeInv, Uses

\* The client shows the next byte of the connection, decrypted in step.
LEMMA ClientKeepsOutInv == RInv /\ OutInv /\ (Client \/ User) => OutInv'
<1> SUFFICES ASSUME RInv, OutInv, Client \/ User PROVE OutInv'
  OBVIOUS
<1>1. /\ UNCHANGED <<encrypt_flag, encrypted, wrote, fromShell>>
      /\ cstatus' = "running" => cstatus = "running"
  BY DEF Client, ClientStep, User, Type, serverVars, loop, child
<1>2. \/ ReceiveByte /\ cstatus = "running" /\ UNCHANGED cstatus
      \/ /\ UNCHANGED <<shown, cdecrypted, serverOpen>>
         /\ cstatus' = "running" => UNCHANGED down
  <2>1. CASE ClientPoll  BY <2>1 DEF ClientPoll, wires
  <2>2. CASE SendKey  BY <2>2 DEF SendKey, ClientWrites, CloseClient
  <2>3. CASE Receive /\ cstatus = "running"
    BY <2>3 DEF Receive, ReceiveByte, ReceiveEnd, ClientExit, CloseClient, wires
  <2>4. CASE ClientHangUp  BY <2>4 DEF ClientHangUp, ClientExit, CloseClient
  <2>5. CASE User  BY <2>5 DEF User, Type, wires
  <2> QED  BY <2>1, <2>2, <2>3, <2>4, <2>5 DEF Client, ClientStep
<1>3. CASE /\ UNCHANGED <<shown, cdecrypted, serverOpen>>
           /\ cstatus' = "running" => UNCHANGED down
  BY <1>1, <1>3 DEF OutInv, ShownInv, DownInv, PipeInv, Uses, Encode
<1>4. CASE ReceiveByte /\ cstatus = "running" /\ UNCHANGED cstatus
  <2> DEFINE k == Len(shown)
  <2>1. /\ down # <<>> /\ down \in Seq(Bytes) /\ down' = Tail(down)
        /\ UNCHANGED serverOpen
        /\ cdecrypted' = IF encrypt_flag THEN cdecrypted + 1 ELSE 0
    BY <1>4 DEF ReceiveByte, RInv, Traffic
  <2>2. /\ cdecrypted = Uses(k)
        /\ k \in Nat /\ k + Len(down) <= Len(Outputs)
        /\ Head(down) = Encode(Outputs[k + 1], k + 1)
    BY <1>4, <2>1 DEF OutInv, ShownInv, DownInv
  <2>3. Outputs[k + 1] \in Replies
    BY <2>1, <2>2, ServerAssumption
  <2>4. Decode(Head(down), cdecrypted + 1) = {Outputs[k + 1]}
    BY <2>2 DEF Decode, Encode, Plain, Uses
  <2>5. shown' = Append(shown, Outputs[k + 1])
    BY <1>4, <2>4 DEF ReceiveByte
  <2>6. ShownInv'
    BY <2>1, <2>2, <2>3, <2>5 DEF OutInv, ShownInv
  <2>7. Len(shown') = k + 1 /\ Len(down') = Len(down) - 1
    BY <2>1, <2>5 DEF OutInv, ShownInv
  <2>8. \A n \in 1..Len(down') : n + 1 \in 1..Len(down) /\ down'[n] = down[n + 1]
    BY <2>1
  <2>9. DownInv'
    <3>1. cdecrypted' = Uses(k + 1)
      BY <2>1, <2>2 DEF Uses
    <3>2. ASSUME NEW n \in 1..Len(down')
          PROVE  down'[n] = Encode(Outputs[k + 1 + n], k + 1 + n)
      <4>1. down[n + 1] = Encode(Outputs[k + (n + 1)], k + (n + 1))
        BY <1>4, <2>8 DEF OutInv, DownInv
      <4>2. k + (n + 1) = k + 1 + n
        BY <2>2
      <4> QED  BY <2>8, <4>1, <4>2
    <3> QED  BY <1>1, <2>1, <2>2, <2>7, <3>1, <3>2 DEF DownInv, Uses, Encode
  <2>10. PipeInv'
    <3>1. Len(shown') + Len(down') = k + Len(down)
      BY <2>1, <2>2, <2>7
    <3> QED  BY <1>1, <1>4, <2>1, <3>1 DEF OutInv, PipeInv, Uses
  <2> QED  BY <2>6, <2>9, <2>10 DEF OutInv
<1> QED  BY <1>2, <1>3, <1>4

\* The server touches what is on the way to the terminal only to pass it on.
LEMMA ServerKeepsOutInv == RInv /\ OutInv /\ Server => OutInv'
<1> SUFFICES ASSUME RInv, OutInv, Server PROVE OutInv'
  OBVIOUS
<1>1. /\ UNCHANGED <<encrypt_flag, shown, cdecrypted, cstatus>>
      /\ UNCHANGED wrote
  <2>1. UNCHANGED <<encrypt_flag, shown, cdecrypted, cstatus>>
    BY DEF Server, clientVars
  <2>2. UNCHANGED wrote
    BY DEF Server, ServerStep, Wait, ServerPoll, FromConnection, ServerCtrlC,
           ServerCtrlD, RelayToShell, ToConnection, ToClosedConnection,
           ServerHangUp, child
  <2> QED  BY <2>1, <2>2
<1>2. ASSUME UNCHANGED <<down, fromShell, encrypted>>, serverOpen' => serverOpen
      PROVE  OutInv'
  BY <1>1, <1>2 DEF OutInv, ShownInv, DownInv, PipeInv, Uses, Encode
<1>3. CASE Wait  BY <1>2, <1>3 DEF Wait, wires
<1>4. CASE ServerPoll  BY <1>2, <1>4 DEF ServerPoll, wires
<1>5. CASE FromConnection
  BY <1>2, <1>5 DEF FromConnection, ServerCtrlC, ServerCtrlD, RelayToShell,
                    OnlyReads, ExitCode, CloseServer
<1>6. CASE ToConnection
  <2>1. CASE ExitCode("SIGPIPE", up)
    BY <1>1, <2>1 DEF ExitCode, CloseServer, OutInv, ShownInv, DownInv, PipeInv,
                      Uses, Encode
  <2>2. CASE cstatus # "running"
    BY <1>1, <2>2 DEF OutInv, ShownInv, DownInv, PipeInv
  <2>3. CASE /\ cstatus = "running"
             /\ ServerWrites(sbuffer')
             /\ UNCHANGED serverOpen
    <3> DEFINE m == Len(shown) + Len(down)
    <3>1. /\ serverOpen /\ clientOpen /\ ~serverReset
          /\ fromShell # <<>> /\ fromShell \in Seq(Replies)
          /\ down \in Seq(Bytes) /\ encrypted \in Nat
      BY <1>6, <2>3 DEF ToConnection, RInv, Traffic, EndsSeen
    <3>2. /\ down' = Append(down, Encode(Head(fromShell), encrypted + 1))
          /\ fromShell' = Tail(fromShell)
          /\ encrypted' = IF encrypt_flag THEN encrypted + 1 ELSE 0
      BY <1>6, <2>3, <3>1 DEF ToConnection, ServerWrites
    <3>3. /\ encrypted = Uses(m)
          /\ m \in Nat /\ m + Len(fromShell) = wrote
          /\ Head(fromShell) = Outputs[m + 1]
      BY <2>3, <3>1 DEF OutInv, ShownInv, PipeInv
    <3>4. Encode(Head(fromShell), encrypted + 1) = Encode(Outputs[m + 1], m + 1)
      BY <3>3 DEF Encode, Uses
    <3>5. Encode(Outputs[m + 1], m + 1) \in Bytes
      <4>1. Outputs[m + 1] \in Chars
        BY <3>1, <3>3 DEF Chars
      <4> QED  BY <3>3, <4>1, EncodeType
    <3>6. m + 1 <= Len(Outputs)
      BY <3>1, <3>3, ServerAssumption DEF RInv, Traffic
    <3>7. /\ Len(down') = Len(down) + 1
          /\ \A n \in 1..Len(down) : down'[n] = down[n]
          /\ down'[Len(down) + 1] = Encode(Outputs[m + 1], m + 1)
      BY <3>1, <3>2, <3>4, <3>5
    <3>8. Len(shown) \in Nat
      BY DEF OutInv, ShownInv
    <3>9. DownInv'
      <4>1. ASSUME NEW n \in 1..Len(down')
            PROVE  down'[n] = Encode(Outputs[Len(shown) + n], Len(shown) + n)
        <5>1. CASE n \in 1..Len(down)
          BY <2>3, <3>7, <5>1 DEF OutInv, DownInv
        <5>2. CASE n = Len(down) + 1
          <6>1. Len(shown) + n = m + 1
            BY <3>1, <3>8, <5>2
          <6> QED  BY <3>7, <5>2, <6>1
        <5> QED  BY <3>1, <3>7, <5>1, <5>2
      <4> QED  BY <1>1, <2>3, <3>1, <3>6, <3>7, <3>8, <4>1
               DEF OutInv, DownInv, Uses, Encode
    <3>10. PipeInv'
      <4>1. Len(shown') + Len(down') = m + 1
        BY <1>1, <3>1, <3>7, <3>8
      <4>2. encrypted' = Uses(m + 1)
        BY <3>2, <3>3 DEF Uses
      <4>3. \A n \in 1..Len(fromShell') : fromShell'[n] = Outputs[m + 1 + n]
        <5> SUFFICES ASSUME NEW n \in 1..Len(fromShell')
                     PROVE  fromShell'[n] = Outputs[m + 1 + n]
          OBVIOUS
        <5>1. n + 1 \in 1..Len(fromShell) /\ fromShell'[n] = fromShell[n + 1]
          BY <3>1, <3>2
        <5>2. fromShell[n + 1] = Outputs[m + (n + 1)]
          BY <2>3, <3>1, <5>1 DEF OutInv, PipeInv
        <5>3. m + (n + 1) = m + 1 + n
          BY <3>3
        <5> QED  BY <5>1, <5>2, <5>3
      <4>4. m + 1 + Len(fromShell') = wrote
        BY <3>1, <3>2, <3>3
      <4> QED  BY <1>1, <4>1, <4>2, <4>3, <4>4 DEF PipeInv, Uses
    <3> QED  BY <1>1, <3>9, <3>10 DEF OutInv, ShownInv
  <2> QED  BY <1>6, <2>1, <2>2, <2>3 DEF ToConnection
<1>7. CASE ToClosedConnection  BY <1>2, <1>7 DEF ToClosedConnection, wires
<1>8. CASE ServerHangUp
  BY <1>2, <1>8 DEF ServerHangUp, ExitCode, CloseServer
<1> QED
  BY <1>3, <1>4, <1>5, <1>6, <1>7, <1>8 DEF Server, ServerStep

\* The shell writes the next byte to the pipe.
LEMMA ShellKeepsOutInv == RInv /\ OutInv /\ Shell => OutInv'
<1> SUFFICES ASSUME RInv, OutInv, Shell PROVE OutInv'
  OBVIOUS
<1>1. UNCHANGED <<encrypt_flag, shown, cdecrypted, cstatus, down, serverOpen, encrypted>>
  BY DEF Shell, ShellStep, clientVars, loop, wires
<1>2. CASE UNCHANGED <<fromShell, wrote>>
  BY <1>1, <1>2 DEF OutInv, ShownInv, DownInv, PipeInv, Uses, Encode
<1>3. CASE ShellWrite
  <2>1. /\ fromShell' = Append(fromShell, Outputs[wrote + 1])
        /\ wrote' = wrote + 1 /\ wrote \in Nat
        /\ fromShell \in Seq(Replies) /\ down \in Seq(Bytes)
    BY <1>3 DEF ShellWrite, RInv, Traffic
  <2>2. Outputs[wrote + 1] \in Replies
    BY <1>3, ServerAssumption DEF ShellWrite, RInv, Traffic
  <2>3. Len(shown) \in Nat /\ Len(down) \in Nat
    BY <2>1 DEF OutInv, ShownInv
  <2>4. PipeInv'
    <3> SUFFICES ASSUME cstatus = "running", serverOpen PROVE PipeInv'
      BY <1>1 DEF PipeInv
    <3> DEFINE m == Len(shown) + Len(down)
    <3>1. /\ encrypted = Uses(m)
          /\ m + Len(fromShell) = wrote
          /\ \A n \in 1..Len(fromShell) : fromShell[n] = Outputs[m + n]
      BY DEF OutInv, PipeInv
    <3>2. /\ Len(fromShell') = Len(fromShell) + 1
          /\ \A n \in 1..Len(fromShell) : fromShell'[n] = fromShell[n]
          /\ fromShell'[Len(fromShell) + 1] = Outputs[wrote + 1]
      BY <2>1, <2>2
    <3>3. m + (Len(fromShell) + 1) = wrote + 1
      BY <2>1, <2>3, <3>1
    <3>4. ASSUME NEW n \in 1..Len(fromShell')
          PROVE  fromShell'[n] = Outputs[m + n]
      <4>1. CASE n \in 1..Len(fromShell)  BY <3>1, <3>2, <4>1
      <4>2. CASE n = Len(fromShell) + 1  BY <3>2, <3>3, <4>2
      <4> QED  BY <2>1, <3>2, <4>1, <4>2
    <3>5. UNCHANGED m
      BY <1>1
    <3> QED  BY <1>1, <2>1, <3>1, <3>2, <3>3, <3>4, <3>5 DEF PipeInv, Uses
  <2>5. ShownInv'
    BY <1>1 DEF OutInv, ShownInv
  <2>6. DownInv'
    BY <1>1 DEF OutInv, DownInv, Uses, Encode
  <2> QED  BY <2>4, <2>5, <2>6 DEF OutInv
<1> QED
  BY <1>2, <1>3 DEF Shell, ShellStep, ShellRead, ShellExit, ShellSignaled

\* Every step keeps the output in order.
LEMMA NextOutInv == RInv /\ OutInv /\ [Next]_vars => OutInv'
<1> SUFFICES ASSUME RInv, OutInv, [Next]_vars PROVE OutInv'
  OBVIOUS
<1>1. CASE Client \/ User  BY <1>1, ClientKeepsOutInv
<1>2. CASE Server  BY <1>2, ServerKeepsOutInv
<1>3. CASE Shell  BY <1>3, ShellKeepsOutInv
<1> USE DEF OutInv, ShownInv, DownInv, PipeInv, Uses, Encode
<1>4. CASE Interrupt /\ UNCHANGED <<encrypt_flag, clientVars>>
  BY <1>4 DEF Interrupt, ExitCode, CloseServer, clientVars, child
<1>5. CASE KillClient /\ UNCHANGED <<encrypt_flag, serverVars>>
  BY <1>5 DEF KillClient
<1>6. CASE UNCHANGED vars
  BY <1>6 DEF vars, wires, clientVars, serverVars, loop, child
<1> QED
  BY <1>1, <1>2, <1>3, <1>4, <1>5, <1>6 DEF Next, Signal, Terminated

\* With and without encryption the terminal shows the shell's output in order,
\* whatever goes the other way and however either process ends
\* (lab1b-server.c:133-143, lab1b-client.c:234-267).
THEOREM RelayShownIsOutput == Spec => []ShownIsOutput
<1>1. OutInv => ShownIsOutput
  <2> SUFFICES ASSUME OutInv PROVE IsPrefix(shown, Outputs)
    BY DEF ShownIsOutput
  <2>1. /\ shown \in Seq(Replies) /\ Len(shown) <= Len(Outputs)
        /\ \A n \in 1..Len(shown) : shown[n] = Outputs[n]
    BY DEF OutInv, ShownInv
  <2>2. SubSeq(shown, 1, Len(shown)) = SubSeq(Outputs, 1, Len(shown))
    BY <2>1, ServerAssumption
  <2> QED  BY <2>1, <2>2 DEF IsPrefix
<1>2. Init => RInv /\ OutInv  BY InitRInv, InitOutInv
<1>3. RInv /\ OutInv /\ [Next]_vars => (RInv /\ OutInv)'  BY NextRInv, NextOutInv
<1> QED  BY <1>1, <1>2, <1>3, PTL DEF Spec

-----------------------------------------------------------------------------
(* What the shell is fed is what was typed.                                  *)

\* c is the n-th key and ends no input.
IsKey(c, n) == n <= Len(echoed) /\ echoed[n] = c /\ c \notin {"^C", "^D"}

\* How many keys the server has taken from an open connection.
Taken == Len(echoed) - Len(up)

\* The shell's pipe holds the next keys, and old bytes only behind them.
FedInv == /\ echoed \in Seq(Keys) /\ fed \in Seq(Keys)
          /\ \A n \in 1..Len(fed) : IsKey(fed[n], n)
          /\ \A n \in 1..Len(toShell) :
               toShell[n].fresh => /\ IsKey(toShell[n].char, Len(fed) + n)
                                   /\ \A m \in 1..n : toShell[m].fresh

\* As long as the server's end is open, the connection holds the keys after those
\* taken, each encrypted with the use of the cipher that decrypts it.
UpInv ==
  serverOpen =>
    /\ cencrypted = Uses(Len(echoed))
    /\ Len(up) <= Len(echoed)
    /\ decrypted = Uses(Taken)
    /\ \A n \in 1..Len(up) : up[n] = Encode(echoed[Taken + n], Taken + n)

\* As long as the pipe to the shell is open, no key taken ends the input, and
\* they are all there unless the client's last byte has been taken.
TakenInv ==
  tchildOpen =>
    /\ \A n \in 1..Taken : echoed[n] \notin {"^C", "^D"}
    /\ up # <<>> \/ clientOpen =>
         Len(fed) + Len(toShell) = Taken /\ \A n \in 1..Len(toShell) : toShell[n].fresh

InInv == FedInv /\ UpInv /\ TakenInv

\* Initially nothing was typed.
LEMMA InitInInv == Init => InInv
BY DEF Init, WiresInit, ClientInit, ServerInit, InInv, FedInv, UpInv, TakenInv, Uses, Taken

\* The client adds a key to what was echoed and, while the server's end is open,
\* to the connection.
LEMMA SendKeepsInInv ==
  ASSUME RInv, InInv, SendKey, UNCHANGED <<encrypt_flag, serverVars>>, cstatus = "running"
  PROVE  InInv'
<1> DEFINE k == Head(input)
           e == Len(echoed)
<1>1. /\ UNCHANGED <<fed, toShell, decrypted, tchildOpen>>
      /\ echoed \in Seq(Keys) /\ up \in Seq(Bytes) /\ toShell \in Seq(ShellBytes)
      /\ k \in Keys /\ e \in Nat /\ Len(up) \in Nat
  BY DEF SendKey, serverVars, loop, child, InInv, FedInv, RInv, Traffic
<1>2. /\ echoed' = Append(echoed, k)
      /\ cencrypted' = IF encrypt_flag THEN cencrypted + 1 ELSE 0
  BY DEF SendKey
<1>3. /\ echoed' \in Seq(Keys) /\ Len(echoed') = e + 1 /\ echoed'[e + 1] = k
      /\ \A n \in 1..e : echoed'[n] = echoed[n]
  BY <1>1, <1>2
<1> HIDE DEF k
<1>4. FedInv'
  <2>1. ASSUME NEW c, NEW n \in Nat \ {0}, IsKey(c, n) PROVE IsKey(c, n)'
    BY <1>1, <1>3, <2>1 DEF IsKey
  <2>2. Len(fed) \in Nat /\ Len(toShell) \in Nat
    BY <1>1 DEF InInv, FedInv
  <2>3. ASSUME NEW n \in 1..Len(toShell), toShell[n].fresh
        PROVE  IsKey(toShell[n].char, Len(fed) + n)' /\ \A m \in 1..n : toShell[m].fresh
    <3>1. Len(fed) + n \in Nat \ {0}
      BY <2>2
    <3> QED  BY <1>1, <2>1, <2>3, <3>1 DEF InInv, FedInv
  <2>4. \A n \in 1..Len(fed) : IsKey(fed[n], n)'
    BY <1>1, <2>1, <2>2 DEF InInv, FedInv
  <2> QED  BY <1>1, <1>3, <2>3, <2>4 DEF InInv, FedInv
<1>5. \/ /\ ClientWrites(Encode(k, cencrypted + 1))
         /\ UNCHANGED <<down, clientOpen, serverOpen, serverReset, cstatus>>
      \/ clientReset /\ cstatus' = "killed" /\ CloseClient(down)
  BY Zenon DEF SendKey, k
<1>6. CASE ~serverOpen
  <2>1. ~tchildOpen /\ ~tchildOpen' /\ ~serverOpen'
    <3>1. ~tchildOpen
      BY <1>6 DEF RInv, EndsSeen
    <3>2. serverOpen' = serverOpen
      <4>1. CASE UNCHANGED <<down, clientOpen, serverOpen, serverReset, cstatus>>
        BY <4>1
      <4>2. CASE CloseClient(down)
        BY <4>2 DEF CloseClient
      <4> QED  BY <1>5, <4>1, <4>2, Zenon
    <3> QED  BY <1>1, <1>6, <3>1, <3>2
  <2> QED  BY <1>4, <2>1 DEF InInv, UpInv, TakenInv
<1>7. CASE serverOpen
  <2>1. ~clientReset
    BY <1>7 DEF RInv, EndsSeen
  <2>2. /\ up' = Append(up, Encode(k, cencrypted + 1))
        /\ UNCHANGED <<clientOpen, serverOpen>>
    BY <1>5, <1>7, <2>1 DEF ClientWrites
  <2>3. /\ cencrypted = Uses(e) /\ Len(up) <= e /\ decrypted = Uses(Taken)
        /\ \A n \in 1..Len(up) : up[n] = Encode(echoed[Taken + n], Taken + n)
    BY <1>7 DEF InInv, UpInv
  <2>4. Encode(k, cencrypted + 1) = Encode(k, e + 1) /\ Encode(k, e + 1) \in Bytes
    <3>1. k \in Chars /\ e + 1 \in Nat
      BY <1>1 DEF Chars
    <3> QED  BY <2>3, <3>1, EncodeType DEF Encode, Uses
  <2>5. /\ Len(up') = Len(up) + 1 /\ up'[Len(up) + 1] = Encode(k, e + 1)
        /\ \A n \in 1..Len(up) : up'[n] = up[n]
    BY <1>1, <2>2, <2>4
  <2>6. Taken' = Taken /\ Taken \in Nat /\ Taken + Len(up) = e
    BY <1>1, <1>3, <2>3, <2>5 DEF Taken
  <2>7. UpInv'
    <3>1. ASSUME NEW n \in 1..Len(up')
          PROVE  up'[n] = Encode(echoed'[Taken + n], Taken + n)
      <4>1. CASE n \in 1..Len(up)
        <5>1. Taken + n \in 1..e
          BY <1>1, <2>6, <4>1
        <5> QED  BY <1>3, <2>3, <2>5, <4>1, <5>1
      <4>2. CASE n = Len(up) + 1
        <5>1. Taken + n = e + 1
          BY <1>1, <2>6, <4>2
        <5> QED  BY <1>3, <2>5, <4>2, <5>1
      <4> QED  BY <1>1, <2>5, <4>1, <4>2
    <3>2. cencrypted' = Uses(e + 1) /\ Len(up') <= e + 1
      BY <1>1, <1>2, <2>3, <2>5 DEF Uses
    <3> QED  BY <1>1, <1>3, <2>3, <2>6, <3>1, <3>2 DEF UpInv, Uses, Encode
  <2>8. TakenInv'
    <3> SUFFICES ASSUME tchildOpen PROVE TakenInv'
      BY <1>1 DEF TakenInv
    <3>1. clientOpen
      BY DEF RInv, EndsSeen
    <3>2. /\ \A n \in 1..Taken : echoed[n] \notin {"^C", "^D"}
          /\ Len(fed) + Len(toShell) = Taken /\ \A n \in 1..Len(toShell) : toShell[n].fresh
      BY <3>1 DEF InInv, TakenInv
    <3>3. \A n \in 1..Taken : echoed'[n] = echoed[n]
      BY <1>1, <1>3, <2>6
    <3> QED  BY <1>1, <2>6, <3>2, <3>3 DEF TakenInv
  <2> QED  BY <1>4, <2>7, <2>8 DEF InInv
<1> QED  BY <1>6, <1>7

\* A step that takes nothing in, and opens nothing, keeps it.
LEMMA InInvFrame ==
  ASSUME InInv, UNCHANGED <<encrypt_flag, echoed, cencrypted, decrypted, fed, toShell>>,
         serverOpen' => serverOpen /\ up' = up,
         tchildOpen' => tchildOpen /\ up' = up,
         clientOpen' => clientOpen
  PROVE  InInv'
<1>1. FedInv'
  BY DEF InInv, FedInv, IsKey
<1>2. UpInv'
  BY DEF InInv, UpInv, Taken, Uses, Encode
<1>3. TakenInv'
  BY DEF InInv, TakenInv, Taken
<1> QED  BY <1>1, <1>2, <1>3 DEF InInv

\* The client only adds keys to what was typed.
LEMMA ClientKeepsInInv == RInv /\ InInv /\ (Client \/ User) => InInv'
<1> SUFFICES ASSUME RInv, InInv, Client \/ User PROVE InInv'
  OBVIOUS
<1>1. UNCHANGED <<encrypt_flag, decrypted, fed, toShell, tchildOpen>>
  BY DEF Client, User, serverVars, loop, child
<1>2. ASSUME UNCHANGED <<echoed, cencrypted, up, serverOpen>>, clientOpen' => clientOpen
      PROVE  InInv'
  BY <1>1, <1>2, InInvFrame
<1>3. CASE ClientPoll  BY <1>2, <1>3 DEF ClientPoll, wires
<1>4. CASE SendKey /\ UNCHANGED <<encrypt_flag, serverVars>> /\ cstatus = "running"
  BY <1>4, SendKeepsInInv
<1>5. CASE Receive
  <2>1. UNCHANGED <<echoed, cencrypted>>
    BY <1>5 DEF Receive
  <2>2. CASE ReceiveByte  BY <1>2, <2>1, <2>2 DEF ReceiveByte
  <2>3. CASE ReceiveEnd
    BY <1>2, <2>1, <2>3 DEF ReceiveEnd, ClientExit, CloseClient, wires
  <2> QED  BY <1>5, <2>2, <2>3 DEF Receive
<1>6. CASE ClientHangUp  BY <1>2, <1>6 DEF ClientHangUp, ClientExit, CloseClient
<1>7. CASE User  BY <1>2, <1>7 DEF User, Type, wires
<1> QED  BY <1>3, <1>4, <1>5, <1>6, <1>7 DEF Client, ClientStep

\* A byte of the connection is decrypted to the next key.
LEMMA ReadIsNextKey ==
  ASSUME RInv, InInv, serverOpen, up # <<>>, NEW c, ServerReads(c)
  PROVE  /\ Taken \in Nat /\ Taken + 1 <= Len(echoed)
         /\ c = echoed[Taken + 1] /\ c \in Keys
         /\ decrypted' = Uses(Taken + 1)
<1>1. /\ up \in Seq(Bytes) /\ echoed \in Seq(Keys)
      /\ Len(up) \in Nat \ {0} /\ Len(echoed) \in Nat
  BY DEF RInv, Traffic, InInv, FedInv
<1>2. /\ Len(up) <= Len(echoed) /\ decrypted = Uses(Taken)
      /\ \A n \in 1..Len(up) : up[n] = Encode(echoed[Taken + n], Taken + n)
  BY DEF InInv, UpInv
<1>3. Taken \in Nat /\ Taken + 1 <= Len(echoed)
  BY <1>1, <1>2 DEF Taken
<1>4. Head(up) = Encode(echoed[Taken + 1], Taken + 1)
  BY <1>1, <1>2
<1>5. Decode(Head(up), decrypted + 1) = {echoed[Taken + 1]}
  BY <1>2, <1>4 DEF Decode, Encode, Plain, Uses
<1>6. c = echoed[Taken + 1]
  BY <1>5 DEF ServerReads, Fresh
<1>7. decrypted' = Uses(Taken + 1)
  BY <1>2 DEF ServerReads, Fresh, Uses
<1> QED  BY <1>1, <1>3, <1>6, <1>7

\* Taking a byte off the connection moves the bytes behind it up.
LEMMA TakeKeepsUp ==
  ASSUME RInv, InInv, serverOpen, up # <<>>, NEW c, ServerReads(c), OnlyReads,
         UNCHANGED <<encrypt_flag, echoed, cencrypted>>
  PROVE  UpInv' /\ Taken' = Taken + 1
<1>1. /\ Taken \in Nat /\ Taken + 1 <= Len(echoed) /\ decrypted' = Uses(Taken + 1)
  BY ReadIsNextKey
<1>2. /\ up \in Seq(Bytes) /\ echoed \in Seq(Keys)
      /\ Len(up) \in Nat \ {0} /\ Len(echoed) \in Nat
      /\ up' = Tail(up)
  BY DEF RInv, Traffic, InInv, FedInv, OnlyReads, Unread, Fresh
<1>3. /\ Len(up') = Len(up) - 1
      /\ \A n \in 1..Len(up') : n + 1 \in 1..Len(up) /\ up'[n] = up[n + 1]
  BY <1>2
<1>4. Taken' = Taken + 1
  BY <1>2, <1>3 DEF Taken
<1>5. ASSUME NEW n \in 1..Len(up')
      PROVE  up'[n] = Encode(echoed[Taken + 1 + n], Taken + 1 + n)
  <2>1. up[n + 1] = Encode(echoed[Taken + (n + 1)], Taken + (n + 1))
    BY <1>3 DEF InInv, UpInv
  <2>2. Taken + (n + 1) = Taken + 1 + n
    BY <1>1
  <2> QED  BY <1>3, <2>1, <2>2
<1>6. cencrypted = Uses(Len(echoed)) /\ Len(up') <= Len(echoed)
  BY <1>2, <1>3 DEF InInv, UpInv
<1> QED  BY <1>1, <1>4, <1>5, <1>6 DEF UpInv, Uses, Encode

\* A key is relayed to the shell behind those of its pipe.
LEMMA RelayKeepsInInv ==
  ASSUME RInv, InInv, NEW c \in Chars \cup {Other}, c \notin {"^C", "^D"}, ServerReads(c),
         tchildOpen, toShell' = Append(toShell, [char |-> c, fresh |-> Fresh]), OnlyReads,
         UNCHANGED <<encrypt_flag, echoed, cencrypted, fed, tchildOpen>>
  PROVE  InInv'
<1>1. /\ serverOpen /\ toShell \in Seq(ShellBytes) /\ echoed \in Seq(Keys) /\ fed \in Seq(Keys)
      /\ Len(toShell) \in Nat /\ Len(fed) \in Nat
  BY DEF RInv, Traffic, EndsSeen, InInv, FedInv
<1>2. /\ Len(toShell') = Len(toShell) + 1
      /\ \A n \in 1..Len(toShell) : toShell'[n] = toShell[n]
      /\ toShell'[Len(toShell) + 1] = [char |-> c, fresh |-> Fresh]
  <2>1. [char |-> c, fresh |-> Fresh] \in ShellBytes
    BY ShellByteType
  <2> QED  BY <1>1, <2>1
<1>3. serverOpen' = serverOpen /\ clientOpen' = clientOpen
  BY DEF OnlyReads
<1>4. CASE Fresh
  <2>1. up # <<>>
    BY <1>4 DEF Fresh
  <2>2. /\ Taken \in Nat /\ Taken + 1 <= Len(echoed)
        /\ c = echoed[Taken + 1] /\ c \in Keys
    BY <1>1, <2>1, ReadIsNextKey
  <2>3. UpInv' /\ Taken' = Taken + 1
    BY <1>1, <2>1, TakeKeepsUp
  <2>4. /\ \A n \in 1..Taken : echoed[n] \notin {"^C", "^D"}
        /\ Len(fed) + Len(toShell) = Taken
        /\ \A n \in 1..Len(toShell) : toShell[n].fresh
    BY <2>1 DEF InInv, TakenInv
  <2>5. \A n \in 1..Len(toShell') : toShell'[n].fresh
    BY <1>1, <1>2, <1>4, <2>4
  <2>6. TakenInv'
    <3>1. \A n \in 1..Taken + 1 : echoed[n] \notin {"^C", "^D"}
      BY <2>2, <2>4
    <3>2. Len(fed) + Len(toShell') = Taken + 1
      BY <1>1, <1>2, <2>4
    <3> QED  BY <2>3, <2>5, <3>1, <3>2 DEF TakenInv
  <2>7. ASSUME NEW n \in 1..Len(toShell')
        PROVE  IsKey(toShell'[n].char, Len(fed) + n)
    <3>1. CASE n \in 1..Len(toShell)
      BY <1>2, <2>4, <3>1 DEF InInv, FedInv
    <3>2. CASE n = Len(toShell) + 1
      <4>1. Len(fed) + n = Taken + 1
        BY <1>1, <2>4, <3>2
      <4> QED  BY <1>2, <2>2, <3>2, <4>1 DEF IsKey
    <3> QED  BY <1>1, <1>2, <3>1, <3>2
  <2>8. FedInv'
    BY <2>5, <2>7 DEF InInv, FedInv, IsKey
  <2> QED  BY <2>3, <2>6, <2>8 DEF InInv
<1>5. CASE ~Fresh
  <2>1. up = <<>> /\ up' = <<>> /\ decrypted' = decrypted
    BY <1>5 DEF Fresh, OnlyReads, Unread, ServerReads
  <2>2. ~clientOpen
    BY <1>1, <2>1 DEF RInv, EndsSeen, ServerReads
  <2>3. FedInv'
    <3>1. ASSUME NEW n \in 1..Len(toShell'), toShell'[n].fresh
          PROVE  n \in 1..Len(toShell) /\ toShell'[n] = toShell[n]
      BY <1>1, <1>2, <1>5, <3>1
    <3>2. ASSUME NEW n \in 1..Len(toShell), toShell[n].fresh
          PROVE  /\ IsKey(toShell[n].char, Len(fed) + n)
                 /\ \A m \in 1..n : toShell'[m].fresh
      <4>1. IsKey(toShell[n].char, Len(fed) + n) /\ \A m \in 1..n : toShell[m].fresh
        BY <3>2 DEF InInv, FedInv
      <4>2. \A m \in 1..n : toShell'[m] = toShell[m]
        BY <1>1, <1>2
      <4> QED  BY <4>1, <4>2
    <3> QED  BY <3>1, <3>2 DEF InInv, FedInv, IsKey
  <2>4. UpInv'
    BY <1>3, <2>1 DEF InInv, UpInv, Taken, Uses, Encode
  <2>5. TakenInv'
    BY <1>3, <2>1, <2>2 DEF InInv, TakenInv, Taken
  <2> QED  BY <2>3, <2>4, <2>5 DEF InInv
<1> QED  BY <1>4, <1>5

\* Taking a byte closes the pipe to the shell, or is the end of what is relayed.
LEMMA TakenUnrelayed ==
  ASSUME RInv, InInv, NEW c, ServerReads(c), OnlyReads, ~tchildOpen',
         UNCHANGED <<encrypt_flag, echoed, cencrypted, fed, toShell>>
  PROVE  InInv'
<1>1. FedInv'
  BY DEF InInv, FedInv, IsKey
<1>2. UpInv'
  <2>1. CASE ~serverOpen
    BY <2>1 DEF OnlyReads, UpInv
  <2>2. CASE serverOpen /\ up # <<>>
    BY <2>2, TakeKeepsUp
  <2>3. CASE up = <<>>
    <3>1. up' = <<>> /\ decrypted' = decrypted /\ serverOpen' = serverOpen
      BY <2>3 DEF OnlyReads, Unread, Fresh, ServerReads
    <3> QED  BY <2>3, <3>1 DEF InInv, UpInv, Taken, Uses, Encode
  <2> QED  BY <2>1, <2>2, <2>3
<1> QED  BY <1>1, <1>2 DEF InInv, TakenInv

\* Nothing passes a closed server.
LEMMA ClosedKeepsInInv ==
  ASSUME InInv, ~serverOpen', ~tchildOpen', UNCHANGED <<echoed, fed, toShell>>
  PROVE  InInv'
  BY DEF InInv, FedInv, IsKey, UpInv, TakenInv

\* The server takes keys from the connection only to pass them to the pipe, or to
\* end what it relays.
LEMMA ServerKeepsInInv == RInv /\ InInv /\ Server => InInv'
<1> SUFFICES ASSUME RInv, InInv, Server PROVE InInv'
  OBVIOUS
<1>1. UNCHANGED <<encrypt_flag, echoed, cencrypted>>
  BY DEF Server, clientVars
<1>2. UNCHANGED fed
  BY DEF Server, ServerStep, Wait, ServerPoll, FromConnection, ServerCtrlC,
         ServerCtrlD, RelayToShell, ToConnection, ToClosedConnection,
         ServerHangUp, child
<1>3. CASE Wait  BY <1>1, <1>2, <1>3, InInvFrame DEF Wait, wires
<1>4. CASE ServerPoll  BY <1>1, <1>2, <1>4, InInvFrame DEF ServerPoll, wires
<1>5. CASE FromConnection
  <2>1. CASE ServerCtrlC
    BY <1>1, <1>2, <2>1, ClosedKeepsInInv DEF ServerCtrlC, ExitCode, CloseServer
  <2>2. CASE ServerCtrlD
    BY <1>1, <1>2, <2>2, TakenUnrelayed DEF ServerCtrlD
  <2>3. ASSUME NEW c \in Chars \cup {Other}, RelayToShell(c) PROVE InInv'
    <3>1. ServerReads(c) /\ c \notin {"^C", "^D"}
      BY <2>3 DEF RelayToShell
    <3>2. CASE /\ tchildOpen
               /\ toShell' = Append(toShell, [char |-> c, fresh |-> Fresh])
               /\ OnlyReads
               /\ UNCHANGED <<scaller, tchildOpen>>
      BY <1>1, <1>2, <3>1, <3>2, RelayKeepsInInv
    <3>3. CASE ExitCode("SIGPIPE", Unread) /\ UNCHANGED toShell
      BY <1>1, <1>2, <3>3, ClosedKeepsInInv DEF ExitCode, CloseServer
    <3>4. CASE ~tchildOpen /\ OnlyReads /\ UNCHANGED <<scaller, tchildOpen, toShell>>
      BY <1>1, <1>2, <3>1, <3>4, TakenUnrelayed
    <3> QED  BY <2>3, <3>2, <3>3, <3>4 DEF RelayToShell
  <2> QED  BY <1>5, <2>1, <2>2, <2>3 DEF FromConnection
<1>6. CASE ToConnection
  <2>1. UNCHANGED <<toShell, decrypted>>
    BY <1>6 DEF ToConnection
  <2>2. CASE UNCHANGED <<up, clientOpen, serverOpen, clientReset, scaller, tchildOpen>>
    BY <1>1, <1>2, <2>1, <2>2, InInvFrame
  <2>3. CASE ExitCode("SIGPIPE", up)
    BY <1>1, <1>2, <2>1, <2>3, ClosedKeepsInInv DEF ExitCode, CloseServer
  <2> QED  BY <1>6, <2>2, <2>3 DEF ToConnection
<1>7. CASE ToClosedConnection
  BY <1>1, <1>2, <1>7, InInvFrame DEF ToClosedConnection, wires
<1>8. CASE ServerHangUp
  BY <1>1, <1>2, <1>8, ClosedKeepsInInv DEF ServerHangUp, ExitCode, CloseServer
<1> QED
  BY <1>3, <1>4, <1>5, <1>6, <1>7, <1>8 DEF Server, ServerStep

\* The shell reads the next key of its pipe, or an old byte with only old ones
\* behind it.
LEMMA ShellKeepsInInv == RInv /\ InInv /\ Shell => InInv'
<1> SUFFICES ASSUME RInv, InInv, Shell PROVE InInv'
  OBVIOUS
<1>1. UNCHANGED <<encrypt_flag, echoed, cencrypted, decrypted, tchildOpen, up, clientOpen, serverOpen>>
  BY DEF Shell, ShellStep, clientVars, loop, wires
<1>2. CASE UNCHANGED <<fed, toShell>>
  BY <1>1, <1>2, InInvFrame
<1>3. CASE ShellRead
  <2>1. /\ toShell \in Seq(ShellBytes) /\ toShell # <<>> /\ toShell' = Tail(toShell)
        /\ fed \in Seq(Keys) /\ echoed \in Seq(Keys)
    BY <1>3 DEF ShellRead, RInv, Traffic, InInv, FedInv
  <2>2. /\ Len(toShell') = Len(toShell) - 1 /\ Len(toShell) \in Nat \ {0} /\ Len(fed) \in Nat
        /\ \A n \in 1..Len(toShell') : n + 1 \in 1..Len(toShell) /\ toShell'[n] = toShell[n + 1]
        /\ 1 \in 1..Len(toShell) /\ Head(toShell) = toShell[1]
    BY <2>1
  <2>3. UpInv'
    BY <1>1 DEF InInv, UpInv, Taken, Uses, Encode
  <2>4. CASE toShell[1].fresh
    <3>1. fed' = Append(fed, toShell[1].char)
      BY <1>3, <2>2, <2>4 DEF ShellRead
    <3>2. IsKey(toShell[1].char, Len(fed) + 1)
      BY <2>2, <2>4 DEF InInv, FedInv
    <3>3. toShell[1].char \in Keys
      BY <2>1, <2>2, <3>2 DEF IsKey
    <3>4. /\ fed' \in Seq(Keys) /\ Len(fed') = Len(fed) + 1
          /\ \A n \in 1..Len(fed) : fed'[n] = fed[n]
          /\ fed'[Len(fed) + 1] = toShell[1].char
      BY <2>1, <3>1, <3>3
    <3>5. ASSUME NEW n \in 1..Len(fed') PROVE IsKey(fed'[n], n)
      <4>1. CASE n \in 1..Len(fed)
        BY <3>4, <4>1 DEF InInv, FedInv
      <4>2. CASE n = Len(fed) + 1
        BY <3>2, <3>4, <4>2
      <4> QED  BY <2>2, <3>4, <4>1, <4>2
    <3>6. ASSUME NEW n \in 1..Len(toShell'), toShell'[n].fresh
          PROVE  /\ IsKey(toShell'[n].char, Len(fed') + n)
                 /\ \A m \in 1..n : toShell'[m].fresh
      <4>1. /\ IsKey(toShell[n + 1].char, Len(fed) + (n + 1))
            /\ \A m \in 1..n + 1 : toShell[m].fresh
        BY <2>2, <3>6 DEF InInv, FedInv
      <4>2. Len(fed) + (n + 1) = Len(fed') + n
        BY <2>2, <3>4
      <4>3. \A m \in 1..n : m + 1 \in 1..n + 1 /\ toShell'[m] = toShell[m + 1]
        BY <2>2
      <4> QED  BY <2>2, <4>1, <4>2, <4>3
    <3>7. FedInv'
      BY <1>1, <2>1, <3>4, <3>5, <3>6 DEF FedInv, IsKey
    <3>8. TakenInv'
      <4>1. Len(fed') + Len(toShell') = Len(fed) + Len(toShell)
        BY <2>2, <3>4
      <4>2. ASSUME \A n \in 1..Len(toShell) : toShell[n].fresh
            PROVE  \A n \in 1..Len(toShell') : toShell'[n].fresh
        BY <2>2, <4>2
      <4> QED  BY <1>1, <4>1, <4>2 DEF InInv, TakenInv, Taken
    <3> QED  BY <2>3, <3>7, <3>8 DEF InInv
  <2>5. CASE ~toShell[1].fresh
    <3>1. fed' = fed
      BY <1>3, <2>2, <2>5 DEF ShellRead
    <3>2. \A n \in 1..Len(toShell') : ~toShell'[n].fresh
      <4> SUFFICES ASSUME NEW n \in 1..Len(toShell'), toShell'[n].fresh PROVE FALSE
        OBVIOUS
      <4>1. \A m \in 1..n + 1 : toShell[m].fresh
        BY <2>2 DEF InInv, FedInv
      <4> QED  BY <2>5, <4>1
    <3>3. FedInv'
      BY <1>1, <2>1, <3>1, <3>2 DEF InInv, FedInv, IsKey
    <3>4. TakenInv'
      BY <1>1, <2>2, <2>5 DEF InInv, TakenInv, Taken
    <3> QED  BY <2>3, <3>3, <3>4 DEF InInv
  <2> QED  BY <2>4, <2>5
<1> QED
  BY <1>2, <1>3 DEF Shell, ShellStep, ShellWrite, ShellExit, ShellSignaled

\* Every step keeps what is on the way to the shell in order.
LEMMA NextInInv == RInv /\ InInv /\ [Next]_vars => InInv'
<1> SUFFICES ASSUME RInv, InInv, [Next]_vars PROVE InInv'
  OBVIOUS
<1>1. CASE Client \/ User  BY <1>1, ClientKeepsInInv
<1>2. CASE Server  BY <1>2, ServerKeepsInInv
<1>3. CASE Shell  BY <1>3, ShellKeepsInInv
<1>4. CASE Interrupt /\ UNCHANGED <<encrypt_flag, clientVars>>
  BY <1>4, ClosedKeepsInInv DEF Interrupt, ExitCode, CloseServer, clientVars, child
<1>5. CASE KillClient /\ UNCHANGED <<encrypt_flag, serverVars>>
  BY <1>5, InInvFrame DEF KillClient, CloseClient, serverVars, loop, child
<1>6. CASE UNCHANGED vars
  BY <1>6, InInvFrame DEF vars, wires, clientVars, serverVars, loop, child
<1> QED
  BY <1>1, <1>2, <1>3, <1>4, <1>5, <1>6 DEF Next, Signal, Terminated

\* lab1b-client.c:194-230, lab1b-server.c:107-129: with and without encryption the
\* shell gets the keys up to ^C or ^D in order, whatever goes the other way and
\* however either process ends.
THEOREM RelayFedIsTyped == Spec => []FedIsTyped
<1>1. RInv /\ InInv => FedIsTyped
  <2> SUFFICES ASSUME RInv, InInv PROVE FedIsTyped
    OBVIOUS
  <2>1. DOMAIN fed = 1..Len(fed) /\ DOMAIN toShell = 1..Len(toShell)
    BY DEF RInv, Traffic, InInv, FedInv
  <2> QED  BY <2>1 DEF InInv, FedInv, IsKey, FedIsTyped
<1>2. Init => RInv /\ InInv  BY InitRInv, InitInInv
<1>3. RInv /\ InInv /\ [Next]_vars => (RInv /\ InInv)'  BY NextRInv, NextInInv
<1> QED  BY <1>1, <1>2, <1>3, PTL DEF Spec

-----------------------------------------------------------------------------
(* The lines in the log are what was received.                               *)

\* Byte c belongs into the log.
Counts(c) == encrypt_flag \/ c # "NL"

\* What is shown has its place in the log, and what came since the last flush is
\* kept for it as it came.
LogInv == /\ cbuffer \in Bytes /\ logged \in Seq(Bytes) /\ logBuffer \in Seq(Bytes)
          /\ ~shownAgain =>
               /\ Len(logged) + Len(logBuffer) = Place(shown, Len(shown))
               /\ \A m \in 1..Len(shown) :
                    Counts(shown[m]) /\ Place(shown, m) > Len(logged) =>
                      logBuffer[Place(shown, m) - Len(logged)] = Encode(shown[m], m)

\* Places count up with the bytes that belong into the log.
LEMMA PlaceCounts ==
  ASSUME NEW s, NEW n \in Nat
  PROVE  /\ Place(s, 0) = 0
         /\ Place(s, n) \in Nat
         /\ Place(s, n + 1) = Place(s, n) + (IF Counts(s[n + 1]) THEN 1 ELSE 0)
         /\ \A m \in 0..n : Place(s, m) \in Nat /\ Place(s, m) <= Place(s, n)
<1> DEFINE S(m) == {k \in 1..m : encrypt_flag \/ s[k] # "NL"}
<1>1. \A m : Place(s, m) = Cardinality(S(m))
  BY DEF Place
<1>2. S(0) = {}
  OBVIOUS
<1>3. ASSUME NEW m \in Nat PROVE IsFiniteSet(S(m)) /\ Cardinality(S(m)) \in Nat
  <2>1. IsFiniteSet(1..m)  BY FS_Interval
  <2>2. S(m) \subseteq 1..m  OBVIOUS
  <2> QED  BY <2>1, <2>2, FS_Subset, FS_CardinalityType
<1>4. ASSUME NEW m \in 0..n PROVE Cardinality(S(m)) <= Cardinality(S(n))
  <2>1. S(m) \subseteq S(n)  OBVIOUS
  <2>2. IsFiniteSet(S(n))  BY <1>3
  <2> QED  BY <2>1, <2>2, FS_Subset
<1>5. Cardinality(S(n + 1)) = Cardinality(S(n)) + (IF Counts(s[n + 1]) THEN 1 ELSE 0)
  <2>1. CASE Counts(s[n + 1])
    <3>1. S(n + 1) = S(n) \cup {n + 1}  BY <2>1 DEF Counts
    <3>2. n + 1 \notin S(n)  OBVIOUS
    <3>3. IsFiniteSet(S(n)) /\ Cardinality(S(n)) \in Nat  BY <1>3
    <3>4. Cardinality(S(n) \cup {n + 1}) = Cardinality(S(n)) + 1
      BY <3>2, <3>3, FS_AddElement
    <3> QED  BY <2>1, <3>1, <3>4
  <2>2. CASE ~Counts(s[n + 1])
    <3>1. S(n + 1) = S(n)  BY <2>2 DEF Counts
    <3>2. Cardinality(S(n)) \in Nat  BY <1>3
    <3> QED  BY <2>2, <3>1, <3>2
  <2> QED  BY <2>1, <2>2
<1>6. Place(s, 0) = 0
  BY <1>1, <1>2, FS_EmptySet
<1> HIDE DEF S
<1>7. \A m \in 0..n : m \in Nat
  OBVIOUS
<1> QED  BY <1>1, <1>3, <1>4, <1>5, <1>6, <1>7

\* A byte more changes no place before it.
LEMMA PlaceOfPrefix ==
  ASSUME NEW s, NEW t, NEW m \in Nat, \A k \in 1..m : s[k] = t[k]
  PROVE  Place(s, m) = Place(t, m)
<1>1. {k \in 1..m : encrypt_flag \/ s[k] # "NL"} = {k \in 1..m : encrypt_flag \/ t[k] # "NL"}
  OBVIOUS
<1> QED  BY <1>1 DEF Place

\* Initially nothing was received.
LEMMA InitLogInv == Init => LogInv
<1> SUFFICES ASSUME Init PROVE LogInv
  OBVIOUS
<1>1. shown = <<>> /\ logged = <<>> /\ logBuffer = <<>> /\ cbuffer = Plain(Other)
  BY DEF Init, ClientInit
<1>2. cbuffer \in Bytes
  BY <1>1 DEF Plain, Bytes
<1>3. Place(shown, 0) = 0
  BY PlaceCounts
<1> QED  BY <1>1, <1>2, <1>3 DEF LogInv

\* The type, the length and the second part of a concatenation.
LEMMA ConcatType ==
  ASSUME NEW S, NEW s \in Seq(S), NEW t \in Seq(S)
  PROVE  /\ s \o t \in Seq(S) /\ Len(s \o t) = Len(s) + Len(t)
         /\ \A n \in 1..Len(t) : (s \o t)[Len(s) + n] = t[n]
<1>1. s \o t \in Seq(S)  OBVIOUS
<1>2. Len(s \o t) = Len(s) + Len(t)  OBVIOUS
<1>3. ASSUME NEW n \in 1..Len(t) PROVE (s \o t)[Len(s) + n] = t[n]
  <2>1. Len(s) + n \in 1..Len(s) + Len(t) /\ Len(s) + n > Len(s)  OBVIOUS
  <2> QED  BY <2>1
<1> QED  BY <1>1, <1>2, <1>3

\* A flush leaves no place free, whatever it writes.
LEMMA FlushKeepsLogInv ==
  ASSUME OutInv, LogInv, Flush, UNCHANGED <<encrypt_flag, shown>>, cbuffer' \in Bytes,
         shownAgain => shownAgain'
  PROVE  LogInv'
<1> DEFINE written == [n \in DOMAIN logBuffer |-> IF n = 1 THEN cbuffer ELSE Plain(Other)]
           l == Len(shown)
<1>1. /\ logged \in Seq(Bytes) /\ logBuffer \in Seq(Bytes) /\ cbuffer \in Bytes
      /\ Plain(Other) \in Bytes /\ l \in Nat
  BY DEF OutInv, ShownInv, LogInv, Plain, Bytes
<1>2. logged' = logged \o written /\ logBuffer' = <<>>
  BY DEF Flush
<1>3. written \in Seq(Bytes) /\ Len(written) = Len(logBuffer)
  BY <1>1
<1> HIDE DEF written
<1>4. /\ logged' \in Seq(Bytes) /\ Len(logged') = Len(logged) + Len(logBuffer)
      /\ logBuffer' \in Seq(Bytes) /\ Len(logBuffer') = 0
      /\ Len(logged) \in Nat /\ Len(logBuffer) \in Nat
  <2>1. /\ logged \o written \in Seq(Bytes)
        /\ Len(logged \o written) = Len(logged) + Len(written)
    BY <1>1, <1>3, ConcatType
  <2> QED  BY <1>1, <1>2, <1>3, <2>1
<1>5. /\ \A m : Place(shown, m)' = Place(shown, m)
      /\ \A m \in 1..l : Place(shown, m) \in Nat /\ Place(shown, m) <= Place(shown, l)
  <2>1. \A m \in 0..l : Place(shown, m) \in Nat /\ Place(shown, m) <= Place(shown, l)
    BY <1>1, PlaceCounts
  <2>2. \A m : Place(shown, m)' = Place(shown, m)
    BY DEF Place
  <2> QED  BY <1>1, <2>1, <2>2
<1>6. ~shownAgain' => Len(logged') = Place(shown, l)
  BY <1>4 DEF LogInv
<1> HIDE DEF l
<1>7. ~shownAgain' => \A m \in 1..l : ~(Place(shown, m) > Len(logged'))
  BY <1>4, <1>5, <1>6
<1> QED  BY <1>4, <1>5, <1>6, <1>7 DEF LogInv, l

\* The whole line is in the log.
LineIsLogged ==
  Last(shown') = "NL" =>
    /\ Len(logged') = Place(shown', Len(shown'))
    /\ \A m \in DOMAIN shown' :
         LET k == Place(shown', m)
         IN  k > Len(logged) /\ (encrypt_flag \/ shown'[m] # "NL")
               => logged'[k] = Encode(shown'[m], m)

\* A byte that arrives is kept for the log as it came, at its place, and the end
\* of a line writes what was kept.
LEMMA ReceiveKeepsLogInv ==
  ASSUME RInv, OutInv, LogInv, ReceiveByte, UNCHANGED encrypt_flag, cstatus = "running"
  PROVE  LogInv' /\ (~shownAgain => LineIsLogged)
<1> DEFINE l == Len(shown)
           c == Outputs[l + 1]
<1>1. /\ down # <<>> /\ down \in Seq(Bytes) /\ UNCHANGED shownAgain
      /\ logged \in Seq(Bytes) /\ logBuffer \in Seq(Bytes)
      /\ Len(logged) \in Nat /\ Len(logBuffer) \in Nat
      /\ shown \in Seq(Replies) /\ l \in Nat
  BY DEF ReceiveByte, RInv, Traffic, OutInv, ShownInv, LogInv
<1>2. /\ cdecrypted = Uses(l) /\ l + Len(down) <= Len(Outputs)
      /\ Head(down) = Encode(c, l + 1)
  BY <1>1 DEF OutInv, DownInv
<1>3. c \in Replies /\ Head(down) \in Bytes
  BY <1>1, <1>2, ServerAssumption
<1>4. Decode(Head(down), cdecrypted + 1) = {c}
  BY <1>1, <1>2 DEF Decode, Encode, Plain, Uses
<1>5. cbuffer' = Plain(c) /\ shown' = Append(shown, c) /\ Log(c)
  BY <1>4 DEF ReceiveByte
<1>6. cbuffer' \in Bytes
  BY <1>3, <1>5 DEF Plain, Bytes, Chars
<1> HIDE DEF c
<1> DEFINE kept == IF Counts(c) THEN Append(logBuffer, Head(down)) ELSE logBuffer
           more == IF Counts(c) THEN 1 ELSE 0
           g == Len(logged)
           b == Len(logBuffer)
<1>7. /\ shown' \in Seq(Replies) /\ Len(shown') = l + 1 /\ shown'[l + 1] = c
      /\ \A n \in 1..l : shown'[n] = shown[n]
      /\ Last(shown') = c
  BY <1>1, <1>3, <1>5 DEF Last
<1>8. /\ kept \in Seq(Bytes) /\ Len(kept) = b + more /\ more \in 0..1
      /\ \A n \in 1..b : kept[n] = logBuffer[n]
      /\ Counts(c) => kept[b + 1] = Head(down)
  BY <1>1, <1>3
<1>9. IF c = "NL" THEN logged' = logged \o kept /\ logBuffer' = <<>>
                  ELSE logBuffer' = kept /\ logged' = logged
  BY <1>5 DEF Log, Counts
<1> HIDE DEF kept, more
\* The places of what is shown now.
<1>10. /\ \A m \in 1..l : Place(shown', m) = Place(shown, m)
       /\ Place(shown', l + 1) = Place(shown, l) + more
       /\ Place(shown, l) \in Nat
       /\ \A m \in 1..l : Place(shown, m) \in Nat /\ Place(shown, m) <= Place(shown, l)
       /\ \A m \in 1..l + 1 : /\ Place(shown', m) \in Nat
                              /\ Place(shown', m) <= Place(shown', l + 1)
  <2> HIDE DEF l
  <2>1. ASSUME NEW m \in 0..l PROVE Place(shown', m) = Place(shown, m)
    <3>1. m \in Nat /\ \A k \in 1..m : shown'[k] = shown[k]
      BY <1>1, <1>7, <2>1
    <3> QED  BY <3>1, PlaceOfPrefix
  <2>2. Place(shown', l + 1) = Place(shown', l) + (IF Counts(shown'[l + 1]) THEN 1 ELSE 0)
    BY <1>1, PlaceCounts
  <2>3. \A m \in 0..l : Place(shown, m) \in Nat /\ Place(shown, m) <= Place(shown, l)
    BY <1>1, PlaceCounts
  <2>4. l + 1 \in Nat
    BY <1>1
  <2>5. \A m \in 0..l + 1 : /\ Place(shown', m) \in Nat
                            /\ Place(shown', m) <= Place(shown', l + 1)
    BY <2>4, PlaceCounts
  <2> QED  BY <1>1, <1>7, <2>1, <2>2, <2>3, <2>5 DEF more
\* What is kept has its place.
<1>11. ASSUME ~shownAgain
       PROVE  /\ g + Len(kept) = Place(shown', l + 1)
              /\ \A m \in 1..l + 1 :
                   Counts(shown'[m]) /\ Place(shown', m) > g =>
                     /\ Place(shown', m) - g \in 1..Len(kept)
                     /\ kept[Place(shown', m) - g] = Encode(shown'[m], m)
  <2>1. g + b = Place(shown, l)
    BY <1>11 DEF LogInv
  <2>2. g + Len(kept) = Place(shown', l + 1)
    BY <1>1, <1>8, <1>10, <2>1
  <2>3. ASSUME NEW m \in 1..l + 1, Counts(shown'[m]), Place(shown', m) > g
        PROVE  /\ Place(shown', m) - g \in 1..Len(kept)
               /\ kept[Place(shown', m) - g] = Encode(shown'[m], m)
    <3>1. CASE m \in 1..l
      <4>1. /\ Place(shown', m) = Place(shown, m) /\ shown'[m] = shown[m]
            /\ Place(shown, m) \in Nat /\ Place(shown, m) <= g + b
        BY <1>7, <1>10, <2>1, <3>1
      <4>2. logBuffer[Place(shown, m) - g] = Encode(shown[m], m)
        BY <1>11, <2>3, <3>1, <4>1 DEF LogInv
      <4>3. Place(shown, m) - g \in 1..b
        BY <1>1, <2>3, <4>1
      <4> QED  BY <1>1, <1>8, <4>1, <4>2, <4>3
    <3>2. CASE m = l + 1
      <4>1. more = 1 /\ Counts(c)
        BY <1>7, <2>3, <3>2 DEF more
      <4>2. Place(shown', m) - g = b + 1
        BY <1>1, <1>10, <2>1, <3>2, <4>1
      <4>3. kept[b + 1] = Encode(c, l + 1)
        BY <1>2, <1>8, <4>1
      <4> QED  BY <1>1, <1>7, <1>8, <3>2, <4>1, <4>2, <4>3
    <3> QED  BY <1>1, <2>3, <3>1, <3>2
  <2> QED  BY <2>2, <2>3
<1>12. /\ \A m : Place(shown, m)' = Place(shown', m)
       /\ \A k : Counts(k)' = Counts(k)
       /\ \A k, m : Encode(k, m)' = Encode(k, m)
  BY DEF Place, Counts, Encode
<1>13. CASE c = "NL"
  <2>1. /\ logged' \in Seq(Bytes) /\ Len(logged') = g + Len(kept)
        /\ \A n \in 1..Len(kept) : logged'[g + n] = kept[n]
        /\ logBuffer' \in Seq(Bytes) /\ Len(logBuffer') = 0
    <3>1. /\ logged \o kept \in Seq(Bytes) /\ Len(logged \o kept) = g + Len(kept)
          /\ \A n \in 1..Len(kept) : (logged \o kept)[g + n] = kept[n]
      <4>1. logged \in Seq(Bytes) /\ kept \in Seq(Bytes)
        BY <1>1, <1>8
      <4> QED  BY <4>1, ConcatType, Zenon
    <3>2. logged' = logged \o kept /\ logBuffer' = <<>>
      BY <1>9, <1>13
    <3>3. <<>> \in Seq(Bytes) /\ Len(<<>>) = 0
      OBVIOUS
    <3> QED  BY <3>1, <3>2, <3>3
  <2>2. ASSUME ~shownAgain PROVE LineIsLogged
    <3>1. Len(logged') = Place(shown', Len(shown'))
      BY <1>7, <1>11, <2>1, <2>2
    <3>2. ASSUME NEW m \in 1..l + 1, Place(shown', m) > g, Counts(shown'[m])
          PROVE  logged'[Place(shown', m)] = Encode(shown'[m], m)
      <4>1. /\ Place(shown', m) - g \in 1..Len(kept)
            /\ kept[Place(shown', m) - g] = Encode(shown'[m], m)
        BY <1>11, <2>2, <3>2
      <4>2. g + (Place(shown', m) - g) = Place(shown', m)
        BY <1>1, <1>10
      <4> QED  BY <2>1, <4>1, <4>2
    <3>3. DOMAIN shown' = 1..l + 1
      BY <1>7
    <3> QED  BY <3>1, <3>2, <3>3 DEF LineIsLogged, Counts
  <2>3. ASSUME ~shownAgain, NEW m \in 1..l + 1
        PROVE  ~(Place(shown', m) > Len(logged'))
    BY <1>8, <1>10, <1>11, <2>1, <2>3
  <2>4. LogInv'
    BY <1>1, <1>6, <1>7, <1>11, <1>12, <2>1, <2>3 DEF LogInv
  <2> QED  BY <2>2, <2>4
<1>14. CASE c # "NL"
  <2>1. LineIsLogged
    BY <1>7, <1>14 DEF LineIsLogged
  <2>2. logBuffer' = kept /\ logged' = logged
    BY <1>9, <1>14
  <2>3. LogInv'
    BY <1>1, <1>6, <1>7, <1>8, <1>11, <1>12, <2>2 DEF LogInv
  <2> QED  BY <2>1, <2>3
<1> QED  BY <1>13, <1>14

\* What leaves the log, the old byte and what was shown alone keeps the log.
LEMMA LogFrame ==
  ASSUME LogInv, UNCHANGED <<encrypt_flag, shown, cbuffer, logged, logBuffer, shownAgain>>
  PROVE  LogInv'
BY DEF LogInv, Place, Counts, Encode

\* The client's steps flush the log or receive a byte, or show an old byte again.
LEMMA ClientKeepsLogInv == RInv /\ OutInv /\ LogInv /\ (Client \/ User) => LogInv'
<1> SUFFICES ASSUME RInv, OutInv, LogInv, Client \/ User PROVE LogInv'
  OBVIOUS
<1>1. UNCHANGED encrypt_flag
  BY DEF Client, User
<1>2. CASE ClientPoll  BY <1>1, <1>2, LogFrame DEF ClientPoll
<1>3. CASE SendKey
  <2>1. Flush /\ UNCHANGED <<shown, shownAgain>>
    BY <1>3 DEF SendKey
  <2>2. cbuffer' = IF Head(input) = "NL" THEN Plain("NL")
                   ELSE Encode(Head(input), cencrypted + 1)
    BY <1>3, Zenon DEF SendKey
  <2>3. PICK k \in Chars : k = Head(input)
    <3>1. input # <<>> /\ input \in Seq(Keys)
      BY <1>3 DEF SendKey, RInv, Traffic
    <3> QED  BY <3>1 DEF Chars
  <2>4. Plain("NL") \in Bytes /\ Encode(k, cencrypted + 1) \in Bytes
    <3>1. cencrypted + 1 \in Nat
      BY DEF RInv, Traffic
    <3>2. Plain("NL") \in Bytes
      BY DEF Plain, Bytes, Chars, Keys
    <3> QED  BY <3>1, <3>2, EncodeType
  <2>5. cbuffer' \in Bytes
    BY <2>2, <2>3, <2>4
  <2> QED  BY <1>1, <2>1, <2>5, FlushKeepsLogInv
<1>4. CASE Receive /\ cstatus = "running"
  <2>1. CASE ReceiveByte /\ cstatus = "running"
    BY <1>1, <2>1, ReceiveKeepsLogInv
  <2>2. CASE ReceiveEnd
    <3>1. UNCHANGED shown /\ shownAgain'
      BY <2>2 DEF ReceiveEnd
    <3>2. PICK c \in DecodeAgain(cbuffer) :
            /\ cbuffer' = Plain(c)
            /\ Flush \/ UNCHANGED <<logBuffer, logged>>
      BY <2>2 DEF ReceiveEnd
    <3>3. c \in Chars \cup {Other}
      BY DEF LogInv, DecodeAgain, Garbage, Bytes, Chars, Keys
    <3>4. cbuffer' \in Bytes
      BY <3>2, <3>3 DEF Plain, Bytes
    <3>5. CASE Flush
      BY <1>1, <3>1, <3>4, <3>5, FlushKeepsLogInv
    <3>6. CASE UNCHANGED <<logBuffer, logged>>
      BY <3>1, <3>4, <3>6 DEF LogInv
    <3> QED  BY <3>2, <3>5, <3>6
  <2> QED  BY <1>4, <2>1, <2>2 DEF Receive
<1>5. CASE ClientHangUp
  <2>1. Flush /\ UNCHANGED <<shown, shownAgain, cbuffer>>
    BY <1>5 DEF ClientHangUp
  <2>2. cbuffer' \in Bytes
    BY <2>1 DEF LogInv
  <2> QED  BY <1>1, <2>1, <2>2, FlushKeepsLogInv
<1>6. CASE User  BY <1>1, <1>6, LogFrame DEF User, Type
<1> QED  BY <1>2, <1>3, <1>4, <1>5, <1>6 DEF Client, ClientStep

\* Only the client touches the log.
LEMMA NextLogInv == RInv /\ OutInv /\ LogInv /\ [Next]_vars => LogInv'
<1> SUFFICES ASSUME RInv, OutInv, LogInv, [Next]_vars PROVE LogInv'
  OBVIOUS
<1>1. CASE Client \/ User  BY <1>1, ClientKeepsLogInv
<1>2. CASE UNCHANGED <<encrypt_flag, clientVars>>
  BY <1>2, LogFrame DEF clientVars
<1>3. CASE KillClient /\ UNCHANGED <<encrypt_flag, serverVars>>
  BY <1>3, LogFrame DEF KillClient
<1>4. CASE UNCHANGED vars  BY <1>4, LogFrame DEF vars, clientVars
<1> QED
  BY <1>1, <1>2, <1>3, <1>4 DEF Next, Signal, Terminated, Server, Shell

\* Only a byte that arrives is shown, and only then can a line be complete.
LEMMA NextLogsLines ==
  ASSUME RInv, OutInv, LogInv, [Next]_vars, ~shownAgain, Len(shown') > Len(shown)
  PROVE  LineIsLogged
<1>1. shown' # shown
  BY DEF OutInv, ShownInv
<1>2. Client
  BY <1>1 DEF Next, Signal, Terminated, Server, Shell, User, Type, KillClient, vars, clientVars
<1>3. ReceiveByte /\ cstatus = "running"
  BY <1>1, <1>2 DEF Client, ClientStep, ClientPoll, SendKey, Receive, ReceiveEnd, ClientHangUp
<1> QED  BY <1>2, <1>3, ReceiveKeepsLogInv DEF Client

\* lab1b-client.c:235-265: at the end of every line the log has as many bytes as
\* arrived, and what came since the last flush stands in it as it came, for every
\* output, with and without encryption.
THEOREM RelayLinesAreLogged == Spec => LinesAreLogged
<1> DEFINE IInv == RInv /\ OutInv /\ LogInv
<1>1. Init => IInv
  BY InitRInv, InitOutInv, InitLogInv
<1>2. IInv /\ [Next]_vars => IInv'
  BY NextRInv, NextOutInv, NextLogInv
<1>3. IInv /\ [Next]_vars =>
        [~shownAgain /\ Len(shown') > Len(shown) /\ Last(shown') = "NL" =>
           /\ Len(logged') = Place(shown', Len(shown'))
           /\ \A m \in DOMAIN shown' :
                LET k == Place(shown', m)
                IN  k > Len(logged) /\ (encrypt_flag \/ shown'[m] # "NL")
                      => logged'[k] = Encode(shown'[m], m)]_vars
  BY NextLogsLines DEF LineIsLogged
<1> HIDE DEF IInv
<1> QED  BY <1>1, <1>2, <1>3, PTL DEF Spec, LinesAreLogged
=============================================================================

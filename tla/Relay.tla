-------------------------------- MODULE Relay --------------------------------
(* Lab1B: a terminal's client and a shell's server, joined by a connection.  *)
EXTENDS RelayClient, RelayServer, FiniteSets

vars == <<encrypt_flag, wires, clientVars, serverVars>>

Init == WiresInit /\ ClientInit /\ ServerInit

\* A step of the client's or of the server's process, or of their environments.
Client == ClientStep /\ UNCHANGED <<encrypt_flag, serverVars>>
Server == ServerStep /\ UNCHANGED <<encrypt_flag, clientVars>>
Shell == ShellStep /\ UNCHANGED <<encrypt_flag, clientVars>>
User == Type /\ UNCHANGED <<encrypt_flag, serverVars>>
Signal == \/ Interrupt /\ UNCHANGED <<encrypt_flag, clientVars>>
          \/ KillClient /\ UNCHANGED <<encrypt_flag, serverVars>>

\* Both processes are gone.
Terminated == cstatus # "running" /\ sstatus # "running" /\ UNCHANGED vars

Next == Client \/ Server \/ Shell \/ User \/ Signal \/ Terminated

Spec == Init /\ [][Next]_vars

\* The client, the server and the shell run.
FairSpec == Spec /\ WF_vars(Client) /\ WF_vars(Server) /\ WF_vars(Shell)

-----------------------------------------------------------------------------
(* Properties.                                                               *)

\* The shell gets the keys the user typed before ^C or ^D, in order and decrypted
\* with the cipher in step, whatever goes the other way through the same buffers:
\* those it has read, and behind them those in its pipe (lab1b-client.c:194-230,
\* lab1b-server.c:107-129).
FedIsTyped ==
  LET IsKey(c, n) == n <= Len(echoed) /\ echoed[n] = c /\ c \notin {"^C", "^D"}
  IN  /\ \A n \in DOMAIN fed : IsKey(fed[n], n)
      /\ \A n \in DOMAIN toShell :
           toShell[n].fresh => IsKey(toShell[n].char, Len(fed) + n)

\* The terminal shows what the shell wrote, in order and decrypted with the
\* cipher in step (lab1b-server.c:133-143, lab1b-client.c:234-267).
ShownIsOutput == IsPrefix(shown, Outputs)

\* A read at the end of the stream leaves the old byte in buffer, and the byte
\* goes on as if it had arrived again: to the shell only once the client has
\* ended, to the terminal only once the server has closed its end, which it does
\* before it waits for the shell, and after a SIGINT may outlive
\* (lab1b-client.c:234, lab1b-server.c:50-57, 107).
RepeatsOnlyAtEnd == /\ repeated => cstatus # "running"
                    /\ shownAgain => ~serverOpen

\* The bytes among the first n of s that belong into the log: without encryption
\* all but the line feeds.
Place(s, n) == Cardinality({m \in 1..n : encrypt_flag \/ s[m] # "NL"})

\* When a line of output is complete, the log has as many bytes as arrived for
\* it, and those that came since the last flush are the very bytes that arrived,
\* encrypted or not, at their places (lab1b-client.c:235-265).
LinesAreLogged ==
  [][~shownAgain /\ Len(shown') > Len(shown) /\ Last(shown') = "NL" =>
       /\ Len(logged') = Place(shown', Len(shown'))
       /\ \A m \in DOMAIN shown' :
            LET k == Place(shown', m)
            IN  k > Len(logged) /\ (encrypt_flag \/ shown'[m] # "NL")
                  => logged'[k] = Encode(shown'[m], m)]_vars

\* However the server ends, its shell has ended and was waited for
\* (lab1b-server.c:50-92).
LeavesNoShell == sstatus # "running" => shell # "running" /\ reaped

\* The server waits to write to the full pipe of a shell that waits to write to
\* its own full pipe (lab1b-server.c:124, 128).
Clogged == /\ sstatus = "running" /\ Working /\ "in" \in srevents
           /\ tchildOpen /\ shell = "running" /\ Len(toShell) = PipeSize
           /\ work > 0 /\ serverOpen /\ Len(fromShell) = PipeSize

\* ^C, ^D, SIGINT and the shell's end all end the server, unless it and the shell
\* wait for each other for ever; after a SIGINT it may also go on without a
\* shell and without a connection (lab1b-server.c:50-92, 112-120, 145).
ServerEnds ==
  ("^C" \in ToSet(echoed) \/ "^D" \in ToSet(echoed) \/ shell # "running" \/ interrupts > 0)
     ~> \/ sstatus # "running"
        \/ interrupts > 0 /\ reaped /\ ~serverOpen
        \/ []Clogged

\* Once the server is gone, the next key ends the client: the server's orderly
\* end alone does not, for it is no POLLHUP (lab1b-client.c:229, 274).
KeyEndsClient == (sstatus # "running" /\ input # <<>>) ~> cstatus # "running"
=============================================================================

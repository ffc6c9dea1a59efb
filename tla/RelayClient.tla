----------------------------- MODULE RelayClient -----------------------------
(* Lab1B/lab1b-client.c: keys are echoed and sent one by one, what arrives is *)
(* shown, and with --log both are written to a file.  The user is the         *)
(* environment.                                                               *)
EXTENDS RelayWires

CONSTANT Scripts      \* the sequences of keys the user may type

ASSUME ClientAssumption == Scripts \subseteq Seq(Keys)

VARIABLES script, input,  \* keys to type, typed but not read
          echoed,       \* the keys read, shown and sent
          shown,        \* the bytes received and shown
          shownAgain,   \* a byte was shown again, at the end of the stream
          cbuffer,      \* *buffer
          crevents,     \* the branches of this round that are still to do
          cstatus,      \* "running", or how the client ended
          cencrypted, cdecrypted,  \* the uses of its two ciphers
          logBuffer,    \* log_buffer; ind is its length
          logged        \* the bytes of the RECEIVED lines of the log

clientVars == <<script, input, echoed, shown, shownAgain, cbuffer, crevents,
                cstatus, cencrypted, cdecrypted, logBuffer, logged>>

ClientInit == /\ script \in Scripts
              /\ input = <<>> /\ echoed = <<>>
              /\ shown = <<>> /\ shownAgain = FALSE
              /\ cbuffer = Plain(Other)
              /\ crevents = {}
              /\ cstatus = "running"
              /\ cencrypted = 0 /\ cdecrypted = 0
              /\ logBuffer = <<>> /\ logged = <<>>

-----------------------------------------------------------------------------
(* The log.                                                                  *)

\* Fault: ind is not reset.
FlushAgain == /\ logged' = logged \o logBuffer
              /\ UNCHANGED logBuffer

\* write(logFD, buffer, ind): the one byte of buffer and what lies behind it.
Flush == /\ logged' = logged \o [n \in DOMAIN logBuffer |->
                                   IF n = 1 THEN cbuffer ELSE Plain(Other)]
         /\ logBuffer' = <<>>

-----------------------------------------------------------------------------
(* read_write().                                                             *)

\* exit(0): reset_input_terminal() writes the rest of the log.
ClientExit(unread) == /\ cstatus' = "exit0"
                      /\ CloseClient(unread)

\* Fault: POLLHUP and POLLERR are looked for in pfd[0].
ClientPollTerminal ==
  /\ crevents = {}
  /\ crevents' = {e \in {"key", "sock"} :
                    \/ e = "key" /\ input # <<>>
                    \/ e = "sock" /\ ClientReadable}
  /\ UNCHANGED <<script, input, echoed, shown, shownAgain, cbuffer, cstatus,
                 cencrypted, cdecrypted, logBuffer, logged, wires>>

ClientPoll ==
  /\ crevents = {}
  /\ crevents' = {e \in {"key", "sock", "hup"} :
                    \/ e = "key" /\ input # <<>>
                    \/ e = "sock" /\ ClientReadable
                    \/ e = "hup" /\ clientReset}
  /\ UNCHANGED <<script, input, echoed, shown, shownAgain, cbuffer, cstatus,
                 cencrypted, cdecrypted, logBuffer, logged, wires>>

\* Fault: the line feed is encrypted but buffer is sent.
SendKeyInClear ==
  /\ "key" \in crevents
  /\ crevents' = crevents \ {"key"}
  /\ Flush
  /\ input' = Tail(input)
  /\ echoed' = Append(echoed, Head(input))
  /\ cencrypted' = IF encrypt_flag THEN cencrypted + 1 ELSE 0
  /\ cbuffer' = IF Head(input) = "NL" THEN Plain("NL")
                ELSE Encode(Head(input), cencrypted + 1)
  /\ ~clientReset /\ ClientWrites(cbuffer')
  /\ UNCHANGED <<script, shown, shownAgain, cdecrypted, down, clientOpen,
                 serverOpen, serverReset, cstatus>>

\* A key is echoed, encrypted and sent.  After a reset sending is a SIGPIPE that
\* ends the client at once, or the report of the reset, which goes unnoticed.
SendKey ==
  /\ "key" \in crevents
  /\ crevents' = crevents \ {"key"}
  /\ Flush
  /\ input' = Tail(input)
  /\ echoed' = Append(echoed, Head(input))
  /\ cencrypted' = IF encrypt_flag THEN cencrypted + 1 ELSE 0
  /\ cbuffer' = IF Head(input) = "NL" THEN Plain("NL")
                ELSE Encode(Head(input), cencrypted + 1)
  /\ \/ /\ ClientWrites(Encode(Head(input), cencrypted + 1))
        /\ UNCHANGED <<down, clientOpen, serverOpen, serverReset, cstatus>>
     \/ /\ clientReset
        /\ cstatus' = "killed"
        /\ CloseClient(down)
  /\ UNCHANGED <<script, shown, shownAgain, cdecrypted>>

\* The byte that arrives is kept for the log as it came when it is encrypted;
\* the end of a line is logged without its line feed.
Log(c) == LET kept == IF encrypt_flag \/ c # "NL"
                      THEN Append(logBuffer, Head(down)) ELSE logBuffer
          IN  IF c = "NL"
              THEN logged' = logged \o kept /\ logBuffer' = <<>>
              ELSE logBuffer' = kept /\ UNCHANGED logged

\* One byte of the connection is shown.
ReceiveByte == /\ down # <<>>
               /\ \E c \in Decode(Head(down), cdecrypted + 1) :
                    /\ cbuffer' = Plain(c)
                    /\ shown' = Append(shown, c)
                    /\ Log(c)
               /\ cdecrypted' = IF encrypt_flag THEN cdecrypted + 1 ELSE 0
               /\ down' = Tail(down)
               /\ UNCHANGED <<shownAgain, cstatus, up, clientOpen, serverOpen,
                              clientReset, serverReset>>

\* At the end of the connection the old byte is taken once more; a ^D ends the
\* client.  That such bytes are also logged, again and again, is left out.
ReceiveEnd == /\ down = <<>>
              /\ shownAgain' = TRUE
              /\ \E c \in DecodeAgain(cbuffer) :
                   /\ cbuffer' = Plain(c)
                   /\ IF c = "^D"
                      THEN Flush /\ ClientExit(<<>>)
                      ELSE UNCHANGED <<logBuffer, logged, cstatus, wires>>
              /\ UNCHANGED <<shown, cdecrypted>>

Receive == /\ "sock" \in crevents /\ "key" \notin crevents
           /\ crevents' = crevents \ {"sock"}
           /\ ReceiveByte \/ ReceiveEnd
           /\ UNCHANGED <<script, input, echoed, cencrypted>>

ClientHangUp == /\ crevents = {"hup"}
                /\ crevents' = {}
                /\ Flush
                /\ ClientExit(down)
                /\ UNCHANGED <<script, input, echoed, shown, shownAgain, cbuffer,
                               cencrypted, cdecrypted>>

ClientStep == /\ cstatus = "running"
              /\ ClientPoll \/ SendKey \/ Receive \/ ClientHangUp

\* A signal from outside ends the client.
KillClient == /\ cstatus = "running"
              /\ cstatus' = "killed"
              /\ CloseClient(down)
              /\ UNCHANGED <<script, input, echoed, shown, shownAgain, cbuffer,
                             crevents, cencrypted, cdecrypted, logBuffer, logged>>

Type == /\ cstatus = "running"
        /\ script # <<>>
        /\ script' = Tail(script)
        /\ input' = Append(input, Head(script))
        /\ UNCHANGED <<echoed, shown, shownAgain, cbuffer, crevents, cstatus,
                       cencrypted, cdecrypted, logBuffer, logged, wires>>

=============================================================================

----------------------------- MODULE RelayWires -----------------------------
(* What lab1b-client and lab1b-server share: the bytes of the connection, and *)
(* what TCP, over the loopback interface, tells each end about the other.     *)
EXTENDS Integers, SequencesExt

VARIABLES encrypt_flag,   \* --encrypt, at both ends
          up, down,       \* the bytes on the way to the server, to the client
          clientOpen, serverOpen,    \* each end's socket is open
          clientReset, serverReset   \* each end has had its connection reset

wires == <<up, down, clientOpen, serverOpen, clientReset, serverReset>>

\* What a byte stands for: a key, or what the shell writes.
Keys == {"a", "NL", "^C", "^D"}
Replies == {"x", "y", "NL"}
Chars == Keys \cup Replies

\* Any byte but the three that are treated specially.
Other == "other"

\* A byte: plain, or as the n-th that a cipher made (n > 0).
Bytes == [char : Chars \cup {Other}, at : Nat]
Plain(c) == [char |-> c, at |-> 0]
Encode(c, n) == IF encrypt_flag THEN [char |-> c, at |-> n] ELSE Plain(c)

\* What decryption may make of a byte that was not encrypted at that place.
Garbage == {Other, "NL", "^C", "^D"}

\* What the n-th use of the other cipher makes of byte b: if the two are out of
\* step, anything.
Decode(b, n) == IF encrypt_flag /\ b.at # n THEN Garbage ELSE {b.char}

\* What becomes of the old byte when a read at the end of the stream leaves it.
DecodeAgain(b) == IF encrypt_flag THEN Garbage ELSE {b.char}

WiresInit == /\ encrypt_flag \in BOOLEAN
             /\ up = <<>> /\ down = <<>>
             /\ clientOpen = TRUE /\ serverOpen = TRUE
             /\ clientReset = FALSE /\ serverReset = FALSE

\* An end that closes with bytes unread resets the other end.
CloseServer(unread) ==
  /\ serverOpen' = FALSE
  /\ up' = <<>>
  /\ clientReset' = (clientReset \/ (clientOpen /\ unread # <<>>))
  /\ UNCHANGED <<down, clientOpen, serverReset>>

CloseClient(unread) ==
  /\ clientOpen' = FALSE
  /\ down' = <<>>
  /\ serverReset' = (serverReset \/ (serverOpen /\ unread # <<>>))
  /\ UNCHANGED <<up, serverOpen, clientReset>>

\* A write while both ends are open is delivered; one to an end that has closed
\* is answered by a reset.
ServerWrites(b) == IF clientOpen /\ ~serverReset
                   THEN down' = Append(down, b) /\ UNCHANGED serverReset
                   ELSE serverReset' = TRUE /\ UNCHANGED down

ClientWrites(b) == IF serverOpen /\ ~clientReset
                   THEN up' = Append(up, b) /\ UNCHANGED clientReset
                   ELSE clientReset' = TRUE /\ UNCHANGED up

\* POLLIN is set for bytes and for the end of the stream; POLLHUP only once the
\* connection was reset.
ServerReadable == serverOpen /\ (up # <<>> \/ ~clientOpen \/ serverReset)
\* Fault: the connection is read without a look at revents.
ReadableAlways == TRUE

ClientReadable == down # <<>> \/ ~serverOpen \/ clientReset
=============================================================================

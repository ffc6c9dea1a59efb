----------------------------- MODULE SensorText -----------------------------
(* Lab4C/lab4c_tcp.c (Lab4B and the TLS program agree): the text of the      *)
(* commands and process_input() as a function of text and setting.  A text   *)
(* is a sequence of pieces: single bytes, or words that are longer.          *)
EXTENDS Integers, SequencesExt

CONSTANT StaleDigits  \* the digits that temp_buff[j] may hold uninitialised

DigitValue == ("0" :> 0) @@ ("1" :> 1) @@ ("2" :> 2) @@ ("3" :> 3)
Digits == DOMAIN DigitValue
Bytes == Digits \cup {"F", "C", "NL"}
Words == {"SCALE=", "PERIOD=", "LOG ", "STOP", "START", "OFF", "junk"}

ASSUME TextAssumption == StaleDigits \subseteq Digits

\* Fault: buff[buff_len] = 0 keeps the line feed.
KeepLast(buff) == buff

\* buff[buff_len-1] = 0: the last byte goes, and with it the word it ends.
DropLast(buff) == IF Last(buff) \in Bytes THEN Front(buff)
                                          ELSE Append(Front(buff), "junk")

\* atoi of a text.
Atoi(text) ==
  LET end == SelectInSeq(text, LAMBDA piece : piece \notin Digits)
      number == IF end = 0 THEN text ELSE SubSeq(text, 1, end - 1)
  IN  FoldLeft(LAMBDA n, d : 10 * n + DigitValue[d], 0, number)

\* temp_buff gets the text after PERIOD= and a 0 one byte too late; the byte
\* between them is what the stack holds.
TempBuffs(text) == {Tail(text)} \cup {Append(Tail(text), d) : d \in StaleDigits}

\* process_input(): the values of scale, of period and of stop_flag it may
\* leave behind.
ScaleAfter(text, scale) ==
  IF text \in {<<"SCALE=", "F">>, <<"SCALE=", "C">>} THEN text[2] ELSE scale

PeriodsAfter(text, period) ==
  IF text # <<>> /\ Head(text) = "PERIOD="
  THEN {Atoi(temp_buff) : temp_buff \in TempBuffs(text)}
  ELSE {period}

\* Fault: STOP toggles.
StopToggles(text, stop_flag) == CASE text = <<"STOP">>  -> 1 - stop_flag
                                  [] text = <<"START">> -> 0
                                  [] OTHER              -> stop_flag

StopAfter(text, stop_flag) == CASE text = <<"STOP">>  -> 1
                                [] text = <<"START">> -> 0
                                [] OTHER              -> stop_flag

IsOff(text) == text = <<"OFF">>
=============================================================================

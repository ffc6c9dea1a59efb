--------------------------- MODULE SensorCommands ---------------------------
(* What the sensor programs of Lab4B and Lab4C promise: every line of the    *)
(* operator takes effect once and in order, until one says OFF.              *)
EXTENDS Integers, Sequences

CONSTANTS Scripts,      \* the sequences of lines that may be sent
          InitPeriods,  \* the values of --period
          DigitValue    \* DigitValue[d]: the value of the digit d

VARIABLES scale,      \* "F" or "C"
          period,     \* the seconds from one report to the next
          stop_flag,  \* 1 while reports are stopped
          todo,       \* the lines that have not taken effect
          on          \* FALSE after OFF, or when the program has died

vars == <<scale, period, stop_flag, todo, on>>

Init == /\ scale = "F"
        /\ period \in InitPeriods
        /\ stop_flag = 0
        /\ todo \in Scripts
        /\ on = TRUE

\* The next line is line, and it is done now.
Take(line) == /\ on
              /\ todo # <<>>
              /\ Head(todo) = line
              /\ todo' = Tail(todo)

SetScale(s) == /\ Take(<<"SCALE=", s, "NL">>)
               /\ scale' = s
               /\ UNCHANGED <<period, stop_flag, on>>

SetPeriod(d) == /\ Take(<<"PERIOD=", d, "NL">>)
                /\ period' = DigitValue[d]
                /\ UNCHANGED <<scale, stop_flag, on>>

Stop == /\ Take(<<"STOP", "NL">>)
        /\ stop_flag' = 1
        /\ UNCHANGED <<scale, period, on>>

Start == /\ Take(<<"START", "NL">>)
         /\ stop_flag' = 0
         /\ UNCHANGED <<scale, period, on>>

Log == /\ \E text \in {"STOP", "OFF", "junk"} : Take(<<"LOG ", text, "NL">>)
       /\ UNCHANGED <<scale, period, stop_flag, on>>

Off == /\ Take(<<"OFF", "NL">>)
       /\ on' = FALSE
       /\ UNCHANGED <<scale, period, stop_flag>>

\* The operator goes away with lines unsent.
Cut == /\ on
       /\ \E n \in 0..Len(todo) : todo' = SubSeq(todo, 1, n)
       /\ UNCHANGED <<scale, period, stop_flag, on>>

\* The program ends without OFF; only the loss of the operator does that.
Die == /\ on
       /\ on' = FALSE
       /\ UNCHANGED <<scale, period, stop_flag, todo>>

Next == \/ \E s \in {"F", "C"} : SetScale(s)
        \/ \E d \in DOMAIN DigitValue : SetPeriod(d)
        \/ Stop \/ Start \/ Log \/ Off
        \/ Cut \/ Die

Spec == Init /\ [][Next]_vars
=============================================================================

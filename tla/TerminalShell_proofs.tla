------------------------ MODULE TerminalShell_proofs ------------------------
(* Theorems about TerminalShell, for all scripts, outputs, sizes of the pipes *)
(* and numbers of interrupts, with and without handlers.                     *)
EXTENDS TerminalShell, TLAPS

\* What poll found is still there when the loop comes to it, also after the handler
\* of a SIGINT returned, but for the shell's output, whose pipe may be closed; the
\* key to write is the one that was read; and only without a shell it just echoes.
Found == /\ /\ pc = "key" \/ (pc = "waitpid" /\ "SIGINT" \in callers /\ resume = "key")
            /\ revents.key
            => input # <<>>
         /\ pc \in {"key", "write", "out"} /\ revents.out /\ fchildOpen
            => fromShell # <<>>
         /\ pc = "write" /\ tchildOpen => buffer \in {"a", "NL"}
         /\ pc = "waitpid" => ~fchildOpen /\ ~tchildOpen /\ ~raw
         /\ "SIGINT" \in callers => pc = "waitpid"
         /\ shell_flag => pc \notin {"echo", "handler"}
         /\ resume \notin {"echo", "handler"}

\* The types of the bytes, and no more work than there is output for.
Shown == Keys \cup Reply \cup {"none"}
TypeInv == /\ script \in Seq(Keys) /\ input \in Seq(Keys) /\ typed \in Seq(Keys)
           /\ echoed \in Seq(Keys)
           /\ shown \in Seq(Shown) /\ buffer \in Shown
           /\ toShell \in Seq(Keys) /\ fed \in Seq(Keys)
           /\ fromShell \in Seq(Reply)
           /\ wrote \in Nat /\ work \in Nat /\ wrote + work <= Len(Outputs)
           /\ interrupts \in Nat

LEMMA InitTypeInv == Init => TypeInv /\ Found
<1> SUFFICES ASSUME Init PROVE TypeInv /\ Found
  OBVIOUS
<1>1. Found
  BY DEF Init, Found, Quiet
<1>2. script \in Seq(Keys) /\ Len(Outputs) \in Nat
  BY TerminalAssumption DEF Init
<1>3. /\ input = <<>> /\ typed = <<>> /\ echoed = <<>> /\ shown = <<>>
      /\ toShell = <<>> /\ fromShell = <<>> /\ fed = <<>>
      /\ wrote = 0 /\ work = 0 /\ interrupts = 0 /\ buffer = "none"
  BY DEF Init
<1> QED  BY <1>1, <1>2, <1>3 DEF TypeInv, Shown

\* What the exit handler changes has its type.
LEMMA ResetType ==
  ASSUME NEW who \in {"exit", "SIGINT", "SIGPIPE"}, Reset(who)
  PROVE  /\ raw' = FALSE /\ tchildOpen' = FALSE /\ fchildOpen' = FALSE
         /\ pc' = "waitpid"
         /\ "SIGINT" \in callers' <=> "SIGINT" \in callers \/ who = "SIGINT"
BY DEF Reset

LEMMA MainType == TypeInv /\ Found /\ Main => TypeInv' /\ Found'
<1> SUFFICES ASSUME TypeInv, Found, Main PROVE TypeInv' /\ Found'
  OBVIOUS
<1> USE DEF TypeInv, Found, Shown
<1>1. UNCHANGED <<shell_flag, handled, interrupts>>
  BY DEF Main, options
<1>2. CASE EchoRead
  <2>1. /\ Head(input) \in Keys
        /\ echoed' \in Seq(Keys)
    BY <1>2 DEF EchoRead
  <2> QED  BY <1>1, <1>2, <2>1 DEF EchoRead, pipes, child
<1>3. CASE Wait
  <2>1. UNCHANGED <<terminal, pipes, child>>
    BY <1>3 DEF Wait
  <2>2. CASE WaitFails  BY <1>1, <2>1, <2>2 DEF WaitFails, terminal, pipes, child
  <2>3. CASE WaitExited  BY <1>1, <2>1, <2>3 DEF WaitExited, terminal, pipes, child
  <2>4. CASE WaitSignaled  BY <1>1, <2>1, <2>4 DEF WaitSignaled, terminal, pipes, child
  <2> QED  BY <1>3, <2>2, <2>3, <2>4 DEF Wait
<1>4. CASE Poll
  BY <1>1, <1>4 DEF Poll, terminal, pipes, child
<1>5. CASE NoKey \/ NoOutput \/ NoHangUp
  BY <1>1, <1>5 DEF NoKey, NoOutput, NoHangUp, terminal, pipes, child
<1>6. ASSUME NEW k, ReadKey(k)
      PROVE  /\ k \in Keys /\ buffer' = k
             /\ input' \in Seq(Keys) /\ echoed' \in Seq(Keys)
  <2>1. input # <<>> /\ k \in Keys /\ input' \in Seq(Keys)
    BY <1>6 DEF ReadKey
  <2> QED  BY <1>6, <2>1 DEF ReadKey
<1>7. CASE CtrlC
  <2>1. ReadKey("^C") /\ Reset("exit") /\ pc = "key"
        /\ UNCHANGED <<script, typed, shown, revents, resume, toShell, fromShell, fed,
                       wrote, work>>
    BY <1>7 DEF CtrlC, ReadKey
  <2>2. "SIGINT" \notin callers'
    BY <2>1, ResetType
  <2> QED  BY <1>1, <1>6, <2>1, <2>2, ResetType
<1>8. CASE CtrlD
  BY <1>1, <1>6, <1>8 DEF CtrlD, child, ReadKey
<1>9. CASE RelayKey
  <2>1. PICK k \in {"a", "NL"} : ReadKey(k)
    BY <1>9 DEF RelayKey
  <2>2. /\ UNCHANGED <<script, typed, shown, revents, callers, resume, raw, pipes, child>>
        /\ pc' = "write" /\ pc = "key" /\ buffer' = k
    BY <1>9, <2>1 DEF RelayKey, ReadKey
  <2> QED  BY <1>1, <1>6, <2>1, <2>2 DEF pipes, child
<1>9a. CASE WriteKey
  <2>1. UNCHANGED <<terminal, buffer, revents, resume, fromShell, child>> /\ pc = "write"
    BY <1>9a DEF WriteKey
  <2>2. toShell' \in Seq(Keys)
    <3>1. tchildOpen => Append(toShell, buffer) \in Seq(Keys)
      BY <2>1 DEF Keys
    <3> QED  BY <1>9a, <3>1 DEF WriteKey
  <2>3. CASE Reset("SIGPIPE")
    BY <1>1, <2>1, <2>2, <2>3, ResetType DEF terminal, child
  <2>4. CASE DieOf("SIGPIPE") /\ UNCHANGED <<raw, callers, pc>>
    BY <1>1, <2>1, <2>2, <2>4 DEF DieOf, terminal, child
  <2>5. CASE pc' = "out" /\ UNCHANGED <<raw, callers, tchildOpen, fchildOpen>>
    BY <1>1, <2>1, <2>2, <2>5 DEF terminal, child
  <2> QED  BY <1>9a, <2>3, <2>4, <2>5 DEF WriteKey
<1>10. CASE Output
  <2>1. fchildOpen => Head(fromShell) \in Reply /\ Tail(fromShell) \in Seq(Reply)
    <3>1. fchildOpen => fromShell # <<>>
      BY <1>10 DEF Output
    <3> QED  BY <3>1
  <2>2. \/ fchildOpen /\ buffer' = Head(fromShell) /\ fromShell' = Tail(fromShell)
        \/ ~fchildOpen /\ UNCHANGED <<buffer, fromShell>>
    BY <1>10 DEF Output
  <2> HIDE DEF Found
  <2>3. buffer' \in Shown /\ fromShell' \in Seq(Reply)
    BY <2>1, <2>2
  <2>4. shown' \in Seq(Shown)
    BY <1>10, <2>3 DEF Output
  <2> QED  BY <1>1, <1>10, <2>3, <2>4 DEF Output, child, Found
<1>11. CASE HangUp
  BY <1>1, <1>11, ResetType DEF HangUp, terminal, child
<1> QED  BY <1>2, <1>3, <1>4, <1>5, <1>7, <1>8, <1>9, <1>9a, <1>10, <1>11 DEF Main

LEMMA InterruptType == TypeInv /\ Found /\ Interrupt => TypeInv' /\ Found'
<1> SUFFICES ASSUME TypeInv, Found, Interrupt PROVE TypeInv' /\ Found'
  OBVIOUS
<1>1. /\ UNCHANGED <<options, terminal, buffer, revents, fed, wrote, work>>
      /\ interrupts' = interrupts + 1
  BY DEF Interrupt
<1>2. CASE InterruptDies
  BY <1>1, <1>2 DEF InterruptDies, DieOf, options, terminal, TypeInv, Found
<1>3. CASE InterruptResets
  BY <1>1, <1>3 DEF InterruptResets, Reset, options, terminal, TypeInv, Found
<1>4. CASE InterruptRepeats
  BY <1>1, <1>4 DEF InterruptRepeats, options, terminal, pipes, TypeInv, Found
<1> QED  BY <1>2, <1>3, <1>4 DEF Interrupt

LEMMA TypeType == TypeInv /\ Found /\ Type => TypeInv' /\ Found'
<1> SUFFICES ASSUME TypeInv, Found, Type PROVE TypeInv' /\ Found'
  OBVIOUS
<1>1. /\ Head(script) \in Keys /\ script' \in Seq(Keys)
      /\ input' \in Seq(Keys) /\ input' # <<>> /\ typed' \in Seq(Keys)
  BY DEF Type, TypeInv
<1> QED  BY <1>1 DEF Type, options, main, pipes, child, TypeInv, Found

LEMMA Appended ==
  ASSUME NEW S, NEW s \in Seq(S), NEW e \in S
  PROVE  Append(s, e) \in Seq(S) /\ Append(s, e) # <<>>
<1>1. Append(s, e) \in Seq(S) /\ Len(Append(s, e)) = Len(s) + 1 /\ Len(s) \in Nat
  OBVIOUS
<1> QED  BY <1>1

LEMMA ShellType == TypeInv /\ Found /\ Shell => TypeInv' /\ Found'
<1> SUFFICES ASSUME TypeInv, Found, Shell PROVE TypeInv' /\ Found'
  OBVIOUS
<1> USE DEF TypeInv, Found
<1>1. UNCHANGED <<shell_flag, terminal, main, fchildOpen, tchildOpen, interrupts>>
  BY DEF Shell, options, ShellRead, ShellWrite, ShellExit, ShellSignaled, pipes
<1>2. CASE ShellRead
  <2>1. /\ Head(toShell) \in Keys /\ toShell' \in Seq(Keys) /\ fed' \in Seq(Keys)
    BY <1>2 DEF ShellRead
  <2>2. work' \in Nat /\ wrote + work' <= Len(Outputs) /\ Len(Outputs) \in Nat
    BY <1>2, TerminalAssumption DEF ShellRead
  <2> QED  BY <1>1, <1>2, <2>1, <2>2 DEF ShellRead, terminal, main
<1>3. CASE ShellWrite
  <2>1. Len(Outputs) \in Nat /\ Outputs \in Seq(Reply)
    BY TerminalAssumption
  <2>2. fromShell' \in Seq(Reply) /\ fromShell' # <<>>
    <3>1. wrote + 1 \in 1..Len(Outputs) /\ fromShell \in Seq(Reply)
      BY <1>3, <2>1 DEF ShellWrite
    <3>2. Outputs[wrote + 1] \in Reply
      BY <2>1, <3>1
    <3>3. fromShell' = Append(fromShell, Outputs[wrote + 1])
      BY <1>3 DEF ShellWrite
    <3> QED  BY <3>1, <3>2, <3>3, Appended
  <2>3. wrote' \in Nat /\ work' \in Nat /\ wrote' + work' <= Len(Outputs)
    BY <1>3, <2>1 DEF ShellWrite
  <2> QED  BY <1>1, <1>3, <2>2, <2>3 DEF ShellWrite, terminal, main
<1>4. CASE ShellExit \/ ShellSignaled
  BY <1>1, <1>4 DEF ShellExit, ShellSignaled, terminal, main, pipes
<1> QED  BY <1>2, <1>3, <1>4 DEF Shell

LEMMA NextType == TypeInv /\ Found /\ [Next]_vars => TypeInv' /\ Found'
<1>1. TypeInv /\ Found /\ UNCHANGED vars => TypeInv' /\ Found'
  BY DEF vars, options, terminal, main, pipes, child, TypeInv, Found
<1> QED  BY <1>1, MainType, InterruptType, TypeType, ShellType DEF Next, Terminated, Asleep

-----------------------------------------------------------------------------
(* How lab1a ends.                                                           *)

\* Every exit restores the terminal first, and leads through a waitpid that
\* returned the shell, or there was none; no signal ends an lab1a that handles it.
NothingBehind == /\ status \in {"exit0", "exit1"} => ~raw /\ shell # "running"
                 /\ status \in {"SIGINT", "SIGPIPE"} => ~handled
                 /\ reaped => shell # "running"
                 /\ pc = "echo" => shell # "running"

LEMMA NextNothingBehind == Found /\ NothingBehind /\ [Next]_vars => NothingBehind'
<1> SUFFICES ASSUME Found, NothingBehind, [Next]_vars PROVE NothingBehind'
  OBVIOUS
<1> USE DEF NothingBehind, Found
<1>1. CASE Main
  <2>1. CASE EchoRead  BY <1>1, <2>1 DEF Main, options, EchoRead, child
  <2>2. CASE Wait
    BY <1>1, <2>2 DEF Main, options, Wait, WaitFails, WaitExited, WaitSignaled, child, pipes
  <2>3. CASE CtrlC \/ HangUp
    BY <1>1, <2>3 DEF Main, CtrlC, HangUp, ReadKey, Reset, child
  <2>4. CASE WriteKey
    <3>1. UNCHANGED <<reaped, shell, handled>> /\ pc' # "echo"
      BY <1>1, <2>4 DEF Main, options, WriteKey, Reset, child
    <3>2. \/ UNCHANGED <<status, raw>>
          \/ status' = "running"
          \/ status' = "SIGPIPE" /\ ~handled
      BY <1>1, <2>4 DEF Main, WriteKey, Reset, DieOf
    <3> QED  BY <3>1, <3>2
  <2>5. CASE CtrlD \/ RelayKey \/ Output \/ Poll \/ NoKey \/ NoOutput \/ NoHangUp
    BY <1>1, <2>5 DEF Main, CtrlD, RelayKey, ReadKey, Output, Poll, NoKey, NoOutput,
                      NoHangUp, child
  <2> QED  BY <1>1, <2>1, <2>2, <2>3, <2>4, <2>5 DEF Main
<1>2. CASE Interrupt
  <2>1. UNCHANGED <<handled, reaped, shell>> /\ status = "running"
    BY <1>2 DEF Interrupt, options
  <2>2. CASE InterruptDies
    BY <2>1, <2>2 DEF InterruptDies, DieOf
  <2>3. CASE InterruptResets \/ InterruptRepeats
    BY <2>1, <2>3 DEF InterruptResets, InterruptRepeats, Reset
  <2> QED  BY <1>2, <2>2, <2>3 DEF Interrupt
<1>3. CASE Type
  BY <1>3 DEF Type, options, main, child
<1>4. CASE Shell
  BY <1>4 DEF Shell, options, ShellRead, ShellWrite, ShellExit, ShellSignaled, main
<1>5. CASE UNCHANGED vars
  BY <1>5 DEF vars, options, main, child
<1> QED  BY <1>1, <1>2, <1>3, <1>4, <1>5 DEF Next, Terminated, Asleep

\* lab1a.c:29-56, 80-92, 251-254: when lab1a exits, the terminal is as it was before
\* and its shell has ended, and only a signal without a handler ends it otherwise, for
\* all keys, outputs and numbers of interrupts.
THEOREM TerminalLeavesNothingBehind == Spec => []LeavesNothingBehind
<1>1. Init => NothingBehind
  BY DEF Init, NothingBehind
<1>2. NothingBehind => LeavesNothingBehind
  BY DEF NothingBehind, LeavesNothingBehind
<1> QED  BY <1>1, <1>2, InitTypeInv, NextType, NextNothingBehind, PTL DEF Spec

-----------------------------------------------------------------------------
(* The keys that are shown.                                                  *)

\* What is shown was taken from the front of what was typed, and what was typed
\* but not read is the rest.
Rest == Len(typed) - Len(input)
Picks(at) == /\ \A m \in DOMAIN echoed : echoed[m] = typed[at[m]]
             /\ \A m, n \in DOMAIN echoed : m < n => at[m] < at[n]
EchoInv == /\ Len(input) <= Len(typed)
           /\ \A i \in 1..Len(input) : input[i] = typed[Rest + i]
           /\ \E at \in [1..Len(echoed) -> 1..Rest] : Picks(at)

\* A read shows the first key that was not read, and may drop others.
LEMMA ReadKeepsEchoInv ==
  ASSUME TypeInv, EchoInv, input # <<>>, echoed' = Append(echoed, Head(input)),
         input' = Tail(input) \/ input' = <<>>, UNCHANGED typed
  PROVE  EchoInv'
<1> USE DEF TypeInv
<1> DEFINE c == Rest + 1
           d == Len(echoed) + 1
<1>1. /\ Len(input) \in Nat \ {0} /\ Len(typed) \in Nat /\ Len(echoed) \in Nat
      /\ Rest \in Nat /\ Head(input) = typed[c]
  BY DEF EchoInv, Rest
<1>2. /\ Len(input') <= Len(input) - 1 /\ Len(input') \in Nat
      /\ Rest' \in Nat /\ c <= Rest'
  BY <1>1 DEF Rest
<1>3. \A i \in 1..Len(input') : input'[i] = typed'[Rest' + i]
  <2>1. CASE input' = <<>>  BY <2>1
  <2>2. CASE input' = Tail(input)
    <3>1. Rest' = c /\ Len(input') = Len(input) - 1
      BY <1>1, <2>2 DEF Rest
    <3>2. ASSUME NEW i \in 1..Len(input') PROVE input'[i] = typed'[Rest' + i]
      <4>1. i + 1 \in 1..Len(input) /\ input'[i] = input[i + 1]
        BY <1>1, <2>2, <3>1
      <4>2. input[i + 1] = typed[Rest + (i + 1)] /\ Rest + (i + 1) = Rest' + i
        BY <1>1, <3>1, <4>1 DEF EchoInv
      <4> QED  BY <4>1, <4>2
    <3> QED  BY <3>2
  <2> QED  BY <2>1, <2>2
<1>4. PICK at \in [1..Len(echoed) -> 1..Rest] : Picks(at)
  BY DEF EchoInv
<1> DEFINE more == [m \in 1..Len(echoed') |-> IF m = d THEN c ELSE at[m]]
<1>5. /\ Len(echoed') = d /\ DOMAIN echoed' = 1..d /\ DOMAIN echoed = 1..Len(echoed)
      /\ echoed'[d] = typed[c]
      /\ \A m \in 1..Len(echoed) : echoed'[m] = echoed[m]
  BY <1>1
<1>6. more \in [1..Len(echoed') -> 1..Rest']
  BY <1>1, <1>2, <1>5
<1>7. \A m \in DOMAIN echoed' : echoed'[m] = typed'[more[m]]
  BY <1>1, <1>4, <1>5 DEF Picks
<1>8. \A m, n \in DOMAIN echoed' : m < n => more[m] < more[n]
  BY <1>1, <1>4, <1>5 DEF Picks
<1> HIDE DEF more
<1>9. \E a \in [1..Len(echoed') -> 1..Rest'] : Picks(a)'
  BY <1>6, <1>7, <1>8 DEF Picks
<1>10. Len(input') <= Len(typed')
  BY <1>1, <1>2 DEF EchoInv
<1> HIDE DEF TypeInv
<1> QED  BY <1>3, <1>9, <1>10 DEF EchoInv

LEMMA NextEchoInv == TypeInv /\ Found /\ EchoInv /\ [Next]_vars => EchoInv'
<1> SUFFICES ASSUME TypeInv, Found, EchoInv, [Next]_vars PROVE EchoInv'
  OBVIOUS
<1>1. ASSUME UNCHANGED <<input, typed, echoed>> PROVE EchoInv'
  BY <1>1 DEF EchoInv, Rest, Picks
<1>2. CASE Main
  <2>1. CASE EchoRead
    BY <2>1, ReadKeepsEchoInv DEF EchoRead
  <2>2. ASSUME NEW k, ReadKey(k), UNCHANGED typed PROVE EchoInv'
    <3>1. input # <<>>
      BY <2>2 DEF ReadKey, Found
    <3> QED  BY <2>2, <3>1, ReadKeepsEchoInv DEF ReadKey
  <2>3. CASE CtrlC \/ CtrlD \/ RelayKey
    BY <2>2, <2>3 DEF CtrlC, CtrlD, RelayKey
  <2>4. CASE Wait \/ Poll \/ NoKey \/ WriteKey \/ NoOutput \/ Output \/ NoHangUp \/ HangUp
    BY <1>1, <2>4 DEF Wait, Poll, WriteKey, NoKey, NoOutput, Output, NoHangUp, HangUp, terminal
  <2> QED  BY <1>2, <2>1, <2>3, <2>4 DEF Main
<1>3. CASE Type
  <2>1. /\ input' = Append(input, Head(script)) /\ typed' = Append(typed, Head(script))
        /\ UNCHANGED echoed
        /\ input \in Seq(Keys) /\ typed \in Seq(Keys)
    BY <1>3 DEF Type, TypeInv
  <2>2. /\ Len(input') = Len(input) + 1 /\ Len(typed') = Len(typed) + 1
        /\ Len(input) \in Nat /\ Len(typed) \in Nat /\ Len(input) <= Len(typed)
        /\ Rest' = Rest /\ Rest \in Nat
    BY <2>1 DEF EchoInv, Rest
  <2>3. ASSUME NEW i \in 1..Len(input') PROVE input'[i] = typed'[Rest' + i]
    <3>1. CASE i \in 1..Len(input)
      <4>1. Rest + i \in 1..Len(typed) /\ input[i] = typed[Rest + i]
        BY <2>2, <3>1 DEF EchoInv, Rest
      <4> QED  BY <2>1, <2>2, <3>1, <4>1
    <3>2. CASE i = Len(input) + 1
      <4>1. Rest + i = Len(typed) + 1
        BY <2>2, <3>2 DEF Rest
      <4> QED  BY <2>1, <2>2, <3>2, <4>1
    <3> QED  BY <2>2, <3>1, <3>2
  <2>4. PICK at \in [1..Len(echoed) -> 1..Rest] : Picks(at)
    BY DEF EchoInv
  <2>5. \A m \in 1..Len(echoed) : at[m] \in 1..Len(typed) /\ typed'[at[m]] = typed[at[m]]
    BY <2>1, <2>2 DEF Rest
  <2>6. DOMAIN echoed = 1..Len(echoed)
    BY DEF TypeInv
  <2>7. \E a \in [1..Len(echoed') -> 1..Rest'] :
          Picks(a)'
    <3>1. at \in [1..Len(echoed') -> 1..Rest']
      BY <2>1, <2>2
    <3>2. Picks(at)'
      BY <2>1, <2>4, <2>5, <2>6 DEF Picks
    <3> QED  BY <3>1, <3>2
  <2>8. Len(input') <= Len(typed')
    BY <2>2
  <2> QED  BY <2>3, <2>7, <2>8 DEF EchoInv
<1>4. CASE Interrupt \/ Shell \/ UNCHANGED vars
  BY <1>1, <1>4 DEF Interrupt, Shell, vars, terminal
<1> QED  BY <1>2, <1>3, <1>4 DEF Next, Terminated, Asleep

\* lab1a.c:114-128, 145: with and without a shell the keys shown are keys that were
\* typed, in order and none twice, for all sequences of keys and however they are
\* bunched in reads.
THEOREM TerminalEchoIsOfTyped == Spec => []EchoIsOfTyped
<1>1. Init => EchoInv
  <2> SUFFICES ASSUME Init PROVE EchoInv
    OBVIOUS
  <2>1. input = <<>> /\ typed = <<>> /\ echoed = <<>>
    BY DEF Init
  <2>2. \E at \in [1..Len(echoed) -> 1..Rest] : Picks(at)
    <3>1. [m \in {} |-> 0] \in [1..Len(echoed) -> 1..Rest]
      BY <2>1
    <3>2. Picks([m \in {} |-> 0])
      BY <2>1 DEF Picks
    <3> QED  BY <3>1, <3>2
  <2>3. Len(input) <= Len(typed) /\ \A i \in 1..Len(input) : input[i] = typed[Rest + i]
    BY <2>1
  <2> QED  BY <2>2, <2>3 DEF EchoInv
<1>2. TypeInv /\ EchoInv => EchoIsOfTyped
  <2> SUFFICES ASSUME TypeInv, EchoInv PROVE EchoIsOfTyped
    OBVIOUS
  <2>1. PICK at \in [1..Len(echoed) -> 1..Rest] : Picks(at)
    BY DEF EchoInv
  <2>2. at \in [DOMAIN echoed -> DOMAIN typed]
    <3>1. DOMAIN echoed = 1..Len(echoed) /\ DOMAIN typed = 1..Len(typed)
      BY DEF TypeInv
    <3>2. 1..Rest \subseteq 1..Len(typed)
      BY DEF Rest, EchoInv, TypeInv
    <3> QED  BY <3>1, <3>2
  <2> QED  BY <2>1, <2>2 DEF Picks, EchoIsOfTyped
<1> QED  BY <1>1, <1>2, InitTypeInv, NextType, NextEchoInv, PTL DEF Spec

-----------------------------------------------------------------------------
(* What is shown as output.                                                  *)

\* As long as no SIGINT was handled, what was shown and what is in the pipe are what
\* the shell wrote, and a round of the loop finds the pipe open.
OutInv == (handled => interrupts = 0) =>
            /\ shown \o fromShell = SubSeq(Outputs, 1, wrote)
            /\ "SIGINT" \notin callers
            /\ status = "running" /\ pc # "waitpid" => fchildOpen

LEMMA MoveHead ==
  ASSUME NEW S, NEW T, T \subseteq S, NEW s \in Seq(S), NEW t \in Seq(T), t # <<>>
  PROVE  Append(s, Head(t)) \o Tail(t) = s \o t
<1>1. t \in Seq(S) /\ Head(t) \in S /\ Tail(t) \in Seq(S)
  OBVIOUS
<1> QED  BY <1>1

LEMMA OneMore ==
  ASSUME NEW S, NEW s \in Seq(S), NEW n \in Nat, n < Len(s)
  PROVE  SubSeq(s, 1, n + 1) = Append(SubSeq(s, 1, n), s[n + 1])
OBVIOUS

LEMMA AppendBehind ==
  ASSUME NEW S, NEW s \in Seq(S), NEW t \in Seq(S), NEW e \in S
  PROVE  s \o Append(t, e) = Append(s \o t, e)
OBVIOUS

LEMMA FrontIsPrefix ==
  ASSUME NEW S, NEW s \in Seq(S), NEW t \in Seq(S), NEW all \in Seq(S), NEW n \in Nat,
         n <= Len(all), s \o t = SubSeq(all, 1, n)
  PROVE  IsPrefix(s, all)
<1>1. Len(s) + Len(t) = n /\ Len(s) \in Nat /\ Len(t) \in Nat
  <2>1. Len(s \o t) = Len(s) + Len(t) /\ Len(SubSeq(all, 1, n)) = n
    OBVIOUS
  <2> QED  BY <2>1
<1>2. \A i \in 1..Len(s) : s[i] = all[i]
  <2>1. \A i \in 1..Len(s) : (s \o t)[i] = s[i] /\ SubSeq(all, 1, n)[i] = all[i]
    BY <1>1
  <2> QED  BY <2>1
<1>3. SubSeq(s, 1, Len(s)) = SubSeq(all, 1, Len(s))
  BY <1>1, <1>2
<1> QED  BY <1>1, <1>3 DEF IsPrefix

LEMMA NextOutInv == TypeInv /\ Found /\ OutInv /\ [Next]_vars => OutInv'
<1> SUFFICES ASSUME TypeInv, Found, OutInv, [Next]_vars, (handled => interrupts = 0)'
             PROVE  OutInv'
  BY DEF OutInv
<1>1. CASE Main
  <2>1. (handled => interrupts = 0) /\ status = "running"
    BY <1>1 DEF Main, options
  <2> USE <2>1 DEF OutInv
  <2>2. CASE Output
    <3>1. pc = "out" /\ revents.out /\ fchildOpen /\ fromShell # <<>>
      BY <2>2 DEF Output, Found
    <3>2. /\ shown' = Append(shown, Head(fromShell)) /\ fromShell' = Tail(fromShell)
          /\ UNCHANGED <<wrote, callers, fchildOpen>>
      BY <2>2, <3>1 DEF Output, child
    <3>3. shown' \o fromShell' = shown \o fromShell
      <4>1. /\ shown \in Seq(Shown) /\ fromShell \in Seq(Reply) /\ Reply \subseteq Shown
        BY DEF TypeInv, Shown
      <4>2. Append(shown, Head(fromShell)) \o Tail(fromShell) = shown \o fromShell
        BY <3>1, <4>1, MoveHead
      <4> QED  BY <3>2, <4>2
    <3> QED  BY <3>1, <3>2, <3>3
  <2>3. CASE EchoRead
    BY <2>3 DEF EchoRead, pipes, child
  <2>4. CASE Wait
    BY <2>4 DEF Wait, WaitFails, WaitExited, WaitSignaled, terminal, pipes, child
  <2>5. CASE CtrlC \/ HangUp
    BY <2>5, ResetType DEF CtrlC, HangUp, terminal, child
  <2>6. CASE WriteKey
    <3>1. UNCHANGED <<shown, fromShell, wrote>>
      BY <2>6 DEF WriteKey, terminal, child
    <3>2. CASE Reset("SIGPIPE")
      BY <3>1, <3>2, ResetType
    <3>3. CASE DieOf("SIGPIPE") /\ UNCHANGED callers
      BY <3>1, <3>3 DEF DieOf
    <3>4. CASE pc = "write" /\ UNCHANGED <<callers, fchildOpen>>
      BY <3>1, <3>4
    <3> QED  BY <2>6, <3>2, <3>3, <3>4 DEF WriteKey
  <2>7. CASE CtrlD \/ RelayKey \/ Poll \/ NoKey \/ NoOutput \/ NoHangUp
    BY <2>7 DEF CtrlD, RelayKey, Poll, NoKey, NoOutput, NoHangUp, ReadKey, terminal, pipes,
                child
  <2> QED  BY <1>1, <2>2, <2>3, <2>4, <2>5, <2>6, <2>7 DEF Main
<1>2. ASSUME UNCHANGED <<handled, interrupts, shown, fromShell, wrote, callers, pc,
                         status, fchildOpen>>
      PROVE  OutInv'
  BY <1>2 DEF OutInv
<1>3. CASE Type
  BY <1>2, <1>3 DEF Type, options, main, pipes, child
<1>4. CASE Interrupt
  <2>1. interrupts' = interrupts + 1 /\ interrupts \in Nat /\ UNCHANGED <<handled, shown, wrote>>
    BY <1>4 DEF Interrupt, TypeInv, options, terminal
  <2>2. ~handled
    BY <2>1
  <2>3. InterruptDies
    BY <1>4, <2>2 DEF Interrupt, InterruptResets, InterruptRepeats
  <2> QED  BY <2>1, <2>2, <2>3 DEF OutInv, InterruptDies, DieOf
<1>5. CASE Shell /\ ~ShellWrite
  BY <1>2, <1>5 DEF Shell, options, ShellRead, ShellExit, ShellSignaled, terminal, main, pipes
<1>6. CASE Shell /\ ShellWrite
  <2>1. /\ fromShell' = Append(fromShell, Outputs[wrote + 1]) /\ wrote' = wrote + 1
        /\ UNCHANGED <<handled, interrupts, shown, callers, pc, status, fchildOpen>>
    BY <1>6 DEF Shell, ShellWrite, options, terminal, main
  <2>2. /\ wrote \in Nat /\ wrote < Len(Outputs) /\ Outputs \in Seq(Reply)
        /\ Outputs[wrote + 1] \in Reply
    <3>1. Outputs \in Seq(Reply)
      BY TerminalAssumption
    <3>2. work > 0
      BY <1>6 DEF ShellWrite
    <3>3. wrote < Len(Outputs)
      BY <3>1, <3>2 DEF TypeInv
    <3> QED  BY <3>1, <3>3 DEF TypeInv
  <2>3. shown \o fromShell' = Append(shown \o fromShell, Outputs[wrote + 1])
    <3>1. shown \in Seq(Shown) /\ fromShell \in Seq(Shown) /\ Outputs[wrote + 1] \in Shown
      BY <2>2 DEF TypeInv, Shown
    <3> QED  BY <2>1, <3>1, AppendBehind
  <2>4. SubSeq(Outputs, 1, wrote') = Append(SubSeq(Outputs, 1, wrote), Outputs[wrote + 1])
    BY <2>1, <2>2, OneMore
  <2> QED  BY <2>1, <2>3, <2>4 DEF OutInv
<1>7. CASE UNCHANGED vars
  BY <1>2, <1>7 DEF vars, options, terminal, main, pipes, child
<1> QED  BY <1>1, <1>3, <1>4, <1>5, <1>6, <1>7 DEF Next, Terminated, Asleep

\* lab1a.c:145, 172: what is shown as output is what the shell wrote, in order and
\* without a key among it, for outputs and pipes of every length, unless a SIGINT was
\* handled.
THEOREM TerminalShownIsOutput == Spec => []ShownIsOutput
<1>1. Init => OutInv
  <2> SUFFICES ASSUME Init PROVE OutInv
    OBVIOUS
  <2>1. shown \o fromShell = <<>> /\ SubSeq(Outputs, 1, wrote) = <<>>
    BY TerminalAssumption DEF Init
  <2> QED  BY <2>1 DEF Init, OutInv
<1>2. TypeInv /\ OutInv => ShownIsOutput
  <2> SUFFICES ASSUME TypeInv, OutInv, handled => interrupts = 0
               PROVE  IsPrefix(shown, Outputs)
    BY DEF ShownIsOutput
  <2>1. /\ shown \in Seq(Shown) /\ fromShell \in Seq(Shown) /\ Outputs \in Seq(Shown)
        /\ wrote \in Nat /\ wrote <= Len(Outputs)
    BY TerminalAssumption DEF TypeInv, Shown
  <2>2. shown \o fromShell = SubSeq(Outputs, 1, wrote)
    BY DEF OutInv
  <2> QED  BY <2>1, <2>2, FrontIsPrefix
<1> QED  BY <1>1, <1>2, InitTypeInv, NextType, NextOutInv, PTL DEF Spec

-----------------------------------------------------------------------------
(* What the shell is sent.                                                   *)

\* As long as the pipe to the shell is open, what it was sent is all that was
\* shown, but for the key to be written next; later it is a part from the front.
Sent == fed \o toShell
Plain == Keys \ {"^C", "^D"}
FedInv == /\ fed \in Seq(Plain) /\ toShell \in Seq(Plain)
          /\ IsPrefix(Sent, echoed)
          /\ tchildOpen /\ pc \notin {"echo", "write", "handler"} => Sent = echoed
          /\ tchildOpen /\ pc = "write" => Append(Sent, buffer) = echoed
          /\ pc = "echo" => Sent = <<>>

LEMMA PrefixOfAppend ==
  ASSUME NEW S, NEW s \in Seq(S), NEW t \in Seq(S), IsPrefix(s, t), NEW e \in S
  PROVE  IsPrefix(s, Append(t, e))
<1>1. Len(s) \in Nat /\ Len(t) \in Nat /\ Len(s) <= Len(t)
  BY DEF IsPrefix
<1>2. SubSeq(Append(t, e), 1, Len(s)) = SubSeq(t, 1, Len(s))
  BY <1>1
<1>3. Len(Append(t, e)) = Len(t) + 1
  OBVIOUS
<1> QED  BY <1>1, <1>2, <1>3 DEF IsPrefix

LEMMA PrefixOfItself == ASSUME NEW S, NEW s \in Seq(S) PROVE IsPrefix(s, s)
BY DEF IsPrefix

LEMMA EmptyPrefix == ASSUME NEW S, NEW s \in Seq(S) PROVE IsPrefix(<<>>, s)
BY DEF IsPrefix

\* A key is shown, and not sent to the shell.
LEMMA ShowKeepsFedInv ==
  ASSUME TypeInv, FedInv, NEW k \in Keys, echoed' = Append(echoed, k),
         UNCHANGED <<fed, toShell>>, pc' # "echo", ~tchildOpen'
  PROVE  FedInv'
<1>1. Sent \in Seq(Keys) /\ echoed \in Seq(Keys)
  <2>1. fed \in Seq(Keys) /\ toShell \in Seq(Keys)
    BY DEF TypeInv
  <2> QED  BY <2>1 DEF Sent, TypeInv
<1>2. IsPrefix(Sent, Append(echoed, k))
  BY <1>1, PrefixOfAppend DEF FedInv
<1> QED  BY <1>2 DEF FedInv, Sent

LEMMA NextFedInv == TypeInv /\ Found /\ FedInv /\ [Next]_vars => FedInv'
<1> SUFFICES ASSUME TypeInv, Found, FedInv, [Next]_vars PROVE FedInv'
  OBVIOUS
<1>1. ASSUME UNCHANGED <<fed, toShell, echoed>>, pc' = "echo" => pc = "echo",
             \/ ~tchildOpen'
             \/ tchildOpen /\ UNCHANGED <<pc, buffer>>
             \/ tchildOpen /\ {pc, pc'} \cap {"echo", "write", "handler"} = {}
             \/ pc' = "handler"
      PROVE  FedInv'
  BY <1>1 DEF FedInv, Sent
<1>2. CASE Main
  <2>1. CASE EchoRead
    <3>1. /\ Sent = <<>> /\ pc' = "echo" /\ UNCHANGED <<fed, toShell>>
      BY <2>1 DEF EchoRead, FedInv, pipes, child
    <3>2. echoed' \in Seq(Keys)
      BY <2>1 DEF EchoRead, TypeInv
    <3>3. IsPrefix(<<>>, echoed')
      BY <3>2, EmptyPrefix
    <3> QED  BY <3>1, <3>3 DEF FedInv, Sent
  <2>2. ASSUME NEW k, ReadKey(k)
        PROVE  k \in Keys /\ echoed' = Append(echoed, k) /\ pc = "key" /\ buffer' = k
    <3>1. input # <<>>
      BY <2>2 DEF ReadKey, Found
    <3> QED  BY <2>2, <3>1 DEF ReadKey, TypeInv
  <2>3. CASE CtrlC
    BY <2>2, <2>3, ShowKeepsFedInv DEF CtrlC, Reset
  <2>4. CASE CtrlD
    BY <2>2, <2>4, ShowKeepsFedInv DEF CtrlD, child
  <2>5. CASE RelayKey
    <3>1. PICK k \in {"a", "NL"} : ReadKey(k)
      BY <2>5 DEF RelayKey
    <3>2. UNCHANGED <<fed, toShell, tchildOpen>> /\ pc' = "write"
      BY <2>5 DEF RelayKey, pipes, child
    <3>3. CASE ~tchildOpen
      BY <2>2, <3>1, <3>2, <3>3, ShowKeepsFedInv
    <3>4. CASE tchildOpen
      <4>1. Sent = echoed /\ Append(Sent, buffer') = echoed'
        BY <2>2, <3>1, <3>4 DEF FedInv
      <4>2. IsPrefix(Sent, echoed')
        <5>1. Sent \in Seq(Keys)
          BY <4>1 DEF TypeInv
        <5> QED  BY <2>2, <3>1, <4>1, <5>1, PrefixOfItself, PrefixOfAppend
      <4> QED  BY <3>2, <4>1, <4>2 DEF FedInv, Sent
    <3> QED  BY <3>3, <3>4
  <2>5a. CASE WriteKey
    <3>1. UNCHANGED <<fed, echoed, buffer>> /\ pc = "write" /\ pc' # "echo"
      BY <2>5a DEF WriteKey, Reset, terminal, child
    <3>2. CASE tchildOpen /\ shell = "running"
      <4>1. toShell' = Append(toShell, buffer) /\ pc' = "out" /\ UNCHANGED <<tchildOpen>>
        BY <2>5a, <3>2 DEF WriteKey
      <4>2. buffer \in Plain /\ toShell' \in Seq(Plain) /\ fed \in Seq(Plain)
        BY <3>1, <3>2, <4>1 DEF Plain, Keys, FedInv, Found
      <4>3. Sent' = Append(Sent, buffer)
        BY <3>1, <4>1, <4>2, AppendBehind DEF Sent, FedInv
      <4>4. Sent' = echoed'
        BY <3>1, <3>2, <4>3 DEF FedInv
      <4>5. IsPrefix(Sent', echoed')
        <5>1. fed' \in Seq(Plain) /\ toShell' \in Seq(Plain)
          BY <3>1, <4>2
        <5>2. Sent' \in Seq(Plain)
          BY <5>1 DEF Sent
        <5> QED  BY <4>4, <5>2, PrefixOfItself
      <4> QED  BY <3>1, <4>1, <4>2, <4>4, <4>5 DEF FedInv
    <3>3. CASE ~(tchildOpen /\ shell = "running")
      <4>1. UNCHANGED toShell /\ ~tchildOpen'
        BY <2>5a, <3>3 DEF WriteKey, Reset, DieOf
      <4> QED  BY <1>1, <3>1, <4>1
    <3> QED  BY <3>2, <3>3
  <2>6. CASE Wait
    <3>1. ~tchildOpen' /\ UNCHANGED <<fed, toShell, echoed>> /\ pc' # "echo"
      BY <2>6 DEF Wait, WaitFails, WaitExited, WaitSignaled, terminal, pipes, child, Found
    <3> QED  BY <1>1, <3>1
  <2>7. CASE HangUp
    BY <1>1, <2>7 DEF HangUp, Reset, terminal, child
  <2>8. CASE Poll \/ NoKey \/ NoOutput \/ Output \/ NoHangUp
    <3>1. UNCHANGED <<fed, toShell, echoed, tchildOpen>>
          /\ {pc, pc'} \cap {"echo", "write", "handler"} = {}
      BY <2>8 DEF Poll, NoKey, NoOutput, Output, NoHangUp, terminal, pipes, child
    <3> QED  BY <1>1, <3>1
  <2> QED  BY <1>2, <2>1, <2>3, <2>4, <2>5, <2>5a, <2>6, <2>7, <2>8 DEF Main
<1>3. CASE Interrupt
  <2>1. UNCHANGED <<fed, echoed, buffer>>
    BY <1>3 DEF Interrupt, terminal
  <2>2. CASE InterruptDies
    BY <1>1, <2>1, <2>2 DEF InterruptDies, DieOf
  <2>3. CASE InterruptResets
    BY <1>1, <2>1, <2>3 DEF InterruptResets, Reset
  <2>4. CASE InterruptRepeats
    BY <1>1, <2>1, <2>4 DEF InterruptRepeats, pipes
  <2> QED  BY <1>3, <2>2, <2>3, <2>4 DEF Interrupt
<1>4. CASE Type
  BY <1>1, <1>4 DEF Type, terminal, main, pipes, child, FedInv, Sent
<1>5. CASE Shell
  <2>1. UNCHANGED <<echoed, buffer, pc, tchildOpen>>
    BY <1>5 DEF Shell, ShellRead, ShellWrite, ShellExit, ShellSignaled, terminal, main, pipes
  <2>2. CASE ShellRead
    <3>1. /\ toShell \in Seq(Plain) /\ fed \in Seq(Plain) /\ toShell # <<>>
          /\ toShell' = Tail(toShell) /\ fed' = Append(fed, Head(toShell))
      BY <2>2 DEF ShellRead, FedInv
    <3>2. Sent' = Sent
      BY <3>1, MoveHead DEF Sent
    <3>3. toShell' \in Seq(Plain) /\ fed' \in Seq(Plain)
      BY <3>1
    <3> QED  BY <2>1, <3>2, <3>3 DEF FedInv
  <2>3. CASE ~ShellRead
    <3>1. UNCHANGED <<fed, toShell>>
      BY <1>5, <2>3 DEF Shell, ShellWrite, ShellExit, ShellSignaled, pipes
    <3> QED  BY <2>1, <3>1 DEF FedInv, Sent
  <2> QED  BY <2>2, <2>3
<1>6. CASE UNCHANGED vars
  BY <1>6 DEF vars, terminal, main, pipes, child, FedInv, Sent
<1> QED  BY <1>2, <1>3, <1>4, <1>5, <1>6 DEF Next, Terminated, Asleep

\* lab1a.c:153-168: the shell gets the keys in order up to ^C or ^D and nothing
\* behind it, for all sequences of keys and however many SIGINTs close its pipe.
THEOREM TerminalFedIsTyped == Spec => []FedIsTyped
<1>1. Init => FedInv
  <2> SUFFICES ASSUME Init PROVE FedInv
    OBVIOUS
  <2>1. fed = <<>> /\ toShell = <<>> /\ echoed = <<>> /\ pc # "write"
    BY DEF Init
  <2>2. Sent = <<>>
    BY <2>1 DEF Sent
  <2>3. IsPrefix(Sent, echoed)
    BY <2>1, <2>2 DEF IsPrefix
  <2> QED  BY <2>1, <2>2, <2>3 DEF FedInv
<1>2. FedInv => FedIsTyped
  <2> SUFFICES ASSUME FedInv PROVE FedIsTyped
    OBVIOUS
  <2>1. Sent \in Seq(Plain)
    <3>1. fed \in Seq(Plain) /\ toShell \in Seq(Plain)
      BY DEF FedInv
    <3> QED  BY <3>1 DEF Sent
  <2>2. {"^C", "^D"} \cap ToSet(Sent) = {}
    BY <2>1 DEF ToSet, Plain
  <2> QED  BY <2>2 DEF FedInv, FedIsTyped, Sent
<1> QED  BY <1>1, <1>2, InitTypeInv, NextType, NextFedInv, PTL DEF Spec
=============================================================================

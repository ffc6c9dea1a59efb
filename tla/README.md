# A TLA+ model of the COMSCI-111 programs

This directory models and verifies the operating-systems programs of the
repository: TLA+ modules translated from the C sources, TLC configurations that
check them on small instances, and TLAPS proofs for every value of the
constants.  The repository is a set of independent programs, one or more per
`Lab` directory; what they share is code that was copied from one lab to the next.

## 1. Inventory

| Component | State it keeps | Operations | How it interacts | Status |
|---|---|---|---|---|
| `Lab2A/lab2_add.c` | `counter`, `spin` or mutex, per thread the loop index and the value read | `add`, `add_compare_and_swap`, `add_subtract`, creation and joining in `main` | threads share the counter and one lock | `AddCounter` |
| `Lab2B/SortedList.c` (and the identical copy in `Lab2A`) | the `next`/`prev` links of list heads and elements | insert, lookup, delete, length | called by the list programs' threads, with `sched_yield` inside | `SortedList` |
| `Lab2B/lab2_list.c` | `list_num` lists, a lock per list, a global lock, `list_ind`, keys | the three loops of `list_ops`, `main`'s creation, joining and emptiness check | threads share lists and locks; `main` waits for the threads | `ListOps` |
| `Lab1A/lab1a.c` | terminal attributes, two pipes, one buffer, the shell's process id | character echo, shell relay, exit handler, signal handler | terminal, shell process | `TerminalShell` |
| `Lab1B/lab1b-server.c` | socket, two pipes, one buffer, the shell's process id, two ciphers | relay loop, exit handler, signal handler | client over TCP, shell over pipes | `RelayServer` |
| `Lab1B/lab1b-client.c` | socket, one buffer, log buffer and its index, two ciphers | relay loop, exit handler | terminal, server over TCP | `RelayClient` |
| `Lab4C/lab4c_tcp.c` | scale, period, `stop_flag`, period clock | sampling loop, command interpreter, shutdown | server over TCP, sensor, clock | `SensorTcp` |
| `Lab4C/lab4c_tls.c` | the same, and the TLS session | the same, with `SSL_read` in place of `read` | server over TLS | `SensorFronts` |
| `Lab4B/lab4b.c` | the same, and stdio's input buffer | the same, with `scanf` and a button | terminal, file or pipe, sensor, the button's thread | `SensorFronts` |
| `Lab2A/lab2_list.c` | one list, one lock, keys that are freed as soon as they are stored | as `Lab2B/lab2_list.c` | as there | not modelled, see 5 |
| `Lab3A/lab3a.c` | none but the image read | superblock, group, free maps, inodes, directories, indirect blocks | writes the CSV that Lab3B reads | `ImageSummary` |
| `Lab3B/lab3b.py` | block map, inode and link tables, exit flag | block, inode and directory audits | reads Lab3A's CSV | `SummaryAudit` |
| `Lab0/lab0.c` | none | copies its input to its output | files | not modelled |
| `Lab4A` | none | a README and screen shots | none | not modelled |

What is hard in these programs:

* **Lab2A, Lab2B**: interleavings.  An update of the counter is a read and a
  write; an insertion is four writes to three nodes; the option `--yield` makes
  the program give up the processor exactly between them.  Locks, a lock per
  list and a lock for the sum, and compare-and-swap are what keeps this right.
  In `lab2_list` keys repeat, a lookup returns the first element that has the
  key, and so threads delete each other's elements; that every deletion still
  succeeds is a counting argument, not a local one.
* **Lab1A, Lab1B**: two byte streams through one process and one buffer of one
  byte, with end of file, hang-up, signals and exit handlers arriving in any
  order; in Lab1B also a cipher state per direction and end, and a connection
  whose end looks different to each side.
* **Lab4B, Lab4C**: commands that arrive split or joined; a loop whose wait is
  steered by the commands it receives; in Lab4B also a button handled by
  another thread and a buffer between `poll` and `scanf`.
* **Lab3A, Lab3B**: arithmetic and tables: block offsets, ranges, the order of
  the lines of the summary.

What makes each of them correct: lab2_add - exclusion, additions that are
indivisible, a final counter of 0, termination; SortedList - intact sorted
circles whenever nobody is inside an update; lab2_list - exclusion per list, no
failing lookup or deletion, empty lists at the end, sensible lengths,
termination; Lab1 - bytes relayed in order and unmixed, an end after either side
has ended, no shell and, where lab1a exits by itself, no raw terminal left behind; Lab4 - every command
received takes effect once, a full period between samples, an end after `OFF` or
the loss of the server; Lab3 - a summary that lists every block of an inode's
tree once and in its place, no message about a consistent image, and silence only
about an image that keeps the rules of the audits.

## 2. Modules

| Module | Models | Relations |
|---|---|---|
| `CounterParameters` | the number of threads and iterations of lab2_add | |
| `AtomicCounter` | what lab2_add promises with `--sync`: indivisible additions | abstract specification |
| `AddCounter` | `Lab2A/lab2_add.c` | implements `AtomicCounter` |
| `SortedList` | `SortedList.c`, as steps of concurrent agents | operators and state, no specification of its own |
| `ListObject` | what lab2_list promises with `--sync`: indivisible operations on sets | abstract specification |
| `ListOps` | `Lab2B/lab2_list.c` | EXTENDS `SortedList`, implements `ListObject` |
| `SensorText` | the texts of the commands and `process_input` as functions | |
| `SensorCommands` | what the sensor programs promise: each command takes effect once, in order | abstract specification |
| `SensorTcp` | `Lab4C/lab4c_tcp.c` after the connection is up | EXTENDS `SensorText` |
| `SensorFronts` | the same loop fed by TCP, by `Lab4C/lab4c_tls.c`'s TLS or by `Lab4B/lab4b.c`'s standard input and button | EXTENDS `SensorTcp`, implements `SensorCommands` |
| `ImageSummary` | `Lab3A/lab3a.c`: the lines of an image; and an image's trees of blocks without the program | operators, no specification of its own |
| `SummaryAudit` | `Lab3A/lab3a.c` followed by `Lab3B/lab3b.py` | EXTENDS `ImageSummary` |
| `TerminalShell` | `Lab1A/lab1a.c` | |
| `RelayWires` | the connection between Lab1B's programs, and the ciphers | |
| `RelayServer` | `Lab1B/lab1b-server.c` and its shell | EXTENDS `RelayWires` |
| `RelayClient` | `Lab1B/lab1b-client.c` and its user | EXTENDS `RelayWires` |
| `Relay` | both ends together | EXTENDS `RelayServer`, `RelayClient` |
| `MC...` | bounded instances | |
| `AtomicCounter_proofs`, `AddCounter_proofs`, `ListObject_proofs`, `ListOps_proofs`, `SensorFronts_proofs`, `SummaryAudit_proofs`, `TerminalShell_proofs`, `Relay_proofs` | theorems | |

Definitions marked `Fault:` are ways in which a definition could go wrong.  They
are no part of any specification: replacing the definition by its fault makes
TLC report the property violated that PROJECT.json names under `mutants`, which
shows that the property can tell.

### Granularity

Lab2: a step is one C statement that touches shared memory.  Tests of a thread's
own variables (loop indices, keys, which never change after creation) belong to
the step that follows them.  `sched_yield()` between two such statements is a
stuttering step, so that the model covers every `--yield` option at once.
Memory is sequentially consistent.  Within a lock that is what the locks give;
in the unsynchronised runs it is one of the behaviours a build can have.  The
mutex of `--sync=m` and the spin word of `--sync=s` are both one bit: a failing
`__sync_lock_test_and_set` writes the 1 that is already there, and a thread
blocked on a mutex does not move.  Two writes to the memory of a node that
nobody else can reach yet (`element->next`, `element->prev`) are one step.

Lab1 and Lab4: a step is a call of `poll`, or the handling of one of its events
up to the next system call that waits (`waitpid`).  What other processes do falls
between these steps; what `poll` found is kept (`revents`, `srevents`,
`crevents`) and may be out of date when it is used.

### `AddCounter`

`counter` is the shared `long long`, `lock` the mutex or `spin`, `old[t]` the
value thread `t` read, `i[t]` and `value[t]` its loop index and whether it is in
the loop of additions or of subtractions; `created` and `joined` are `main`'s
indices, `status` the exit status, and `opt_sync` the option, chosen in `Init`.
`Lock`, `Read`, `Write`, `CompareAndSwap`, `Unlock`, `SecondLoop` and `Return`
are the statements of `add_subtract`; `Create`, `CreateFails`, `Join` and
`Report` those of `main`.

### `SortedList` and `ListOps`

Nodes are numbers: elements from 0, list heads below 0.  `next` and `prev` are
the links, `NULL` what `malloc` left in a new element.  `cur[a]` is `current`
(in delete: the element), `cnt[a]` is the count of the length operation, which
stops at `MaxCount`, one more than the number of elements, because a walk over a
corrupted list may never end.  A key is a number whose order is that of
`strcmp`; `FirstChar` gives the first character that selects the list.  The
keys are chosen nondeterministically in `Init`, so equal keys occur.

`ListOps` adds `lock[l]`, `global`, the loop indices and `list_len`.  The
`Begin...` actions are a loop test together with the acquisition of the lock,
the `End...` actions the release and the increment; between them the thread is
inside `SortedList`'s steps.  `Fail` is the `exit(2)` of `lookup_and_delete`.
`main` creates, joins, and walks every list without locks at the end.

### `SensorText`, `SensorCommands`, `SensorTcp` and `SensorFronts`

A text is a sequence of pieces, words such as `STOP` or single bytes, so that a
read can end inside a line.  `DropLast` is the terminator written over the last
byte, `ScaleAfter`, `PeriodsAfter`, `StopAfter` and `IsOff` are the tests of
`process_input`; `PeriodsAfter` is a set because `temp_buff` keeps one
uninitialised byte behind the digits (`StaleDigits`).  `SensorTcp` has the
sampling loop: `Sample`, `End` (the second `time()`), `Leave`, `Idle`,
`Receive`, `ReceiveEnd` (a read of 0 bytes at the end of the stream, after which
the old text is processed again) and `ReceiveError`.  `age` is the time since
`period_start` and `seen` the time as `period_end` has it; the clock stops at
`MaxAge`, past every period that can be set.  `Write` is a `dprintf` to the
socket: on a connection that the server has closed the first is answered by a
reset and the next is a SIGPIPE.

`SensorFronts` chooses in `FrontInit` where commands come from (`front`): the
socket of `lab4c_tcp`, the TLS connection of `lab4c_tls`, or for `lab4b` a pipe, a
file or a terminal as standard input.  `held` is what OpenSSL or stdio has taken
from the descriptor and the program has not seen; `poll` does not see it.
`TlsLine` reads up to a line feed and leaves the rest of the record in `held`; the
end of the record may be anywhere behind it.  `TlsPart` runs out of bytes first
and interprets the part, with the old bytes of `buff` behind it (`StaleTexts`), or
`buff` as it was.  `Scan` is `scanf("%s")`: a word that is in `held` or in what a
read gets (`Arrived`), or else the wait inside `scanf` (`pc = "scanf"`), which for
a file is its end.  `ReadButton` is `mraa_gpio_read` in `main`'s loop, `Isr` the
interrupt thread that runs `shutdown`.  In `SensorCommands`' terms a word of `lab4b` is a line, and
`LOG ` none, because `scanf` ends words at spaces.

### `ImageSummary` and `SummaryAudit`

An image has the numbers of free blocks and inodes, the inodes (type bits, link
count, `i_block`) and what each block holds, as pointers and as directory entries.
The sizes are constants, so that `NDir`, `PerBlock` and `Bits` stand for 12, 256
and 8192.  `Summary` is `lab3a`: the free blocks, the free inodes, then per inode
its line, its directory's entries and its indirect blocks; `IndirectBlock` is the
recursion, as a function of level, block and offset, with the running sum of
`lab3a.c:134-143` in `OffsetAt`.  A line is a record of the fields that `lab3b`
reads.  The second half of the module says what an image's blocks are without the
program: a path is a slot of `i_block` and an index per level, `BlockAt` the block
at its end, `Position` its place in the file.

`SummaryAudit` runs `lab3a` (`Summarise`) and then the audit.  `check_summary`
depends on the order of the lines and is a step per line, and per block of an
`INODE` line; `block_dict`, `exit2_flag` and `printed` are its state.
`inode_audit` and `directory_audit` read the file twice and are each one step;
the tables they fill are operators (`ParentDir`, `DirCount`, `ListLinks`).
`lab3a` prints the 32-bit numbers of blocks and inodes with `%d`, so that an image's
numbers may be negative here.  The inode of an entry is then used as an index from
the end of the audit's lists (`Cell`), or is no index at all (`Breaks`), and the
second pass over the file breaks off at that line (`Reached`, status `traceback`).
`Consistent` is what a consistent image is, said of the image alone.

### `TerminalShell`

`EchoRead` is the loop without `--shell`, which reads up to 256 bytes and handles
the first.  `Poll`, `ReadKey` with `CtrlC`, `CtrlD` or `RelayKey`, `WriteKey`,
`Output` and `HangUp` are the relay loop; `WriteKey` waits while the pipe is full.
`Reset` and `Wait...` are the exit handler (`callers`).  `raw` is the terminal's mode.

The documented option installs no signal handler: `lab1a.c:243` gives `--shell` a
flag, so that `getopt_long` returns 0 and `case 's'` (251-254) does not run.  A SIGINT,
or the SIGPIPE for a key whose shell has ended, then ends lab1a at once
(`InterruptDies`, `DieOf`), with the terminal raw and the shell not waited for.
Only `-s`, which the usage message does not name, reaches that case; `handled` says
that it was given, and `Init` chooses it apart from `shell_flag`.  With a shell the
handler sends it SIGINT and resets (`InterruptResets`), and the loop goes on at
`resume` if the shell died of the signal; without one it signals lab1a itself for
ever (`InterruptRepeats`).

The user types any of `Scripts`; the shell reads, and at the end of a line writes
some of `Outputs`, exits, or dies of a signal.

### `RelayWires`, `RelayServer`, `RelayClient` and `Relay`

A byte on the connection is the character with the number of the use of the
cipher that encrypted it; decrypting it with any other use may give any byte
(`Garbage`).  That is all the properties need from the cipher.  An end that
closes its socket with bytes unread resets the connection, otherwise the other
end sees the end of the stream; a write to an end that is gone is answered by a
reset at once, as over the loopback interface.  A read of 0 bytes leaves the old
byte in `buffer`, which both programs then treat as if it had just arrived
(`DecodeAgain`, `ReceiveEnd`, the `fresh` field of the bytes in `toShell`).
`--log` is always given, `--encrypt` is chosen in `Init`.

`RelayServer` has the same shape as `TerminalShell`, with the connection in
place of the terminal; `FromConnection`, `ToConnection` and `ServerHangUp` are
the three branches of the loop.  A second release of a cipher may crash the
process (`EndsTwice`, `ToClosedConnection`).  `RelayClient` has `SendKey`,
`Receive` and `ClientHangUp`; `Flush` and `Log` write the `RECEIVED` lines of the
log, with the bytes they really write.  `Place` counts the bytes that belong into it.
The server's write to its shell waits while the pipe is full, as the shell's does:
`Clogged` is the state in which each waits for the other.

## 3. Runs

| Run | Instance | Shows |
|---|---|---|
| `add` | 3 threads x 2, every `--sync` | exclusion; with `--sync` indivisible additions and a final 0; without, updates are lost but never invented; termination |
| `list_object` | 2 x 2, 2 lists, 3 keys | the counting argument of the abstract lists |
| `list` | 2 x 2, 2 lists, 2 keys on one of them, `--sync=s` | exclusion, intact lists, no failure; `ListOps` implements `ListObject`; termination |
| `list_unsynchronised` | 2 x 1, 2 lists, 3 keys, no `--sync` | elements are lost and deletions fail, but no uninitialised pointer is followed |
| `list_length_check` | 2 x 1, 1 list, no `--sync` | violation: length's check, see 6 |
| `sensor_lines` | `front` any of five; up to 2 whole lines (8 kinds first, 3 second), joined or not except for TCP; period 2, clock to 2 | `SensorFronts` implements `SensorCommands`; a full period between samples; an `OFF` within reach ends the program, and so does a button that is held down |
| `sensor_stream` | TCP, TLS and a pipe; up to 2 of 5 commands, in any pieces; old bytes in both buffers; period 2, clock to 3 | what is processed again has no effect; a reporting program without a server ends; reports go on unless `scanf` waits |
| `sensor_joined` | `SCALE=C` and `OFF` in any pieces | violation: `OFF` joined to another command, see 6 |
| `terminal` | up to 3 keys of 4 kinds, and `Enter`, two keys and `^C` or `^D`; 2 bytes of output, pipes of one byte, up to 2 SIGINTs; with and without `--shell` and `-s` | streams in order and unmixed, nothing after `^D`, every exit is clean, and `^C`, `^D`, the shell's end and a SIGINT end lab1a and its shell, unless both pipes are full |
| `terminal_output` | `Enter`, `^D` | violation: output dropped at the end, see 6 |
| `audit` | 24000 images of 11 blocks and 16 inodes, consistent and not | the tree of blocks is listed, the exit status tells the blocks unless a number breaks the audit off, silence and consistency agree, unreferenced blocks and sharers are reported |
| `relay` | up to 2 keys of 4 kinds, and `Enter`, two keys and `^C`; a line of output, pipes of one byte, up to 1 SIGINT to the server, a client killed at any moment, with and without encryption | streams in order, ciphers in step, old bytes only behind a closed end, the log's lines right, no shell left behind, and both ends end, unless server and shell wait for each other |

Why these bounds.  Two threads suffice for a lost update and for every
half-written node; three let two of them wait while the third works, and let a
compare-and-swap see its old value again after two others have changed it twice.
Two elements per thread give a thread a first and a later iteration and let
another thread take one of its elements while it still owns another.  Three
keys, two of which share a list, give equal keys, different keys of one list,
and keys of different lists; the `list` run has two keys on one list and an
empty second list, which gives two locks and a length that is added up over
several.  Four elements in a list cover insertion at the front, in the middle
and at the end, next to an equal key.  The instances without a lock are the
smallest in which an operation of one thread falls inside one of another.  Two
lines suffice for one that OpenSSL or stdio holds back behind another; the first
lines include a blank one, `LOG STOP`, and every line that steers the loop, and
the second those that still matter then.  A period of 2 with a clock to 2
separates waiting from being due; with a clock to 3 the stream run also sees a
sample that is late, and lets `PERIOD=0` be read as `PERIOD=01` through the
uninitialised byte.  The images have two direct pointers and three pointers per
block, the fewest with which the running sum of `lab3a.c:134` differs from an
entry's place (the third, if the second is used); one file reaches the double
and another the triple indirect block, so that every level of the recursion is
walked.  The blocks fought over are free or not, reserved (6), behind the end
(11), negative, used twice within an inode and by two.  The second half has a
subdirectory whose entries, link counts and own `.` and `..` may be wrong, the
last inode, which the audit leaves out, a free bit behind it (17), and entries with
negative inodes: -6 counts for inode 11, -17 is the last index that a list has and
-18 the first that it has not.  Three keys are a byte in flight, a key that ends the
input and a key after it; a second SIGINT meets a shell that was already waited for.
A pipe of one byte is both empty and full within two bytes, and the scripts of four
keys fill both pipes: the shell writes the output of a line while the keys behind it
fill its input and the last of them waits in the connection or the terminal.

`CHECK_DEADLOCK FALSE` stands only in the run of the abstract lists, which stop
when every operation is done; the programs' own ends are modelled by
`Terminated` (and `Asleep`, a read of the terminal that nobody answers), so that
a stop anywhere else is reported as a deadlock.

Fairness.  Lab2's `FairSpec` gives every thread weak fairness of its next step,
and `main` of everything but the failure of `pthread_create`: the kernel runs
every runnable thread sooner or later.  No strong fairness is assumed for locks:
each thread takes its locks finitely often, so a spinning thread meets a free
lock in the end.  In `SensorTcp` and `SensorFronts` the process runs and the
clock ticks (weak fairness of `Main`, or `Programs`, and of `Tick`); nothing is
assumed of the thread in which mraa calls the handler of the button (`Isr`), so that
`HeldButtonEnds` rests on `main`'s own read of it.  Strong
fairness of `End` at age 0 says that the two calls of `time()` do not fall into
different seconds in every round, without which a period of 1 would never let
the program read.  Nobody promises to send a command, to close a connection or
to press the button.  `SummaryAudit` needs no fairness: it has only safety
properties.  In `TerminalShell` and `Relay` each process and the shell run (weak
fairness of `Main` and `Shell`, of `Client`, `Server` and `Shell`); the user,
the signals and the peer's disconnection are never promised.

## 4. Proofs

Checked by TLAPS for every value of the constants that `CounterAssumption`,
`ListAssumption`, `OpsAssumption`, `ObjectAssumption`, `SensorAssumption`,
`TextAssumption`, `FrontsAssumption`, `ImageAssumption`, `SummaryAssumption`,
`TerminalAssumption`, `ClientAssumption` and `ServerAssumption` allow: positive numbers of threads,
iterations and lists, for the lists an order of the first characters that agrees
with that of the keys, and images made of numbers and names (`ImageType`): any
bit maps, inodes, pointers and entries, consistent or not.

* `AtomicCounter_proofs`: `TallyInvariant` - the counter is the number of
  additions minus the number of subtractions done.  One `Add` extends exactly
  one of the two sets by one element; the sets are finite because they are
  subsets of threads times iterations.
* `AddCounter_proofs`: `AddTypeCorrect`, `AddMutualExclusion`,
  `AddImplementsAtomicCounter`, `AddFinalCounterZero`, `AddLossIsBounded`.  The inductive invariant
  `IInv` adds to the types and the exclusion that each thread's indices fit its
  place in the loops (`LoopsInOrder`), that `main` joins only threads that have
  returned (`MainInOrder`), and that a lock holder about to write has read the
  present `counter` (`ReadIsFresh`).  The last makes `Write` an indivisible
  addition; for compare-and-swap the comparison does.  The tally then carries
  over (`SpecTally`): every abstract step keeps it by `TallyStep`, and after the
  joins all additions and subtractions are done, so that the counter is 0.
  `AddLossIsBounded` holds without a lock too: a sum about to be written was made
  of a counter within the bounds (`LossInv`), the writing moves the bound on its
  side by one, and no bound ever moves back.
* `ListObject_proofs`: `ObjectKeysBalance`, `ObjectNeverMisses`,
  `ObjectEndsEmpty`, `ObjectMeasuresOwn`.  The inductive invariant is `TypeOK`
  with `ClassesBalance`: for every set of elements closed under equal keys, as
  many are present as were inserted and not consumed.  Stated for all such sets
  and not key by key, it gives `KeysBalance` and `EndsEmpty` as instances and can
  be added up over the keys of a list.  A pending deletion is an insertion not
  yet consumed, so its key has an element present.  `MeasuresOwn` needs besides a
  bound on the running total by the lists already measured (`TotalBounded`).
* `ListOps_proofs`: `ListTypeCorrect`, `ListNoWildPointers`,
  `ListMutualExclusion`, from `IInv`: types, indices, `LinkInv` and exclusion.
  `LinkInv` does not mention locks: a link only ever receives a node whose own
  links are already written, and a walk only ever stands on such a node.  That is
  why these theorems hold without `--sync`.
  `ListKeepsListsIntact`, `ListImplementsObject` and `ListNeverFails` have
  `Locking`, that is `--sync=m` or `s`, as their hypothesis; without it the run
  `list_unsynchronised` shows the list broken.  They rest on `ListInv`, `IInv` with
  two more parts.  `LoopInv`: a thread's index in its insert and delete loops has the
  thread's number as its rest, so that each element has one owner, and `main` checks
  the lists only when all threads have returned.  `RingInv`: the nodes of each list
  are a circle, a function `r` from positions to nodes with the head at both ends
  and ascending keys between, along which `next` leads; `prev` leads back along it
  but at the one position an update is about to mend; and the thread that holds
  the list stands where its statement assumes (`Stands`: all keys passed are
  smaller, or unequal to the one looked up; the neighbours of a new element are
  adjacent; `cnt` is the position).  Only the holder of a list moves its circle
  (`ThreadMovesRing`), because the nodes of different lists are different
  (`OfListsDiffer`).  `Chain`, the walk of the properties, is a recursive
  function; that it meets exactly the elements of the circle (`CircleIsChain`) is
  an induction over the length of the walk, made with a set of numbers and the
  well-foundedness of `<` (`SetInduction`).  The refinement follows: the elements
  on the lists change only when `next` of a predecessor is written
  (`PresentStep`), and what is counted at the head is the size of the chain
  (`CountIsLength`).  `ListNeverFails` carries the object's balance over to the
  program (`NextBalanced`): a lookup back at the head would have passed every
  element of its list, and the balance says that one of them has its key
  (`LookupFinds`); the comparison of `SortedList_delete` succeeds on a circle
  (`CheckPasses`); and when all deletions are done the chains are empty
  (`ListsEndEmpty`).
* `SensorFronts_proofs`: `FrontsQuietIsNoCommand` - whichever of the three
  programs runs and whatever its buffers held before, where nothing is left to read
  processing `buff` again changes neither scale nor `stop_flag`.  The invariant
  (`LastIsDone`) says that scale and `stop_flag` already are what the last text
  makes of them (`ProcessTwice`: a text done twice is done once); every text that
  is obeyed becomes the last one, and a step that obeys anything else had something
  to read (`NothingInNothing`).
* `SummaryAudit_proofs`: `TreeListed`, `ExitStatusTold`, `UnreferencedReported` and
  `SharersReported`, for every set of images and every size of the file system and
  its blocks; `ConsistentNotBlamed` and `SilentNotInconsistent`, for every set of
  images whose directories are plain ones.
  What `lab3a` writes is `SummaryListed`: the lines of an image stand one to one for
  its items (free blocks, free inodes, inodes, entries, blocks below an indirect
  block), a relation (`Listed`) that concatenation, flattening and `SelectSeq`-like
  loops keep (`ListedConcat`, `ListedFlatten`, `ListedSome`).  For `indirectBlock`
  it is carried up level by level (`IndirectListed`): the lines of an entry stand
  for the indices that lead on from it, and `OffsetIsPlace` compares the running sum
  of the code with the place of the entry.  What the recursive functions compute
  for sequences of any length is shown by an induction over a set of numbers
  (`SetInduction`, `Recursion`).  `TreeListed` is this about the file of an audit
  that has ended (`FileTellsTree`).
  In `check_summary`, what `block_dict` knows is exactly what the lines read so far
  mention (`KnowsPassed`), and nothing is called unreferenced before the last line.
  For `SharersReported`, the user of a block who is in `block_dict` is the only one
  so far of whom no message speaks (`Remembered`), so that the next user names both.
  For `ExitStatusTold`, the audit breaks off exactly for the images with a bit or an
  entry that makes it (`BrokenExact`: an entry's line is in the file exactly if no
  block of its directory before it is 0), and `exit2_flag` is 0 exactly while the uses passed are of
  different data blocks that are not free (`FlagTells`); a use is compared with all
  free blocks because their lines come first (`FreeFirst`, `KnownAs`), and since
  uses stand one to one for references (`UsesAreReferences`), the file is right
  exactly if the blocks of the image are consistent (`FileTellsBlocks`).
  Plain directories (`PlainDirectories`) are the only inodes in use that `lab3a`
  calls directories, and none of their blocks comes behind a gap.  Two kinds of
  image are left out: one where a block device, whose type bits include those of a
  directory (`lab3a.c:168`), is read as one, and one with entries behind a block of
  a directory that is 0, where the code stops reading.  Every image of the run is
  plain.  For such images the `DIRENT` lines stand one to one for the entries
  (`LinesAreEntries`), so that what the audit counts (`CountExact`), and the parent
  it takes from the last line that names a directory (`ParentExact`), are those of
  the image.  The invariant is `SilenceTells`: after each audit something is
  printed exactly if `exit2_flag` is set or what has been audited is wrong.  That
  the lines are right means that the entries of the audited directories are
  (`RightIsConsistent`); the converse needs that no directory has two names
  (`ConsistentIsRight`).
* `TerminalShell_proofs`: four theorems for every script of keys, every output, size
  of the pipes and number of SIGINTs, with and without `--shell` and `-s`.  All rest
  on `Found`: what `poll` found is still there when it is read, and the exit handler
  runs with both pipes closed and the terminal restored.
  `TerminalLeavesNothingBehind`: `NothingBehind` follows the shell's end to `reaped`;
  an end by a signal leaves both behind, and happens only without the handlers.
  `TerminalEchoIsOfTyped`: the keys not yet read are the rest of what was typed, and
  what was shown was picked from the part before them (`EchoInv` keeps the
  positions).  `TerminalShownIsOutput`: unless the handler of a SIGINT closes the
  pipe, what was shown followed by what is in the pipe is what the shell wrote
  (`OutInv`).  `TerminalFedIsTyped`: what the shell read followed by what is in its
  pipe, and by the key about to be written, is all that was shown while the pipe is
  open, and a front part of it afterwards (`FedInv`).
* `Relay_proofs`: five theorems for every script of keys, every output, size of
  the pipes and number of SIGINTs.  `RelayLeavesNoShell`: the invariant
  (`WaitedFor`) is that a server without a connection is waiting for its shell or
  has waited.  `RelayRepeatsOnlyAtEnd`: `RInv` relates what `poll` found to what
  is still there - an input that `poll` saw and that is empty when it is read can
  only mean that the other end has closed - and carries into the pipe whether a
  byte is a fresh one.  `RelayShownIsOutput`: `OutInv` lays the bytes shown, those
  on the connection and those in the pipe end to end along the shell's output,
  with the n-th byte encrypted by the n-th use of the cipher; it holds for the
  pipe while both processes run, for the connection while the client does, and for
  what is shown always.  `RelayFedIsTyped` is its counterpart in the other direction,
  and no mirror image: the server closes its pipe at `^C` and `^D` and reads on, and
  the last byte of a client that is gone may be relayed again.  `InInv` says that
  while the server's end is open the connection holds the keys after those taken,
  each at its use of the cipher (`UpInv`); that while the pipe is open no key taken
  ended the input, and all are read or in the pipe (`TakenInv`); and that the pipe
  holds the next keys, with old bytes only behind them (`FedInv`).
  `RelayLinesAreLogged`, an action property: every byte that belongs into the log has
  its place in it, and one whose place is behind what was written is kept as it came
  (`LogInv`); a flush leaves no place free, whatever it writes, and the end of a line
  writes what was kept.  That a byte is kept as it came rests on `OutInv`: the
  decrypted byte is the one the cipher's same use made of it.

`ListTypeCorrect` and `AddTypeCorrect` are listed without a run: types are what
the other proofs start from, and no run spends a property on them.

Only model-checked: the refinement of `SensorCommands` and `SamplesSpaced`
(the first rests on folds over the text, the second on the type of the number that
a fold reads); and every liveness property
(`Termination`, `OffInReachIsHonoured`, `HeldButtonEnds`, `ReportsAgain`,
`EndsWithoutServer`, `KeysEnd`, `ServerEnds`, `KeyEndsClient`), which is out of the
prover's reach.

## 5. What is left out, and why

* Everywhere: option parsing, usage messages, timing, and the wording of reports.
* lab2_add and lab2_list: the arithmetic of the report line (`operations` is an
  `int` product that can overflow, and is 0 for 0 iterations); `--lists=0`;
  failures of `pthread_join` and `clock_gettime`; the lock timing of `lab2_list`.
  `check_length` exits when the length is -1, which `SortedList_length` never
  returns for a list it is given.  The `NULL` tests at the head of the list
  operations are unreachable from these callers.  The handler for `SIGSEGV` only
  prints and exits.
* `Lab2A/lab2_list.c`: its threads free each key as soon as it is stored
  (`lab2_list.c:82`), so that every later comparison reads memory that `malloc` may
  have given away.  Keys that can change at any time leave no order, no successful
  lookup and no empty list to state; its one lock around each operation is
  `ListOps` with one list.
* lab4b, lab4c_tls: the log, options, the TLS handshake, a closed standard output.
  `buff` before the first read is taken to be empty, and no text to be longer than
  its 25 bytes; in lab4b a word is at most that long too.
* lab3a, lab3b: times, owners, sizes and the superblock's and group's lines, of
  which the audit uses the numbers that are constants here; images that cannot be
  read, a directory entry of length 0 (`lab3a` would not end); `lab3b` takes the
  inode table to begin at block 5, which `TableBlock` stands for; trees of blocks
  that contain themselves are cut off by the level, as in the code.
* lab4c_tcp: connecting and the first `ID=` line, the temperature formula, the
  log file (it receives what the socket does).
* lab1a, lab1b: failing `poll`, `fork`, `exec` and `pipe`; the display of line
  ends; in lab1b-server a SIGINT that arrives while the exit handler already runs, in
  lab1a one inside the handler of another; in the
  client the `SENT` lines of the log, and what the log receives when the old byte
  is shown again at the end of the stream; connecting, and reading the key.
* Lab0 copies bytes sequentially and keeps no state; Lab4A has no program.

## 6. Findings

Runs that end in a violation:

* `list_length_check`: `SortedList.h:71-76` says length checks all pointers and
  returns -1 for a corrupted list.  `SortedList.c:90` follows `next` only.  It
  shows only without `--sync`: with the locks, `ListsIntact` says there is never
  a corrupted list to detect.
* `sensor_joined`: one read is taken for one command, so commands that TCP joins
  match nothing, and an `OFF` among them never ends the program
  (`lab4c_tcp.c:279-290`).
* `terminal_output`: when the shell ends with output left in its pipe, `poll`
  reports data and hang-up together; one byte is shown and `exit(0)` drops the
  rest (`lab1a.c:170-186`).

Seen while modelling, and part of the models, but without a run of their own:

* `SortedList.c:46` compares the neighbours' pointers with each other, not with
  the element as `SortedList.h:46` says, so that an element deleted from a list it
  was alone in can be deleted again (only without `--sync`).
* `lab4c_tcp.c:106` terminates `temp_buff` one byte too far; `atoi` reads an
  uninitialised byte, and `PERIOD=1` may set a period of 10.
* `lab4c_tcp.c:271`: with a period of 0 the only loop that reads commands is never
  entered again, so that no command, `OFF` included, is obeyed any more.
* `lab4c_tls.c:313`: `poll` asks the socket, not the TLS session, so that the
  second line of a record waits until more arrives, an `OFF` included; the end of
  the connection lets it through.
* `lab4b.c:235`: `scanf` takes what a pipe holds into stdio's buffer and returns a
  word, so that one word is obeyed per arrival; at a blank line it waits for a word
  and no report is made until one comes, while the button's thread still ends the
  program (and both it and `main` may be in `exit` at once).  A redirected file is
  always ready, and is read to its end.
* `lab4b.c:235`: `LOG STOP` is two words, the second of which stops the reports.
* `lab3a.c:134`: the offsets of the blocks behind the second entry of an indirect
  block are too large; `TreeIsListed` therefore speaks of them up to that.
* `lab3a.c:168`: a symbolic link has the bit of a regular file, and its text is
  read as block numbers; a block device has the bit of a directory.
* `lab3b.py:134` leaves the last inode out, and link counts are compared for
  directories only; a directory with two names is not noticed, and a reserved inode
  in use is reported to have 0 links because no entry names it.  `lab3b.py:130` fails with an
  `IndexError` when a bit behind the last inode is clear.  `lab3b.py:187` skips inodes
  that are too large but not negative ones, which `lab3a.c:253` makes of those from
  2^31 on: `lab3b.py:189` then counts the entry for another inode, or fails with an
  `IndexError`.  The exit status is 2 for
  messages about blocks only (`lab3b.py:219`).
* `lab1a.c:114` reads up to 256 keys and handles the first; the others are lost.
* `lab1a.c:243`: with `--shell` the signal handlers of 252-253 are never installed,
  because `getopt_long` returns 0 for an option that has a flag.  A SIGINT, or a key
  written to a shell that has ended, ends lab1a with the terminal raw.
* `lab1a.c` (with `-s --shell` only) and `lab1b-server.c`: if the shell dies of the
  SIGINT passed on to it, the handler returns and the loop goes on with closed
  descriptors.  The server then does nothing more until a second SIGINT.
* `lab1b-server.c:124, 128` and `lab1a.c:162, 167`: the write to the shell waits while
  its pipe is full.  If the shell at that time waits to write to its own full output
  pipe, which only the same loop empties, neither goes on and no key, `^C` included,
  is read any more.  `ServerEnds` and `KeysEnd` are violated without `[]Clogged`.
* `lab1b-client.c:234`: after the server's orderly end every round of the loop
  shows the last byte again, until a key is typed; the key's SIGPIPE can end the
  client without its exit handler, and the terminal stays raw.
* `lab1b-client.c:190` writes `ind` bytes from `buffer`, which holds one, and not
  from `log_buffer`: a line interrupted by a key is not logged as it was received,
  although `Lab1B/README:6` says of `--log` that it logs all data received and sent.
  Line feeds that arrive in the clear are not logged at all (`lab1b-client.c:254`).
  `LinesAreLogged` therefore speaks of the bytes since the last flush.

## 7. Plan

1. An abstract specification of the relay, two streams cut off at an end key, and
   `Relay` and `TerminalShell` shown to implement it.
2. Proofs: that the loop of `SensorFronts` implements `SensorCommands`, by an invariant about the pieces of
   the text a fold has read.

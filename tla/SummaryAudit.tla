---------------------------- MODULE SummaryAudit ----------------------------
(* Lab3A and Lab3B in sequence: lab3a.c writes the summary of an image, and  *)
(* lab3b.py audits its lines, first blocks, then inodes, then directories.   *)
(* Only the audit of the blocks depends on the order of the lines; it is a   *)
(* step per line and block, the two others are a step each.                  *)
EXTENDS ImageSummary

CONSTANT Images  \* the images that may be audited

\* The fields of a line that lab3b.py reads.
Line == [kind : {"BFREE"}, block : Int]
   \cup [kind : {"IFREE"}, inode : Int]
   \cup [kind : {"INODE"}, inode : Nat \ {0}, type : {"f", "d", "s", "?"}, links : Int,
         block : [Slots -> Int]]
   \cup [kind : {"DIRENT"}, dir : Nat \ {0}, inode : Int, name : STRING]
   \cup [kind : {"INDIRECT"}, inode : Nat \ {0}, level : 1..3, offset : Int, block : Int]

\* An image is made of numbers and names.  lab3a prints the 32-bit numbers of blocks
\* and inodes with %d: from 2^31 on they are negative here.
ImageType(img) ==
  /\ img.free_blocks \subseteq 1..Bits
  /\ img.free_inodes \subseteq 1..Bits
  /\ img.inode \in [1..NumInodes ->
                       [mode : SUBSET Nat, links : Nat, block : [Slots -> Int]]]
  /\ \A b \in DOMAIN img.pointers : img.pointers[b] \in [1..PerBlock -> Int]
  /\ \A b \in DOMAIN img.entries : img.entries[b] \in Seq([inode : Int, name : STRING])

ASSUME SummaryAssumption == \A img \in Images : ImageType(img)

VARIABLES image,
          file,        \* the lines of the summary
          pc,          \* the part of the programs that is next
          pos, slot,   \* the line the block audit is at, and the block in it
          block_dict,  \* block_dict[b] = <<inode, level>>, the user of block b
          printed,     \* the messages
          exit2_flag,
          status       \* "running", or how lab3b ended

vars == <<image, file, pc, pos, slot, block_dict, printed, exit2_flag, status>>

FREE == <<0, 0>>

Init == /\ image \in Images
        /\ file = <<>>
        /\ pc = "lab3a"
        /\ pos = 1
        /\ slot = 1
        /\ block_dict = <<>>
        /\ printed = {}
        /\ exit2_flag = 0
        /\ status = "running"

\* lab3a's main.
Summarise == /\ pc = "lab3a"
             /\ file' = Summary(image)
             /\ pc' = "blocks"
             /\ UNCHANGED <<image, pos, slot, block_dict, printed, exit2_flag, status>>

-----------------------------------------------------------------------------
(* check_summary().                                                          *)

\* free_inode: the first block behind the inode table.
FreeInode == TableBlock + NumInodes \div InodesPerBlock
DataBlocks == FreeInode..(NumBlocks - 1)

\* block_error(): the messages; it returns True if there is none.
BlockError(level, b, n) ==
  CASE b > 0 /\ b < FreeInode -> {<<"RESERVED", level, b, n>>}
    [] b < 0 \/ (b >= FreeInode /\ b > NumBlocks - 1) -> {<<"INVALID", level, b, n>>}
    [] OTHER -> {}

Known(b) == b \in DOMAIN block_dict
Dict(b, user) == [x \in {b} \cup DOMAIN block_dict |-> IF x = b THEN user ELSE block_dict[x]]

\* Fault: only the second user is named.
ConflictOfSecond(level, b, n) ==
  IF block_dict[b] = FREE THEN {<<"ALLOCATED BLOCK", b>>} ELSE {<<"DUPLICATE", level, b, n>>}

\* The messages about a block that is in block_dict already.
Conflict(level, b, n) ==
  IF block_dict[b] = FREE
  THEN {<<"ALLOCATED BLOCK", b>>}
  ELSE {<<"DUPLICATE", block_dict[b][2], b, block_dict[b][1]>>, <<"DUPLICATE", level, b, n>>}

\* Fault: only blocks of inodes are recorded, not those of indirect blocks.
RecordedDirect(level, b, n) ==
  IF BlockError(level, b, n) = {} /\ level = 0 THEN Dict(b, <<n, level>>) ELSE block_dict

\* Inode n has block b, if the block may be used.
Recorded(level, b, n) ==
  IF BlockError(level, b, n) = {} THEN Dict(b, <<n, level>>) ELSE block_dict

\* Fault: the messages do not set exit2_flag.
PrintOnly(messages) == printed' = printed \cup messages /\ UNCHANGED exit2_flag

PrintFatal(messages) == /\ printed' = printed \cup messages
                        /\ exit2_flag' = IF messages = {} THEN exit2_flag ELSE 1

AtLine(kind) == /\ pc = "blocks"
                /\ pos \in DOMAIN file
                /\ file[pos].kind = kind

NextLine == pos' = pos + 1 /\ UNCHANGED <<image, file, pc, status>>

FreeLine == /\ AtLine("BFREE")
            /\ block_dict' = Dict(file[pos].block, FREE)
            /\ NextLine
            /\ UNCHANGED <<slot, printed, exit2_flag>>

\* A block of i_block: the first user is recorded, if the block may be used.
InodeBlock ==
  /\ AtLine("INODE")
  /\ slot \in Slots
  /\ LET n == file[pos].inode
         b == file[pos].block[slot]
     IN  /\ b # 0
         /\ IF Known(b)
            THEN PrintFatal(Conflict(Level(slot), b, n)) /\ UNCHANGED block_dict
            ELSE /\ PrintFatal(BlockError(Level(slot), b, n))
                 /\ block_dict' = Recorded(Level(slot), b, n)
  /\ slot' = slot + 1
  /\ UNCHANGED <<image, file, pc, pos, status>>

InodeNoBlock == /\ AtLine("INODE")
                /\ slot \in Slots
                /\ file[pos].block[slot] = 0
                /\ slot' = slot + 1
                /\ UNCHANGED <<image, file, pc, pos, block_dict, printed, exit2_flag, status>>

InodeLineDone == /\ AtLine("INODE")
                 /\ slot \notin Slots
                 /\ slot' = 1
                 /\ NextLine
                 /\ UNCHANGED <<block_dict, printed, exit2_flag>>

\* A block of an indirect block: the last user is recorded.
IndirectLine ==
  /\ AtLine("INDIRECT")
  /\ LET l == file[pos]
         known == IF Known(l.block) THEN Conflict(l.level, l.block, l.inode) ELSE {}
     IN  /\ PrintFatal(known \cup BlockError(l.level, l.block, l.inode))
         /\ block_dict' = Recorded(l.level, l.block, l.inode)
  /\ NextLine
  /\ UNCHANGED slot

OtherLine == /\ AtLine("IFREE") \/ AtLine("DIRENT")
             /\ NextLine
             /\ UNCHANGED <<slot, block_dict, printed, exit2_flag>>

Unreferenced == /\ pc = "blocks"
                /\ pos \notin DOMAIN file
                /\ PrintFatal({<<"UNREFERENCED BLOCK", b>> : b \in {d \in DataBlocks : ~Known(d)}})
                /\ pc' = "inodes"
                /\ UNCHANGED <<image, file, pos, slot, block_dict, status>>

-----------------------------------------------------------------------------
(* inode_audit() and directory_audit().                                      *)

Lines(kind) == {l \in ToSet(file) : l.kind = kind}
InodeFree(n) == \E l \in Lines("IFREE") : l.inode = n
InodeAllocated(n) == \E l \in Lines("INODE") : l.inode = n

\* range(1, num_inodes) ends before the last inode.
Audited == 1..(NumInodes - 1)
ReservedInodes == {1} \cup 3..10

InodeAudit ==
  /\ pc = "inodes"
  /\ IF \E l \in Lines("IFREE") : l.inode > NumInodes
     THEN \* inode_free has no such entry: IndexError
          status' = "traceback" /\ UNCHANGED printed
     ELSE /\ printed' = printed
               \cup {<<"ALLOCATED INODE", n>> : n \in
                       {m \in Audited \ ReservedInodes : InodeAllocated(m) /\ InodeFree(m)}}
               \cup {<<"UNALLOCATED INODE", n>> : n \in
                       {m \in Audited \ ReservedInodes : ~InodeAllocated(m) /\ ~InodeFree(m)}}
          /\ UNCHANGED status
  /\ pc' = "directories"
  /\ UNCHANGED <<image, file, pos, slot, block_dict, exit2_flag>>

Dots == {".", ".."}
InRange(n) == n >= 1 /\ n <= NumInodes
IsDirectory(n) == \E l \in Lines("INODE") : l.inode = n /\ l.type = "d"

\* The lines of the entries that name n.
Naming(n) == {k \in DOMAIN file : /\ file[k].kind = "DIRENT"
                                  /\ file[k].inode = n
                                  /\ file[k].name \notin Dots}
LastOf(lines) == IF lines = {} THEN 0 ELSE file[Max(lines)].dir

\* Fault: inode_parentDir[2] is not set.
ParentDirOfRoot(n) == LastOf(Naming(n))

\* The directory of the last entry that names n; the root is its own.
ParentDir(n) == IF n = 2 THEN 2 ELSE LastOf(Naming(n))

\* The entry of a list of length NumInodes + 1 that index n names: from the end, if
\* n is negative.
Cell(n) == IF n < 0 THEN n + NumInodes + 1 ELSE n

DirCount(n) ==
  IF IsDirectory(n)
  THEN Cardinality({k \in DOMAIN file : /\ file[k].kind = "DIRENT"
                                        /\ file[k].inode <= NumInodes
                                        /\ Cell(file[k].inode) = n})
  ELSE 0
ListLinks(n) == IF IsDirectory(n)
                THEN (CHOOSE l \in Lines("INODE") : l.inode = n).links ELSE 0

\* An entry for an inode that does not exist, and for one that is free.
Invalid(l) == ~InRange(l.inode)
Unallocated(l) == InRange(l.inode) /\ InodeFree(l.inode) /\ l.name \notin Dots

\* Fault: ".." is not looked at.
WrongSelf(l) == l.inode <= NumInodes /\ l.name = "." /\ l.inode # l.dir

\* A "." that is not its directory, or a ".." that is not the parent directory.
WrongLink(l) == /\ l.inode <= NumInodes
                /\ \/ l.name = "." /\ l.inode # l.dir
                   \/ l.name = ".." /\ l.inode # ParentDir(l.dir)

\* The messages about some entries.
EntryMessages(text, entries) == {<<text, l.dir, l.name, l.inode>> : l \in entries}

\* No cell has this index, not from the end either: IndexError in the second pass,
\* which gets no further.
Breaks(l) == l.kind = "DIRENT" /\ l.inode < -(NumInodes + 1)
Broken == \E l \in Lines("DIRENT") : Breaks(l)
Reached(kind) == {file[k] : k \in {m \in DOMAIN file : /\ file[m].kind = kind
                                                      /\ \A j \in 1..m : ~Breaks(file[j])}}

\* The inodes whose count of entries is not their count of links.
Miscounted == IF Broken THEN {} ELSE {n \in Audited : DirCount(n) # ListLinks(n)}

DirectoryAudit ==
  /\ pc = "directories"
  /\ printed' = printed
       \cup EntryMessages("INVALID INODE", {l \in Lines("DIRENT") : Invalid(l)})
       \cup EntryMessages("UNALLOCATED INODE", {l \in Lines("DIRENT") : Unallocated(l)})
       \cup EntryMessages("LINK", {l \in Reached("DIRENT") : WrongLink(l)})
       \cup {<<"LINKS", l.inode, 0, l.links>> :
               l \in {m \in Reached("INODE") : ParentDir(m.inode) = 0}}
       \cup {<<"LINKS", n, DirCount(n), ListLinks(n)>> : n \in Miscounted}
  /\ status' = IF Broken THEN "traceback" ELSE status
  /\ pc' = "exit"
  /\ UNCHANGED <<image, file, pos, slot, block_dict, exit2_flag>>

\* The messages of the last two audits do not count.
Exit == /\ pc = "exit"
        /\ status' = IF exit2_flag = 1 THEN "exit2" ELSE "exit0"
        /\ pc' = "done"
        /\ UNCHANGED <<image, file, pos, slot, block_dict, printed, exit2_flag>>

CheckSummary == \/ FreeLine \/ InodeBlock \/ InodeNoBlock \/ InodeLineDone
                \/ IndirectLine \/ OtherLine \/ Unreferenced

Step == Summarise \/ CheckSummary \/ InodeAudit \/ DirectoryAudit \/ Exit

Terminated == status # "running" /\ UNCHANGED vars

Next == (status = "running" /\ Step) \/ Terminated

Spec == Init /\ [][Next]_vars

-----------------------------------------------------------------------------
(* What a consistent image is, in terms of the image alone.                  *)

\* Every block an inode uses is a data block, is not free and has no other user;
\* every other data block is free.
BlocksConsistent(img) ==
  LET refs == References(img)
      used(r) == BlockAt(img, r[1], r[2])
  IN  /\ {used(r) : r \in refs} = DataBlocks \ img.free_blocks
      /\ \A r, s \in refs : used(r) = used(s) => r = s

\* The inodes of inodes are free exactly if they are not in use.
InodesConsistent(img, inodes) ==
  /\ img.free_inodes \subseteq 1..NumInodes
  /\ \A n \in inodes \ ReservedInodes : InUse(img, n) <=> n \notin img.free_inodes

Directories(img) == {n \in 1..NumInodes : InUse(img, n) /\ img.inode[n].mode = {14}}

\* The entries in the block of a slot of a directory, each with its place.
EntriesAt(img, d, k) ==
  LET b == img.inode[d].block[k]
      entry == IF b = 0 THEN <<>> ELSE Entries(img, b)
  IN  {[dir |-> d, at |-> <<k, j>>, inode |-> entry[j].inode, name |-> entry[j].name] :
         j \in DOMAIN entry}
AllEntries(img) == UNION {EntriesAt(img, d, k) : d \in Directories(img), k \in 1..NDir}

\* An entry names an inode that exists and is not free, "." its directory and
\* ".." a directory with an entry for it; every inode but the root has an entry;
\* the link count of the inodes of counted is the number of their entries.
EntriesConsistent(img, counted) ==
  LET all == AllEntries(img)
      named == {e \in all : e.name \notin Dots}
      parents(d) == IF d = 2 THEN {2} ELSE {e.dir : e \in {f \in named : f.inode = d}}
  IN  /\ \A e \in all : InRange(e.inode)
      /\ \A e \in named : e.inode \notin img.free_inodes
      /\ \A e \in all : e.name = "." => e.inode = e.dir
      /\ \A e \in all : e.name = ".." => e.inode \in parents(e.dir)
      /\ \A n \in 1..NumInodes : InUse(img, n) /\ n # 2 => \E e \in named : e.inode = n
      /\ \A n \in counted : img.inode[n].links = Cardinality({e \in all : e.inode = n})

\* No directory has two names, and the root has none.
TreeConsistent(img) ==
  LET named == {e \in AllEntries(img) : e.name \notin Dots}
  IN  \A d \in Directories(img) :
        Cardinality({e \in named : e.inode = d}) = IF d = 2 THEN 0 ELSE 1

Consistent(img) == /\ BlocksConsistent(img)
                   /\ InodesConsistent(img, 1..NumInodes)
                   /\ EntriesConsistent(img, {n \in 1..NumInodes : InUse(img, n)})
                   /\ TreeConsistent(img)

\* What has a directory's bit is a directory, and has no gap before a block.
PlainDirectories(img) ==
  \A n \in 1..NumInodes : InUse(img, n) /\ FileType(img.inode[n].mode) = "d" =>
    /\ img.inode[n].mode = {14}
    /\ \A k \in 1..NDir : img.inode[n].block[k] # 0 =>
         \A j \in 1..k : img.inode[n].block[j] # 0

\* lab3a reads an entry whose inode is too negative to be an index of the audit's
\* lists.
EntryBreaks(img) ==
  \E n \in 1..NumInodes : \E k \in 1..NDir :
    /\ InUse(img, n) /\ FileType(img.inode[n].mode) = "d"
    /\ \A j \in 1..k : img.inode[n].block[j] # 0
    /\ \E e \in ToSet(Entries(img, img.inode[n].block[k])) : e.inode < -(NumInodes + 1)

-----------------------------------------------------------------------------
(* Properties.                                                               *)

\* indirectBlock lists every block below an indirect block once, with the right
\* level, and never with an offset before its place in the file; the offset is
\* right as long as no entry before it is in use but the first of each block
\* (lab3a.c:115-153, 261-275).
TreeIsListed ==
  status # "running" =>
    LET below == {r \in References(image) : Len(r[2]) > 1}
        listed == {k \in DOMAIN file : file[k].kind = "INDIRECT"}
        lists(l, n, path) == /\ l.inode = n
                             /\ l.level = HolderLevel(path)
                             /\ l.block = BlockAt(image, n, path)
                             /\ l.offset >= Position(path)
                             /\ FirstOfItsBlocks(image, n, path) => l.offset = Position(path)
    IN  /\ \A r \in below : \E k \in listed : lists(file[k], r[1], r[2])
        /\ Cardinality(listed) = Cardinality(below)

\* The exit status is 2 exactly if the blocks are inconsistent, whatever the
\* inodes and directories are, but for two numbers that break the program off: a bit
\* behind the last inode that is clear, and the inode of an entry that is negative
\* as %d prints it and out of the lists' range (lab3b.py:14-102, 130, 187-189,
\* 219-221, lab3a.c:253).
ExitStatusTellsBlocks ==
  status # "running" =>
    IF image.free_inodes \subseteq 1..NumInodes /\ ~EntryBreaks(image)
    THEN status = IF BlocksConsistent(image) THEN "exit0" ELSE "exit2"
    ELSE status = "traceback"

\* Lab3B/README:6: messages are about inconsistencies; there is none about a
\* consistent image.
ConsistentIsSilent == status # "running" /\ Consistent(image) => printed = {}

\* Every rule that one of the three audits stands for is kept by an image about
\* which nothing is printed.  Not among them are the last inode, the link counts
\* of other inodes than directories and a directory with two names
\* (lab3b.py:134, 161, 176).
SilentIsConsistent ==
  status \in {"exit0", "exit2"} /\ printed = {} =>
    /\ BlocksConsistent(image)
    /\ InodesConsistent(image, Audited)
    /\ EntriesConsistent(image, Directories(image) \cap Audited)

\* A line is about block b.
Mentions(l, b) == CASE l.kind \in {"BFREE", "INDIRECT"} -> l.block = b
                    [] l.kind = "INODE" -> \E s \in Slots : l.block[s] = b
                    [] OTHER -> FALSE

\* A data block is reported as unreferenced exactly if it is neither free nor used
\* (lab3b.py:44-102): whichever of the conflicting lines about a block come first,
\* none makes the audit forget it.
UnreferencedExact ==
  pc \notin {"lab3a", "blocks"} =>
    \A b \in DataBlocks :
      <<"UNREFERENCED BLOCK", b>> \in printed
        <=> \A k \in DOMAIN file : ~Mentions(file[k], b)

\* The uses of blocks: a slot of an INODE line, or an INDIRECT line as slot 1.
IsUse(u) == LET l == file[u[1]]
            IN  l.kind = "INODE" \/ (l.kind = "INDIRECT" /\ u[2] = 1)
BlockOf(u) == LET l == file[u[1]] IN IF l.kind = "INODE" THEN l.block[u[2]] ELSE l.block
LevelOf(u) == LET l == file[u[1]] IN IF l.kind = "INODE" THEN Level(u[2]) ELSE l.level
Uses(b) == {u \in (DOMAIN file) \X Slots : IsUse(u) /\ BlockOf(u) = b}
FreeListed(b) == \E k \in DOMAIN file : file[k].kind = "BFREE" /\ file[k].block = b
NamedSharer(u) ==
  <<"DUPLICATE", LevelOf(u), BlockOf(u), file[u[1]].inode>> \in printed

\* If a data block that is not free has several users, each of them is named in a
\* message, the first included, although only one is remembered in block_dict
\* (lab3b.py:72-97).
SharersNamed ==
  pc \notin {"lab3a", "blocks"} =>
    \A b \in DataBlocks :
      ~FreeListed(b) => \A u, v \in Uses(b) : u # v => NamedSharer(u)
=============================================================================

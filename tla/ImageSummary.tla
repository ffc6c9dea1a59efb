---------------------------- MODULE ImageSummary ----------------------------
(* Lab3A/lab3a.c: the summary of an ext2 image as a sequence of lines, and   *)
(* what an inode's tree of blocks is without looking at the program.  A line *)
(* is a record of the fields that lab3b.py reads; the literals 12 and 256 of *)
(* the code are NDir and PerBlock.                                           *)
EXTENDS Integers, SequencesExt

CONSTANTS NumBlocks,       \* s_blocks_count
          NumInodes,       \* s_inodes_count
          InodesPerBlock,  \* block_size / s_inode_size
          TableBlock,      \* bg_inode_table, the block after the bitmaps
          Bits,            \* 8 * block_size, the bits of a bitmap
          NDir,            \* EXT2_NDIR_BLOCKS
          PerBlock         \* block_size / 4, the pointers in a block

ASSUME ImageAssumption == /\ NumBlocks \in Nat /\ NumInodes \in Nat
                          /\ InodesPerBlock \in Nat \ {0}
                          /\ TableBlock \in Nat \ {0}
                          /\ Bits \in Nat /\ NDir \in Nat /\ PerBlock \in Nat

\* An image has
\*   free_blocks, free_inodes: the numbers whose bit is clear;
\*   inode[n]: i_mode as the set of its type bits, i_links_count, i_block;
\*   pointers[b], entries[b]: what block b holds, read as pointers and read as
\*     directory entries up to one without a name.
Slots == 1..(NDir + 3)
Level(slot) == IF slot <= NDir THEN 0 ELSE slot - NDir
NoPointers == [i \in 1..PerBlock |-> 0]
Pointers(img, b) == IF b \in DOMAIN img.pointers THEN img.pointers[b] ELSE NoPointers
Entries(img, b) == IF b \in DOMAIN img.entries THEN img.entries[b] ELSE <<>>
InUse(img, n) == img.inode[n].mode # {} /\ img.inode[n].links # 0

\* Every clear bit, also one behind the last block or inode.
FreeBlocks(img) ==
  FlattenSeq([b \in 1..Bits |->
    IF b \in img.free_blocks THEN <<[kind |-> "BFREE", block |-> b]>> ELSE <<>>])
FreeInodes(img) ==
  FlattenSeq([n \in 1..Bits |->
    IF n \in img.free_inodes THEN <<[kind |-> "IFREE", inode |-> n]>> ELSE <<>>])

\* The bits 15, 14 and 13 are those of EXT2_S_IFREG, _IFDIR and _IFLNK; the last
\* has bit 15 too.
FileType(mode) == CASE 15 \in mode -> "f"
                    [] 15 \notin mode /\ 14 \in mode -> "d"
                    [] 15 \notin mode /\ 14 \notin mode /\ 13 \in mode -> "s"
                    [] OTHER -> "?"

\* Fault: the entries are counted from one.
OffsetFromOne(entry, offset, stride) ==
  LET at[i \in 0..PerBlock] ==
        IF i = 0 THEN offset
        ELSE IF entry[i] = 0 THEN at[i - 1] ELSE at[i - 1] + i * stride
  IN  at

\* offset at each entry: it is increased at those in use, and never set back.
OffsetAt(entry, offset, stride) ==
  LET at[i \in 0..PerBlock] ==
        IF i = 0 THEN offset
        ELSE IF entry[i] = 0 THEN at[i - 1] ELSE at[i - 1] + (i - 1) * stride
  IN  at

\* The factors 1, 256 and 65536.
Stride(level) == CASE level = 1 -> 1 [] level = 2 -> PerBlock [] OTHER -> PerBlock * PerBlock

\* indirectBlock(level, n, b, offset): the lines below an entry, then its own.
IndirectBlock(img, n) ==
  LET lines[level \in 0..3] ==
        [b \in Int |-> [offset \in Nat |->
           LET entry == Pointers(img, b)
               at == OffsetAt(entry, offset, Stride(level))
               own(i) == [kind |-> "INDIRECT", inode |-> n, level |-> level,
                          offset |-> at[i], block |-> entry[i]]
           IN  IF level = 0 THEN <<>>
               ELSE FlattenSeq([i \in 1..PerBlock |->
                      IF entry[i] = 0 THEN <<>>
                      ELSE Append(lines[level - 1][entry[i]][at[i]], own(i))])]]
  IN  lines

\* The offsets 12, 268 and 65804.
BaseOffset(level) == NDir + (IF level > 1 THEN PerBlock ELSE 0)
                          + (IF level > 2 THEN PerBlock * PerBlock ELSE 0)

IndirectRoots(img, n) ==
  FlattenSeq([level \in 1..3 |->
    LET root == img.inode[n].block[NDir + level]
    IN  IF root # 0 THEN IndirectBlock(img, n)[level][root][BaseOffset(level)] ELSE <<>>])

\* The entries of the direct blocks, up to the first that is 0.
Directory(img, n) ==
  LET block == img.inode[n].block
      used == {k \in 1..NDir : \A j \in 1..k : block[j] # 0}
      line(e) == [kind |-> "DIRENT", dir |-> n, inode |-> e.inode, name |-> e.name]
      lines(k) == [j \in DOMAIN Entries(img, block[k]) |-> line(Entries(img, block[k])[j])]
  IN  IF FileType(img.inode[n].mode) = "d"
      THEN FlattenSeq([k \in 1..Cardinality(used) |-> lines(k)])
      ELSE <<>>

InodeLine(img, n) == [kind |-> "INODE", inode |-> n, type |-> FileType(img.inode[n].mode),
                      links |-> img.inode[n].links, block |-> img.inode[n].block]

InodeSummary(img) ==
  FlattenSeq([n \in 1..NumInodes |->
    IF InUse(img, n)
    THEN <<InodeLine(img, n)>> \o Directory(img, n) \o IndirectRoots(img, n)
    ELSE <<>>])

\* The SUPERBLOCK and GROUP lines give the constants.
Summary(img) == FreeBlocks(img) \o FreeInodes(img) \o InodeSummary(img)

-----------------------------------------------------------------------------
(* What the blocks of an inode are: a path is a slot of i_block and then one *)
(* index per level.                                                          *)

PathsFrom(slot) == {<<slot>> \o s : s \in UNION {[1..k -> 1..PerBlock] : k \in 0..Level(slot)}}
Paths == UNION {PathsFrom(slot) : slot \in Slots}

\* Where some indices lead to from block b, 0 if nowhere.
Below(img, b, indices) ==
  LET at[k \in 0..Len(indices)] ==
        IF k = 0 THEN b
        ELSE IF at[k - 1] = 0 THEN 0 ELSE Pointers(img, at[k - 1])[indices[k]]
  IN  at[Len(indices)]

\* The block at the end of a path, 0 if there is none.
BlockAt(img, n, path) == Below(img, img.inode[n].block[Head(path)], Tail(path))

References(img) == {r \in {n \in 1..NumInodes : InUse(img, n)} \X Paths :
                      BlockAt(img, r[1], r[2]) # 0}

\* The level of the block that the last index of a path is in, 0 for a slot.
HolderLevel(path) == IF Len(path) = 1 THEN 0 ELSE Level(Head(path)) + 2 - Len(path)

\* How many blocks of the file are before those that some indices, the first of
\* a block of that level, lead to.
Before(level, indices) ==
  LET at[k \in 0..Len(indices)] ==
        IF k = 0 THEN 0 ELSE at[k - 1] + (indices[k] - 1) * Stride(level + 1 - k)
  IN  at[Len(indices)]

\* The place in the file of the first block under a path.
Position(path) ==
  BaseOffset(Level(Head(path))) + Before(Level(Head(path)), Tail(path))

\* No entry before those on the path is in use, but the first of a block.
FirstOfItsBlocks(img, n, path) ==
  \A k \in 2..Len(path) : \A i \in 2..(path[k] - 1) :
    BlockAt(img, n, Append(SubSeq(path, 1, k - 1), i)) = 0
=============================================================================

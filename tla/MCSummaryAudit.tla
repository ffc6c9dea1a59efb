--------------------------- MODULE MCSummaryAudit ---------------------------
(* Small images for TLC: the blocks 1 to 6 are those of the file system, 7   *)
(* holds the root directory, and 8 to 10 are there to be fought over.        *)
EXTENDS SummaryAudit

None == <<0, 0, 0, 0, 0>>
Unused == [mode |-> {}, links |-> 0, block |-> None]
File(links, block) == [mode |-> {15}, links |-> links, block |-> block]
Dir(links, b) == [mode |-> {14}, links |-> links, block |-> <<b, 0, 0, 0, 0>>]
Entry(n, name) == [inode |-> n, name |-> name]

\* The inodes 2, 11, 12 and 16; the others are not in use.
Inodes(root, n11, n12, n16) ==
  [n \in 1..NumInodes |-> CASE n = 2  -> root [] n = 11 -> n11
                            [] n = 12 -> n12  [] n = 16 -> n16
                            [] OTHER  -> Unused]
Root(a, b) == <<Entry(2, "."), Entry(2, ".."), Entry(a, "a"), Entry(b, "b")>>

\* A file with a direct, an indirect and a double indirect block and a file with a
\* triple indirect block, all of them free, reserved, invalid or shared, or not.
BlockImages ==
  [free_blocks : SUBSET {8, 9, 10},
   free_inodes : {13..16},
   inode : {Inodes(Dir(2, 7), File(1, <<d1, 0, d3, d4, 0>>), File(1, <<0, 0, 0, 0, d5>>), Unused) :
              d1 \in {0, 6, 8, 11, -1}, d3 \in {0, 9}, d4 \in {0, 10}, d5 \in {0, 10}},
   pointers : {(9 :> p9) @@ (10 :> p10) :
                 p9 \in {<<8, 0, 0>>, <<8, 10, 0>>, <<0, 10, 8>>, <<8, 8, 10>>},
                 p10 \in {<<9, 0, 0>>, <<0, 9, 8>>, <<9, 8, 11>>}},
   entries : {7 :> Root(11, 12)}]

\* A subdirectory, a file, and the last inode: wrong entries, wrong link counts
\* and inodes that are wrongly free or wrongly not.  As an index -6 names the cell of
\* inode 11, -17 the first cell and -18 none.
DirectoryImages ==
  [free_blocks : {{9, 10}},
   free_inodes : {13..15, 13..16, 12..16, 14..16, 13..17},
   inode : {Inodes(Dir(l2, 7), Dir(l11, 8), File(l12, None), last) :
              l2 \in {2, 3}, l11 \in {2, 3}, l12 \in {0, 1, 2}, last \in {Unused, File(1, None)}},
   pointers : {<<>>},
   entries : {(7 :> Root(a, b)) @@ (8 :> <<Entry(x, "."), Entry(y, "..")>>) :
                a \in {11, 0, 17, 13, -6, -17, -18}, b \in {12, 16, 11, 13}, x \in {11, 2}, y \in {2, 11, 0}}]

SmallImages == BlockImages \cup DirectoryImages
=============================================================================

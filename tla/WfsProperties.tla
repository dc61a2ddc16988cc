--------------------------- MODULE WfsProperties ---------------------------
(***************************************************************************)
(* What wfs.c is for, stated over Wfs.                                     *)
(***************************************************************************)
EXTENDS Wfs, Raid

\* Types of the images.
WfsTypeOK ==
  \A d \in Disks :
    /\ disk[d].ibits \subseteq Inodes /\ disk[d].dbits \subseteq Blocks
    /\ \A n \in Inodes :
         /\ disk[d].inode[n].kind \in {"none", "file", "dir"}
         /\ disk[d].inode[n].size \in 0 .. NDirect + NIndirect
         /\ disk[d].inode[n].ptr \in [PtrIndex -> 0 .. NumBlocks]
         /\ disk[d].inode[n].ind \in 0 .. NumBlocks

\* What a user reads, from disk 0 and, when files are striped, from the others.
TreeOf(arr) ==
  [p \in Paths |->
     LET n == Find(arr, 0, p)
     IN  IF n = Missing THEN [kind |-> "none", cells |-> <<>>]
         ELSE [kind |-> arr[0].inode[n].kind,
               cells |-> IF arr[0].inode[n].kind = "dir" THEN <<>>
                         ELSE [i \in 1 .. arr[0].inode[n].size |->
                                IF arr[0].inode[n].ptr[i - 1] = 0 THEN Hole
                                ELSE arr[Home(0, i - 1)].data[arr[0].inode[n].ptr[i - 1]].cell]]]

\* Until metadata is damaged, the calls implement a tree of files: a read returns
\* what was written to that file, also after writes and creates that failed for
\* want of space and after the daemon was killed.
FT == INSTANCE FileTree WITH
        MaxSize <- NDirect + NIndirect,
        tree <- TreeOf(disk)
ImplementsFileTree ==
  [][~damaged' => \/ TreeOf(disk') = TreeOf(disk)
                  \/ FT!FTStep(TreeOf(disk), TreeOf(disk'))]_disk

\* The data bitmaps are exact: a block of a disk is allocated if and only if one
\* inode has it, for one purpose, as data of that disk or as an indirect block.
Owners(d, b) == {<<n, k>> \in Inodes \X PtrIndex :
                   Home(d, k) = d /\ disk[d].inode[n].ptr[k] = b}
                \cup {<<n, "ind">> : n \in {m \in Inodes : disk[d].inode[m].ind = b}}
BlocksExact ==
  ~damaged => \A d \in Disks, b \in Blocks :
    Cardinality(Owners(d, b)) = IF b \in disk[d].dbits THEN 1 ELSE 0

\* The images are consistent until metadata is damaged: types and exact bitmaps.
ImagesExact == WfsTypeOK /\ BlocksExact

-----------------------------------------------------------------------------
\* A mount puts the disks back in order if and only if the order they are given in
\* is its own inverse: always for two disks, not when three or more are rotated.
SwappedOrdersPutBack ==
  [][dead /\ ~dead' =>
       \A n \in ArraySizes : \A order \in Orders(n) :
         (\A i \in Positions(n) : Reordered(order)[i] = i)
           <=> \A i \in Positions(n) : order[order[i]] = i]_vars

\* Whatever has become of its copies, a verified read of mirrored disks believes the
\* disk of lowest index among those whose sum is the most frequent; but disks whose
\* sum is -1 have no vote, and with no vote it reads from disk -1.
Votes(sums, i) == Cardinality({j \in DOMAIN sums : sums[j] = sums[i]})
MajorityIsRead ==
  raid = 1 =>
    \A n \in ArraySizes : \A sums \in [Positions(n) -> Sums] :
      LET voters == {i \in Positions(n) : sums[i] # -1}
          winners == {i \in voters : \A j \in voters : Votes(sums, j) <= Votes(sums, i)}
      IN  ChosenDisk(sums) = IF voters = {} THEN -1 ELSE Min(winners)
=============================================================================

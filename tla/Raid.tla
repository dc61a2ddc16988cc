------------------------------- MODULE Raid -------------------------------
(***************************************************************************)
(* The two computations of wfs.c over the disks of an array: putting disks *)
(* that were given in any order back in theirs, and choosing the disk a    *)
(* RAID 1v read believes.  Disks and positions count from 0.               *)
(***************************************************************************)
EXTENDS Integers, FiniteSetsExt, Functions

CONSTANTS
  ArraySizes,  \* the numbers of disks of the arrays
  Sums         \* the sums of bytes a read may compute

ASSUME RaidSizes == ArraySizes \subseteq Nat \ {0, 1} /\ Sums \subseteq Int

Positions(n) == 0 .. n - 1

\* order[i] is the disk_id of the image at position i of the command line.
Orders(n) == Bijection(Positions(n), Positions(n))

DiskOrder(order) == [id \in DOMAIN order |-> CHOOSE i \in DOMAIN order : order[i] = id]

\* Mutant: buf[i] = mapped_memory[disk_order[i]].
ReorderedTheOtherWay(order) == [j \in DOMAIN order |-> order[DiskOrder(order)[j]]]

\* The disk_id of the image each position holds after reorder_disks.
Reordered(order) ==
  [j \in DOMAIN order |-> order[CHOOSE i \in DOMAIN order : DiskOrder(order)[i] = j]]

\* Steps 1 and 2 of wfs_read_r1v: the first occurrence of a sum becomes the number
\* of its occurrences and the others -1, as does a sum that is -1.
Counts(sums) ==
  [i \in DOMAIN sums |->
     IF sums[i] = -1 \/ \E j \in 0 .. i - 1 : sums[j] = sums[i] THEN -1
     ELSE Cardinality({j \in DOMAIN sums : sums[j] = sums[i]})]

\* Mutant: a count equal to the highest one so far replaces it.
ArgmaxLast(counts) ==
  LET highest == {i \in DOMAIN counts :
                    counts[i] # -1 /\ \A j \in DOMAIN counts : counts[j] <= counts[i]}
  IN  IF highest = {} THEN -1 ELSE Max(highest)

\* Step 3: the first position with the highest count, or -1.
Argmax(counts) ==
  LET highest == {i \in DOMAIN counts :
                    counts[i] # -1 /\ \A j \in DOMAIN counts : counts[j] <= counts[i]}
  IN  IF highest = {} THEN -1 ELSE Min(highest)

ChosenDisk(sums) == Argmax(Counts(sums))
=============================================================================

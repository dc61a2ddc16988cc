------------------------------- MODULE MCWfs -------------------------------
(* Instances of the p6 file system for TLC. *)
EXTENDS WfsProperties, TLC

MCSymmetry == Permutations(Names) \cup Permutations(Values)

\* Arrays of two to four disks, and sums of which one is taken for a mark.
MCArraySizes == 2 .. 4
MCSums == {-1, 0, 1, 2}
=============================================================================

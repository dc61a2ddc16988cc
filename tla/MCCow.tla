------------------------------- MODULE MCCow -------------------------------
(* Instances of the p5 memory for TLC. *)
EXTENDS CowProperties, TLC

\* The first process is special; the others are interchangeable.
MCSymmetry == Permutations(Procs \ {InitProc})
=============================================================================

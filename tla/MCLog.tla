------------------------------- MODULE MCLog -------------------------------
(***************************************************************************)
(* Instances of the logging layer for TLC.                                 *)
(***************************************************************************)
EXTENDS LogProperties, TLC

\* Processes, and blocks, are interchangeable.
MCSymmetry == Permutations(Procs) \cup Permutations(Blocks)
=============================================================================

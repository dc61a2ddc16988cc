------------------------------- MODULE MCPipe -------------------------------
(* Instances of the pipe for TLC. *)
EXTENDS PipeProperties, TLC

MCSymmetry == Permutations(Users)
=============================================================================

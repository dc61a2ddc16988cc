------------------------------ MODULE MCCache ------------------------------
(* Instances of the buffer cache for TLC. *)
EXTENDS CacheProperties, TLC

CONSTANTS p1, p2
TwoEach == (p1 :> 2) @@ (p2 :> 2)
=============================================================================

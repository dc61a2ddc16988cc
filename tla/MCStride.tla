------------------------------ MODULE MCStride ------------------------------
(* Instances of the stride scheduler for TLC. *)
EXTENDS StrideProperties, TLC

\* init forks, waits and sleeps; its child forks, kills and exits; the third process changes
\* its share and sleeps.
FamilyOfThree == [p \in 0 .. 2 |->
  CASE p = 0 -> {"fork", "wait", "sleep"}
    [] p = 1 -> {"fork", "kill", "exit"}
    [] p = 2 -> {"settickets", "sleep", "exit"}]
=============================================================================

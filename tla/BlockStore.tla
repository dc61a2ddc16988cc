----------------------------- MODULE BlockStore -----------------------------
(***************************************************************************)
(* What the buffer cache promises to the code above it: one current        *)
(* content per block, and for the process that holds a block exclusive     *)
(* access to it.                                                           *)
(***************************************************************************)
CONSTANTS Procs, Blocks, Values,
          NotHeld   \* what a process sees of a block it does not hold

VARIABLES content,  \* of each block
          sees      \* what each process sees of each block

bvars == <<content, sees>>

BSInit ==
  /\ content \in [Blocks -> Values]
  /\ sees = [p \in Procs |-> [k \in Blocks |-> NotHeld]]

BSTake(p, k) ==
  /\ \A q \in Procs : sees[q][k] = NotHeld
  /\ sees' = [sees EXCEPT ![p][k] = content[k]]
  /\ UNCHANGED content

BSWrite(p, k, v) ==
  /\ sees[p][k] # NotHeld
  /\ content' = [content EXCEPT ![k] = v]
  /\ sees' = [sees EXCEPT ![p][k] = v]

BSPut(p, k) ==
  /\ sees[p][k] # NotHeld
  /\ sees' = [sees EXCEPT ![p][k] = NotHeld]
  /\ UNCHANGED content

BSNext ==
  \E p \in Procs, k \in Blocks :
    BSTake(p, k) \/ BSPut(p, k) \/ \E v \in Values : BSWrite(p, k, v)

BSSpec == BSInit /\ [][BSNext]_bvars
=============================================================================

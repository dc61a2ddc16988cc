----------------------------- MODULE ByteStream -----------------------------
(***************************************************************************)
(* What a pipe promises to the processes that use it: bytes come out once, *)
(* in the order they went in; a read returns nothing only when no writer   *)
(* is left and everything was read.                                        *)
(***************************************************************************)
EXTENDS Naturals, Sequences

CONSTANTS Users, Bytes, Capacity

VARIABLES stream,    \* bytes written and not yet read
          received,  \* per process, what its last read returned
          ended      \* no writer is left

bvars == <<stream, received, ended>>

BSInit == stream = <<>> /\ received = [p \in Users |-> <<>>] /\ ended = FALSE

\* A part of a write; writes of several processes may be mixed.
BSWrite ==
  /\ ~ended
  /\ \E n \in 1 .. Capacity - Len(stream) : \E new \in [1 .. n -> Bytes] :
       stream' = stream \o new
  /\ UNCHANGED <<received, ended>>

\* A read takes what there is, up to the length it asks for.
BSRead(p) ==
  /\ \E n \in 1 .. Len(stream) :
       /\ received' = [received EXCEPT ![p] = SubSeq(stream, 1, n)]
       /\ stream' = SubSeq(stream, n + 1, Len(stream))
  /\ UNCHANGED ended

BSEndOfFile(p) ==
  /\ ended /\ stream = <<>>
  /\ received' = [received EXCEPT ![p] = <<>>]
  /\ UNCHANGED <<stream, ended>>

BSEnd == ended' = TRUE /\ UNCHANGED <<stream, received>>

BSNext == BSWrite \/ BSEnd \/ \E p \in Users : BSRead(p) \/ BSEndOfFile(p)

BSSpec == BSInit /\ [][BSNext]_bvars
=============================================================================

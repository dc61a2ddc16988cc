------------------------------ MODULE FileTree ------------------------------
(***************************************************************************)
(* What a file system promises to its users: a file or directory changes   *)
(* only by the calls that name it, and a read returns what was written.    *)
(***************************************************************************)
EXTENDS Naturals, Sequences

CONSTANTS Names, Values, MaxSize, Hole

VARIABLE tree  \* the file or directory of each path, or NoNode

NoNode == [kind |-> "none", cells |-> <<>>]
Paths == {<<x>> : x \in Names} \cup {<<x, y>> : x, y \in Names}

InDir(t, p) == Len(p) = 1 \/ t[<<p[1]>>].kind = "dir"
EmptyDir(t, p) == Len(p) = 2 \/ \A x \in Names : t[<<p[1], x>>] = NoNode

\* What a call makes of the node `old`.
Created(old, new) == old = NoNode /\ new.kind \in {"file", "dir"} /\ new.cells = <<>>

\* A write past the end leaves a gap, which holds anything.
Written(old, new, off, n, v) ==
  LET range == off + 1 .. off + n
  IN  /\ Len(new.cells) = IF off + n > Len(old.cells) THEN off + n ELSE Len(old.cells)
      /\ \A i \in range : new.cells[i] = v
      /\ \A i \in DOMAIN old.cells \ range : new.cells[i] = old.cells[i]

\* A write that fails stores a first part of what it was given, and the file does
\* not grow.
PartlyWritten(old, new, off, n, v) ==
  LET range == off + 1 .. off + n - 1
  IN  /\ DOMAIN new.cells = DOMAIN old.cells
      /\ \A i \in DOMAIN old.cells : new.cells[i] # old.cells[i] =>
           i \in range /\ \A j \in off + 1 .. i : new.cells[j] = v

WriteOf(old, new) ==
  /\ old.kind = "file" /\ new.kind = "file"
  /\ \E off \in 0 .. MaxSize - 1 : \E n \in 1 .. MaxSize - off, v \in Values :
       Written(old, new, off, n, v) \/ PartlyWritten(old, new, off, n, v)

FTInit == tree = [p \in Paths |-> NoNode]

\* Each call changes the node it names and no other.
Changes(t, u, p) ==
  /\ \A q \in Paths \ {p} : u[q] = t[q]
  /\ \/ InDir(t, p) /\ Created(t[p], u[p])
     \/ WriteOf(t[p], u[p])
     \/ EmptyDir(t, p) /\ t[p] # NoNode /\ u[p] = NoNode

FTStep(t, u) == \E p \in Paths : Changes(t, u, p)

FTNext == FTStep(tree, tree')

FTSpec == FTInit /\ [][FTNext]_tree
=============================================================================

------------------------------ MODULE MCInodes ------------------------------
(* Instances of the file-system calls for TLC. *)
EXTENDS InodeProperties, TLC

CONSTANTS p1, p2

Abs(names) == [abs |-> TRUE, names |-> names]
Rel(names) == [abs |-> FALSE, names |-> names]
Call(op, path) == [op |-> op, path |-> path, to |-> Abs(<<>>)]
LinkOf(old, new) == [op |-> "link", path |-> old, to |-> new]

\* Two processes on the names a and b of the root, and on a in a directory a.
Mixed == [p \in {p1, p2} |->
  IF p = p1
  THEN {Call("create", Abs(<<"a">>)), Call("open", Abs(<<"b">>)), LinkOf(Abs(<<"a">>), Abs(<<"b">>)),
        LinkOf(Abs(<<"a">>), Abs(<<>>)),
        Call("unlink", Abs(<<"a">>))}
  ELSE {Call("mkdir", Rel(<<"a">>)), Call("chdir", Rel(<<"a">>)),
        Call("unlink", Rel(<<"..", "a">>)), Call("unlink", Rel(<<"..">>))}]
=============================================================================

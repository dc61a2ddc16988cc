------------------------------- MODULE MCWsh -------------------------------
(* An instance of the p3 shell for TLC. *)
EXTENDS WshProperties, TLC

Lit(t) == [var |-> FALSE, text |-> t]
Ref(x) == [var |-> TRUE, text |-> x]
Line(words, redirect) == [words |-> words, redirect |-> redirect]

\* A bare command, one with a literal into a file, one with a variable.
MCLines == {Line(<<Lit("a")>>, "none"), Line(<<Lit("a"), Lit("x")>>, ">"),
            Line(<<Lit("b"), Ref("v")>>, "none")}

MCTexts == {"", "a", "b", "x", "long", "v", "w"}
MCLength == ("" :> 0) @@ ("a" :> 1) @@ ("b" :> 1) @@ ("x" :> 1) @@ ("long" :> 4)
            @@ ("v" :> 1) @@ ("w" :> 1)
=============================================================================

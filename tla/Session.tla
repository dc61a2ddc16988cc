------------------------------ MODULE Session ------------------------------
(***************************************************************************)
(* A session with a shell: it remembers the last commands typed, it can    *)
(* run them again, and what it runs has the variables' current values in   *)
(* the places of their names.                                              *)
(***************************************************************************)
EXTENDS Naturals, Sequences

CONSTANTS Lines, Names, Values, Sizes, NotSet

VARIABLES list,          \* the commands remembered, oldest first
          limit,         \* how many it may remember
          local, export, \* the variables
          ran            \* the last command that was run, as it was run

svars == <<list, limit, local, export, ran>>

\* export goes before local; a name that is not set stands for nothing.
Meaning(w) ==
  IF ~w.var THEN w.text
  ELSE IF export[w.text] # NotSet THEN export[w.text] ELSE local[w.text]
Meant(words) == SelectSeq([i \in DOMAIN words |-> Meaning(words[i])], LAMBDA t : t # NotSet)
Ran(line) == ran' = [argv |-> Meant(line.words), redirect |-> line.redirect]

\* The same command twice in a row is remembered once; the oldest is forgotten.
Remembers(line) ==
  LET longer == Append(list, line)
  IN  list' = IF list # <<>> /\ list[Len(list)] = line THEN list
              ELSE IF Len(longer) > limit THEN Tail(longer) ELSE longer

Type(line) == Remembers(line) /\ Ran(line) /\ UNCHANGED <<limit, local, export>>

Again(n) == Ran(list[n]) /\ UNCHANGED <<list, limit, local, export>>

\* What no longer fits is dropped, at one end.
Resize(n) ==
  /\ limit' = n
  /\ IF n >= Len(list) THEN list' = list
     ELSE list' \in {SubSeq(list, 1, n), SubSeq(list, Len(list) - n + 1, Len(list))}
  /\ UNCHANGED <<local, export, ran>>

SetLocal(x, v) == local' = [local EXCEPT ![x] = v] /\ UNCHANGED <<list, limit, export, ran>>
SetExport(x, v) == export' = [export EXCEPT ![x] = v] /\ UNCHANGED <<list, limit, local, ran>>

SNext ==
  \/ \E line \in Lines : Type(line)
  \/ \E n \in DOMAIN list : Again(n)
  \/ \E n \in Sizes : Resize(n)
  \/ \E x \in Names, v \in Values \cup {NotSet} : SetLocal(x, v) \/ SetExport(x, v)
=============================================================================

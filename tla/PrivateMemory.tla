--------------------------- MODULE PrivateMemory ---------------------------
(***************************************************************************)
(* What fork, exec, sbrk and stores promise about the private part of an  *)
(* address space, whatever the kernel shares behind it: a child starts    *)
(* with a copy, and from then on a store is seen by the storing process   *)
(* alone.                                                                 *)
(***************************************************************************)
EXTENDS Naturals

CONSTANTS Procs,
          Pages,   \* page numbers 0, 1, ..
          Values, Zero, None

VARIABLES live,   \* the processes that run
          image   \* per process, the contents of its pages; None: not its own

pvars == <<live, image>>

NoImage == [a \in Pages |-> None]

PMInit ==
  /\ live \in {{p} : p \in Procs}
  /\ image \in [Procs -> [Pages -> Values \cup {None}]]
  /\ \A p \in Procs \ live : image[p] = NoImage

PMFork(p, c) ==
  /\ p \in live /\ c \notin live
  /\ live' = live \cup {c}
  /\ image' = [image EXCEPT ![c] = image[p]]

PMStore(p, a, v) ==
  /\ p \in live /\ image[p][a] # None
  /\ image' = [image EXCEPT ![p][a] = v]
  /\ UNCHANGED live

\* exec: a new image of n pages (with one content, which is all that matters).
PMExec(p) ==
  /\ p \in live
  /\ \E n \in Pages, v \in Values :
       image' = [image EXCEPT ![p] = [a \in Pages |-> IF a <= n THEN v ELSE None]]
  /\ UNCHANGED live

\* sbrk: one page more at the end, filled with zeroes, or the last page less.
PMSbrk(p, a) ==
  /\ p \in live
  /\ \A b \in Pages : (b < a => image[p][b] # None) /\ (b > a => image[p][b] = None)
  /\ \/ image[p][a] = None /\ image' = [image EXCEPT ![p][a] = Zero]
     \/ image[p][a] # None /\ image' = [image EXCEPT ![p][a] = None]
  /\ UNCHANGED live

PMExit(p) ==
  /\ p \in live
  /\ live' = live \ {p}
  /\ image' = [image EXCEPT ![p] = NoImage]

PMNext ==
  \E p \in Procs :
    \/ \E c \in Procs : PMFork(p, c)
    \/ \E a \in Pages, v \in Values : PMStore(p, a, v)
    \/ PMExec(p)
    \/ \E a \in Pages : PMSbrk(p, a)
    \/ PMExit(p)

PMSpec == PMInit /\ [][PMNext]_pvars
=============================================================================

----------------------------- MODULE AtomicDisk -----------------------------
(***************************************************************************)
(* What the xv6 logging layer promises to the file-system calls above it: *)
(* a disk whose calls take effect in groups.  Writes go to a view that    *)
(* every call reads; the view becomes durable as a whole, and only at a   *)
(* moment when no call is in progress; a crash loses exactly what is not  *)
(* durable yet.                                                           *)
(***************************************************************************)
CONSTANTS Procs,    \* processes that make file-system calls
          Blocks,   \* block numbers outside the log
          Values    \* contents of a block

VARIABLES disk,     \* what survives a crash
          view,     \* what a read returns
          active    \* the processes inside a file-system call

dvars == <<disk, view, active>>

ADInit ==
  /\ disk \in [Blocks -> Values]
  /\ view = disk
  /\ active = {}

ADBegin(p) ==
  /\ p \notin active
  /\ active' = active \cup {p}
  /\ UNCHANGED <<disk, view>>

ADWrite(p, b, v) ==
  /\ p \in active
  /\ view' = [view EXCEPT ![b] = v]
  /\ UNCHANGED <<disk, active>>

ADEnd(p) ==
  /\ p \in active
  /\ active' = active \ {p}
  /\ UNCHANGED <<disk, view>>

\* The group commit: everything written so far, by calls that all ended.
ADCommit ==
  /\ active = {}
  /\ disk' = view
  /\ UNCHANGED <<view, active>>

ADCrash ==
  /\ view' = disk
  /\ active' = {}
  /\ UNCHANGED disk

ADNext ==
  \/ \E p \in Procs : ADBegin(p) \/ ADEnd(p)
  \/ \E p \in Procs, b \in Blocks, v \in Values : ADWrite(p, b, v)
  \/ ADCommit
  \/ ADCrash

ADSpec == ADInit /\ [][ADNext]_dvars
=============================================================================

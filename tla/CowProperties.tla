---------------------------- MODULE CowProperties ----------------------------
(***************************************************************************)
(* What the p5 kernel's memory is for, stated over CowMemory.              *)
(***************************************************************************)
EXTENDS CowMemory, FiniteSets

Entry == [f : 0 .. NFrames, w : BOOLEAN, cow : BOOLEAN]

\* Types; a count is one byte and a free-list entry a frame of the machine.
CowTypeOK ==
  /\ free \in Seq(Frames) /\ ref \in [Frames -> 0 .. RefRange - 1]
  /\ data \in [Frames -> Values \cup {Junk}]
  /\ state \in [Procs -> {"unused", "run", "zombie"}]
  /\ parent \in [Procs -> Procs]
  /\ sz \in [Procs -> 0 .. MaxPages]
  /\ pte \in [Procs -> [Pages -> Entry]] /\ mpte \in [Procs -> [Maps -> Entry]]
  /\ maps \in [Procs -> SUBSET Maps]
  /\ \A t \in {kstack, pgdir, kpt, upt, mpt} : t \in [Procs -> 0 .. NFrames]

\* fork, exec, sbrk and the copy-on-write handler implement private memories: a
\* store to a private page is never seen by another process, and nothing else
\* changes what a process reads there.
PM == INSTANCE PrivateMemory WITH
        live <- {p \in Procs : state[p] = "run"},
        image <- [p \in Procs |-> [a \in Pages |->
                   IF state[p] = "run" /\ a < sz[p] THEN data[pte[p][a].f] ELSE None]]
PrivateIsPrivate == PM!PMSpec

\* The entries that map frame f in the private part of some process.
Mappers(f) == {x \in Procs \X Pages : state[x[1]] # "unused" /\ pte[x[1]][x[2]].f = f}

\* The count of a private page is the number of page tables it is mapped in:
\* what the fault handler decides by is exact, through nested forks.
CountsMappers ==
  \A p \in Procs, a \in Pages :
    LET f == pte[p][a].f
    IN  f # 0 /\ state[p] # "unused" => ref[f] = Cardinality(Mappers(f)) % RefRange

\* Frames the kernel or a process still uses.
KernelFrames(p) == {kstack[p], pgdir[p], kpt[p], upt[p], mpt[p]} \ {0}
UserFrames(p) == ({pte[p][a].f : a \in Pages} \cup {mpte[p][m].f : m \in Maps}) \ {0}
InUse == UNION {KernelFrames(p) \cup UserFrames(p) : p \in Procs}

\* No frame that is mapped, or that the kernel uses for a process, is on the
\* free list: kalloc never hands out a page in use.
NoUseAfterFree == FreedOnce => \A i \in 1 .. Len(free) : free[i] \notin InUse

\* A page a process may write in place is mapped nowhere else.
WritableIsUnshared ==
  \A p, q \in Procs, a, b \in Pages :
    (pte[p][a].w /\ pte[q][b].f = pte[p][a].f /\ state[p] # "unused" /\ state[q] # "unused")
      => p = q /\ a = b

\* Text pages stay read-only through fork and the fault handler.
TextStaysReadOnly ==
  \A p \in Procs, a \in TextPages : a < sz[p] /\ state[p] = "run" => ~pte[p][a].w

\* The kernel's memory is consistent at every step: types, and no frame in use is free.
MemorySound == CowTypeOK /\ NoUseAfterFree

-----------------------------------------------------------------------------
(* freevm leaves page-table pages on the free list with a count of 255.     *)
(* These behaviours never make a user page of a frame with such a count.    *)

Listed == {free[i] : i \in 1 .. Len(free)}

CleanStep ==
  \A p \in Procs, a \in Pages :
    LET f == pte'[p][a].f
    IN  f \in Listed => ref[f] = 0

CleanSpec == Init /\ [][Next /\ CleanStep]_vars

-----------------------------------------------------------------------------
(* What they keep, without mappings and with too few teardowns for a count  *)
(* to wrap.                                                                 *)

Kinds == {"kstack", "pgdir", "kpt", "upt"}
Kernel(k, p) ==
  CASE k = "kstack" -> kstack[p] [] k = "pgdir" -> pgdir[p]
    [] k = "kpt" -> kpt[p] [] OTHER -> upt[p]

Mapped == {pte[p][a].f : p \in Procs, a \in Pages} \ {0}
KernelUsed == {Kernel(k, p) : k \in Kinds, p \in Procs} \ {0}
Unused == {p \in Procs : state[p] = "unused"}

\* A slot in use has its kernel frames and every page of its size; another has none.
SlotsOK ==
  \A p \in Procs :
    /\ mpt[p] = 0
    /\ \A k \in Kinds : Kernel(k, p) = 0 <=> state[p] = "unused"
    /\ state[p] = "unused" => sz[p] = 0
    /\ state[p] # "unused" => sz[p] >= 1
    /\ \A a \in Pages :
         /\ a < sz[p] => pte[p][a].f # 0
         /\ state[p] = "unused" => pte[p][a].f = 0
         /\ pte[p][a].f = 0 => ~pte[p][a].w

\* A frame has one purpose in the kernel, and is a kernel frame, a user page or free.
KernelApart ==
  \A p, q \in Procs, k, l \in Kinds :
    Kernel(k, p) = Kernel(l, q) /\ Kernel(k, p) # 0 => p = q /\ k = l
FramesApart ==
  Mapped \cap KernelUsed = {} /\ Listed \cap (Mapped \cup KernelUsed) = {}

\* A process has a frame at one address.
OnePlace ==
  \A p \in Procs, a, b \in Pages : pte[p][a].f = pte[p][b].f /\ pte[p][a].f # 0 => a = b

\* Teardowns leave counts too high, never too low, and each by one at most.
CountOK(f) ==
  /\ Cardinality(Mappers(f)) <= ref[f]
  /\ ref[f] + Cardinality(Unused) <= Cardinality(Procs) + teardowns
  /\ teardowns = 0 => Cardinality(Mappers(f)) = ref[f]

CowInvariant ==
  /\ CowTypeOK /\ teardowns \in 0 .. MaxTeardowns
  /\ SlotsOK /\ KernelApart /\ FramesApart /\ OnePlace
  /\ \A f \in Mapped : CountOK(f)
  /\ WritableIsUnshared
=============================================================================

----------------------------- MODULE CowMemory -----------------------------
(***************************************************************************)
(* Physical memory of the p5 kernel: the free list and the one-byte       *)
(* reference counts of kalloc.c, copy-on-write fork, lazily filled shared *)
(* mappings, exec, sbrk, exit and wait.                                   *)
(*                                                                        *)
(* A process owns, besides its user pages, a kernel stack, a page         *)
(* directory and page-table pages: one stands for those of the kernel     *)
(* part, one for those of the private part and one, made by the first     *)
(* fault in it, for those of the mapping region.  Each mapping is one     *)
(* page long.  System calls and faults are not interleaved below the      *)
(* level of these actions (see README).                                   *)
(***************************************************************************)
EXTENDS Integers, SequencesExt

CONSTANTS
  Procs, InitProc,
  MaxPages,      \* size of the largest private part, in pages
  InitPages,     \* size of the first image
  TextPages,     \* pages that exec loads read-only
  MaxMaps,       \* pages of the mapping region
  Values, Zero,  \* contents of a page; what a fresh page holds
  Junk,          \* what kfree fills a page with
  None,          \* no such page, in the abstract memory
  NFrames,       \* page frames after boot
  RefRange,      \* ref_counts holds uchar: 256
  MaxTeardowns   \* page tables that execs, waits and failing forks may tear down

ASSUME MemorySizes ==
  /\ MaxPages \in Nat \ {0} /\ MaxMaps \in Nat
  /\ NFrames \in Nat /\ RefRange \in Nat \ {0, 1} /\ MaxTeardowns \in Nat
  /\ InitPages \in 1 .. MaxPages /\ NFrames >= 8 + InitPages
  /\ TextPages \subseteq 0 .. MaxPages - 1
ASSUME InitIsProc == InitProc \in Procs /\ Zero \in Values
ASSUME NoneIsNoPage == None \notin Values \cup {Junk}

Pages == 0 .. MaxPages - 1
Maps == 0 .. MaxMaps - 1
Frames == 1 .. NFrames

VARIABLES
  free, ref, data,  \* kmem.freelist, ref_counts, the contents of the frames
  state, parent,    \* struct proc
  sz, pte,          \* private part: size in pages, page-table entries
  maps, mpte,       \* wmap_data, page-table entries of the mapping region
  kstack, pgdir, kpt, upt, mpt, \* frames the kernel uses for a process; 0: none
  teardowns,        \* calls of freevm so far
  panicked

memVars == <<free, ref, data>>
tableVars == <<kstack, pgdir, kpt, upt, mpt>>
procVars == <<state, parent, sz, pte, maps, mpte, tableVars>>
vars == <<memVars, procVars, teardowns, panicked>>

\* A page-table entry: frame 0 is an entry without PTE_P.
NoPte == [f |-> 0, w |-> FALSE, cow |-> FALSE]
Present(e) == e.f # 0

-----------------------------------------------------------------------------
(* kalloc.c on the record m of the three memory variables.                *)

Memory == [free |-> free, ref |-> ref, data |-> data]

Kfree(m, f) == [m EXCEPT !.free = <<f>> \o @, !.data[f] = Junk]
Incref(m, f) == [m EXCEPT !.ref[f] = (@ + 1) % RefRange]

\* The count is unsigned: the test for underflow can never fire.
Decref(m, f) ==
  LET n == (m.ref[f] - 1) % RefRange
      m1 == [m EXCEPT !.ref[f] = n]
  IN  IF n = 0 THEN Kfree(m1, f) ELSE m1

\* kalloc returns the head of the list and does not touch its count: after n of
\* them the i-th page is free[i].
CanAlloc(n) == Len(free) >= n
Alloc(n) == [Memory EXCEPT !.free = SubSeq(@, n + 1, Len(@))]

SetMemory(m) == free' = m.free /\ ref' = m.ref /\ data' = m.data

\* Mutant: deallocuvm does not look at the count.
FreePageAnyCount(m, e) == IF Present(e) THEN Kfree(m, e.f) ELSE m

\* deallocuvm frees a page only if its count is 0; it never counts down.
FreePage(m, e) ==
  IF Present(e) /\ m.ref[e.f] = 0 THEN Kfree(m, e.f) ELSE m

\* freevm counts a page-table page down, and frees it whatever the count.
FreeTable(m, f) == IF f = 0 THEN m ELSE Kfree(Decref(m, f), f)

\* freevm of p's page directory: its pages by address, its page tables, itself.
Entries(p) == [i \in 1 .. MaxPages |-> pte[p][i - 1]]
              \o [i \in 1 .. MaxMaps |-> mpte[p][i - 1]]
FreeVm(m, p) ==
  LET m1 == FoldLeft(FreePage, m, Entries(p))
  IN  Kfree(FreeTable(FreeTable(FreeTable(m1, upt[p]), mpt[p]), kpt[p]), pgdir[p])

Panic(why) ==
  /\ panicked' = why
  /\ UNCHANGED <<memVars, procVars, teardowns>>

\* A frame that is freed while it is free makes the list a loop: nothing is said
\* of what the kernel does then.
FreedOnce == IsInjective(free)

Running(p) == panicked = "no" /\ state[p] = "run" /\ FreedOnce

-----------------------------------------------------------------------------
(* The first process runs the image of the first exec, which left the       *)
(* frames of the boot image at the head of the free list: the page          *)
(* directory (2), the page tables (3 and 5, which freevm counted down from  *)
(* 0) and the page (4).                                                     *)

BootImage(a) == IF a = 0 THEN 8 ELSE 9 + a

Init ==
  /\ \E v \in Values :
       data = [f \in Frames |-> IF \E a \in 0 .. InitPages - 1 : f = BootImage(a)
                                THEN v ELSE Junk]
  /\ free = <<2, 3, 5, 4>> \o [i \in 1 .. NFrames - 8 - InitPages |-> 8 + InitPages + i]
  /\ ref = [f \in Frames |-> IF f \in {3, 5} THEN RefRange - 1
                            ELSE IF \E a \in 0 .. InitPages - 1 : f = BootImage(a) THEN 1
                            ELSE 0]
  /\ state = [p \in Procs |-> IF p = InitProc THEN "run" ELSE "unused"]
  /\ parent = [p \in Procs |-> InitProc]
  /\ sz = [p \in Procs |-> IF p = InitProc THEN InitPages ELSE 0]
  /\ pte = [p \in Procs |-> [a \in Pages |->
              IF p = InitProc /\ a < InitPages
              THEN [f |-> BootImage(a), w |-> a \notin TextPages, cow |-> FALSE]
              ELSE NoPte]]
  /\ maps = [p \in Procs |-> {}]
  /\ mpte = [p \in Procs |-> [m \in Maps |-> NoPte]]
  /\ kstack = [p \in Procs |-> IF p = InitProc THEN 1 ELSE 0]
  /\ pgdir = [p \in Procs |-> IF p = InitProc THEN 6 ELSE 0]
  /\ kpt = [p \in Procs |-> IF p = InitProc THEN 7 ELSE 0]
  /\ upt = [p \in Procs |-> IF p = InitProc THEN 9 ELSE 0]
  /\ mpt = [p \in Procs |-> 0]
  /\ teardowns = 0
  /\ panicked = "no"

-----------------------------------------------------------------------------
(* fork.  copyuvm makes every page of both processes read-only and counts   *)
(* it once more; then the present pages of the mappings are mapped in the   *)
(* child as they are, and are not counted.                                  *)

\* Mutant: the pages stay writable.
CowEntryWritable(e) == e

\* Mutant: read-only pages become copy-on-write too.
CowEntryAlways(e) == [e EXCEPT !.w = FALSE, !.cow = TRUE]

CowEntry(e) == IF e.w THEN [e EXCEPT !.w = FALSE, !.cow = TRUE] ELSE e
InSize(p, a) == a < sz[p]
HasMapped(p) == \E m \in maps[p] : Present(mpte[p][m])

\* Mutant: only the child's entries become read-only.
CopyUvmChildOnly(p) == pte[p]

CopyUvm(p) == [a \in Pages |-> IF InSize(p, a) THEN CowEntry(pte[p][a]) ELSE pte[p][a]]

\* Mutant: read-only pages are not counted.
CountWritable(m, p) ==
  [m EXCEPT !.ref = [f \in Frames |->
     IF \E a \in Pages : InSize(p, a) /\ pte[p][a].w /\ pte[p][a].f = f
     THEN (@[f] + 1) % RefRange ELSE @[f]]]

CountPages(m, p) ==
  [m EXCEPT !.ref = [f \in Frames |->
     IF \E a \in Pages : InSize(p, a) /\ pte[p][a].f = f THEN (@[f] + 1) % RefRange
                                                         ELSE @[f]]]

Fork(p, c) ==
  /\ Running(p) /\ state[c] = "unused"
  /\ CanAlloc(IF HasMapped(p) THEN 5 ELSE 4)
  /\ SetMemory(CountPages(Alloc(IF HasMapped(p) THEN 5 ELSE 4), p))
  /\ kstack' = [kstack EXCEPT ![c] = free[1]]
  /\ pgdir' = [pgdir EXCEPT ![c] = free[2]]
  /\ kpt' = [kpt EXCEPT ![c] = free[3]]
  /\ upt' = [upt EXCEPT ![c] = free[4]]
  /\ mpt' = [mpt EXCEPT ![c] = IF HasMapped(p) THEN free[5] ELSE 0]
  /\ pte' = [pte EXCEPT ![p] = CopyUvm(p),
                        ![c] = [a \in Pages |-> IF InSize(p, a) THEN CowEntry(pte[p][a])
                                                ELSE NoPte]]
  /\ mpte' = [mpte EXCEPT ![c] = [m \in Maps |-> IF m \in maps[p] THEN mpte[p][m] ELSE NoPte]]
  /\ maps' = [maps EXCEPT ![c] = maps[p]]
  /\ sz' = [sz EXCEPT ![c] = sz[p]]
  /\ parent' = [parent EXCEPT ![c] = p]
  /\ state' = [state EXCEPT ![c] = "run"]
  /\ UNCHANGED <<teardowns, panicked>>

\* kalloc fails for the child's private page table: copyuvm has already marked
\* and counted the first page, and frees what it built.
ForkFailsInCopy(p) ==
  /\ Running(p) /\ teardowns < MaxTeardowns /\ Len(free) = 3
  /\ \E c \in Procs : state[c] = "unused"
  /\ SetMemory(Incref(Decref(Memory, free[3]), pte[p][0].f))
  /\ pte' = [pte EXCEPT ![p][0] = CowEntry(@)]
  /\ teardowns' = teardowns + 1
  /\ UNCHANGED <<state, parent, sz, maps, mpte, tableVars, panicked>>

\* kalloc fails for the page table of the mappings: freevm of the child, whose
\* kernel stack is not freed.
ForkFailsInMaps(p) ==
  /\ Running(p) /\ teardowns < MaxTeardowns /\ Len(free) = 4
  /\ \E c \in Procs : state[c] = "unused"
  /\ HasMapped(p)
  /\ LET m == CountPages(Alloc(4), p)
         priv == [i \in 1 .. MaxPages |-> IF i <= sz[p] THEN pte[p][i - 1] ELSE NoPte]
         m1 == FoldLeft(FreePage, m, priv)
     IN  SetMemory(Kfree(FreeTable(FreeTable(m1, free[4]), free[3]), free[2]))
  /\ pte' = [pte EXCEPT ![p] = CopyUvm(p)]
  /\ teardowns' = teardowns + 1
  /\ UNCHANGED <<state, parent, sz, maps, mpte, tableVars, panicked>>

-----------------------------------------------------------------------------
(* Stores, and the page fault handler.                                      *)

Store(p, a, v) ==
  /\ Running(p) /\ InSize(p, a) /\ pte[p][a].w
  /\ data' = [data EXCEPT ![pte[p][a].f] = v]
  /\ UNCHANGED <<free, ref, procVars, teardowns, panicked>>

\* A store to a copy-on-write page: copy it if its count says it is shared.
CowFault(p, a) ==
  LET e == pte[p][a]
  IN  /\ Running(p) /\ InSize(p, a) /\ Present(e) /\ ~e.w /\ e.cow
      /\ \/ /\ ref[e.f] > 1 /\ CanAlloc(1)
            /\ LET m == [Alloc(1) EXCEPT !.data[free[1]] = data[e.f]]
               IN  SetMemory(Decref(Incref(m, free[1]), e.f))
            /\ pte' = [pte EXCEPT ![p][a] = [f |-> free[1], w |-> TRUE, cow |-> FALSE]]
            /\ UNCHANGED <<state, parent, sz, maps, mpte, tableVars, teardowns, panicked>>
         \/ /\ ref[e.f] = 1
            /\ pte' = [pte EXCEPT ![p][a] = [e EXCEPT !.w = TRUE, !.cow = FALSE]]
            /\ UNCHANGED <<memVars, state, parent, sz, maps, mpte, tableVars, teardowns, panicked>>
         \/ ref[e.f] > 1 /\ ~CanAlloc(1) /\ Panic("out of memory during COW handling")
         \/ ref[e.f] < 1 /\ Panic("COW: RC < 1")

\* The first access to a page of a mapping: a fresh page, not counted.
LazyFault(p, m) ==
  /\ Running(p) /\ m \in maps[p] /\ ~Present(mpte[p][m])
  /\ LET n == IF mpt[p] = 0 THEN 2 ELSE 1
     IN  IF CanAlloc(n)
           THEN /\ SetMemory([Alloc(n) EXCEPT !.data[free[1]] = Zero])
                /\ mpte' = [mpte EXCEPT ![p][m] = [f |-> free[1], w |-> TRUE, cow |-> FALSE]]
                /\ mpt' = IF n = 2 THEN [mpt EXCEPT ![p] = free[2]] ELSE mpt
                /\ UNCHANGED <<state, parent, sz, pte, maps, kstack, pgdir, kpt, upt, teardowns, panicked>>
           ELSE Panic("lazy allocation failed")

MapStore(p, m, v) ==
  /\ Running(p) /\ Present(mpte[p][m]) /\ mpte[p][m].w
  /\ data' = [data EXCEPT ![mpte[p][m].f] = v]
  /\ UNCHANGED <<free, ref, procVars, teardowns, panicked>>

-----------------------------------------------------------------------------
(* wmap and wunmap: what they do to frames.                                 *)

Wmap(p, m) ==
  /\ Running(p) /\ m \notin maps[p]
  /\ maps' = [maps EXCEPT ![p] = @ \cup {m}]
  /\ UNCHANGED <<memVars, state, parent, sz, pte, mpte, tableVars, teardowns, panicked>>

\* decref frees a page that reaches 0, and wunmap then frees it again.
UnmapPage(m, e) ==
  IF ~Present(e) THEN m
  ELSE LET m1 == Decref(m, e.f)
       IN  IF m1.ref[e.f] = 0 THEN Kfree(m1, e.f) ELSE m1

Wunmap(p, m) ==
  /\ Running(p) /\ m \in maps[p]
  /\ SetMemory(UnmapPage(Memory, mpte[p][m]))
  /\ mpte' = [mpte EXCEPT ![p][m] = NoPte]
  /\ maps' = [maps EXCEPT ![p] = @ \ {m}]
  /\ UNCHANGED <<state, parent, sz, pte, tableVars, teardowns, panicked>>

-----------------------------------------------------------------------------
(* sbrk, by one page.                                                       *)

\* allocuvm counts the page before it looks whether there is one.
Grow(p) ==
  /\ Running(p) /\ sz[p] < MaxPages
  /\ \/ /\ CanAlloc(1) /\ ~Present(pte[p][sz[p]])
        /\ SetMemory([Incref(Alloc(1), free[1]) EXCEPT !.data[free[1]] = Zero])
        /\ pte' = [pte EXCEPT ![p][sz[p]] = [f |-> free[1], w |-> TRUE, cow |-> FALSE]]
        /\ sz' = [sz EXCEPT ![p] = @ + 1]
        /\ UNCHANGED <<state, parent, maps, mpte, tableVars, teardowns, panicked>>
     \/ ~CanAlloc(1) /\ Panic("pa_to_pfn: invalid physical address")
     \/ CanAlloc(1) /\ Present(pte[p][sz[p]]) /\ Panic("remap")

\* deallocuvm clears the entry only if it frees the page.
Shrink(p) ==
  LET a == sz[p] - 1
  IN  /\ Running(p) /\ sz[p] > 1
      /\ SetMemory(FreePage(Memory, pte[p][a]))
      /\ pte' = IF ref[pte[p][a].f] = 0 THEN [pte EXCEPT ![p][a] = NoPte] ELSE pte
      /\ sz' = [sz EXCEPT ![p] = a]
      /\ UNCHANGED <<state, parent, maps, mpte, tableVars, teardowns, panicked>>

-----------------------------------------------------------------------------
(* exec: the new image is built before the old one is freed; the mappings   *)
(* stay in wmap_data but not in the page table.                             *)

\* kalloc order: page directory, kernel page table, first page, its page table,
\* the other pages.
ImageFrame(a) == IF a = 0 THEN free[3] ELSE free[4 + a]

Exec(p, n, v) ==
  /\ Running(p) /\ teardowns < MaxTeardowns
  /\ CanAlloc(n + 3)
  /\ LET counted == [Alloc(n + 3) EXCEPT
                       !.ref = [f \in Frames |-> IF \E a \in 0 .. n - 1 : f = ImageFrame(a)
                                                THEN (@[f] + 1) % RefRange ELSE @[f]],
                       !.data = [f \in Frames |-> IF \E a \in 0 .. n - 1 : f = ImageFrame(a)
                                                 THEN v ELSE @[f]]]
     IN  SetMemory(FreeVm(counted, p))
  /\ pte' = [pte EXCEPT ![p] = [a \in Pages |->
               IF a < n THEN [f |-> ImageFrame(a), w |-> a \notin TextPages, cow |-> FALSE]
               ELSE NoPte]]
  /\ pgdir' = [pgdir EXCEPT ![p] = free[1]]
  /\ kpt' = [kpt EXCEPT ![p] = free[2]]
  /\ upt' = [upt EXCEPT ![p] = free[4]]
  /\ mpt' = [mpt EXCEPT ![p] = 0]
  /\ mpte' = [mpte EXCEPT ![p] = [m \in Maps |-> NoPte]]
  /\ sz' = [sz EXCEPT ![p] = n]
  /\ teardowns' = teardowns + 1
  /\ UNCHANGED <<state, parent, maps, kstack, panicked>>

\* kalloc fails while the image is built.  For a user page, allocuvm panics; for
\* the page table of the first page, the count of that page stays raised.
ExecPanics(p, n) ==
  /\ Running(p) /\ teardowns < MaxTeardowns
  /\ Len(free) = 2 \/ (Len(free) >= 4 /\ ~CanAlloc(n + 3))
  /\ Panic("pa_to_pfn: invalid physical address")

ExecFails(p) ==
  /\ Running(p) /\ Len(free) = 3 /\ teardowns < MaxTeardowns
  /\ SetMemory(Decref(Incref(Memory, free[3]), free[2]))
  /\ teardowns' = teardowns + 1
  /\ UNCHANGED <<procVars, panicked>>

\* exit: nothing is freed before the parent waits.
Exit(p) ==
  /\ Running(p) /\ p # InitProc
  /\ state' = [state EXCEPT ![p] = "zombie"]
  /\ parent' = [q \in Procs |-> IF parent[q] = p THEN InitProc ELSE parent[q]]
  /\ UNCHANGED <<memVars, sz, pte, maps, mpte, tableVars, teardowns, panicked>>

\* wait, called by the parent: the kernel stack, then freevm.
Wait(p, c) ==
  /\ Running(p) /\ state[c] = "zombie" /\ parent[c] = p
  /\ teardowns < MaxTeardowns
  /\ SetMemory(FreeVm(Kfree(Memory, kstack[c]), c))
  /\ state' = [state EXCEPT ![c] = "unused"]
  /\ parent' = [parent EXCEPT ![c] = InitProc]
  /\ sz' = [sz EXCEPT ![c] = 0]
  /\ pte' = [pte EXCEPT ![c] = [a \in Pages |-> NoPte]]
  /\ mpte' = [mpte EXCEPT ![c] = [m \in Maps |-> NoPte]]
  /\ maps' = [maps EXCEPT ![c] = {}]
  /\ kstack' = [kstack EXCEPT ![c] = 0]
  /\ pgdir' = [pgdir EXCEPT ![c] = 0]
  /\ kpt' = [kpt EXCEPT ![c] = 0]
  /\ upt' = [upt EXCEPT ![c] = 0]
  /\ mpt' = [mpt EXCEPT ![c] = 0]
  /\ teardowns' = teardowns + 1
  /\ UNCHANGED panicked

-----------------------------------------------------------------------------
Next ==
  \/ \E p, c \in Procs : Fork(p, c) \/ Wait(p, c)
  \/ \E p \in Procs : ForkFailsInCopy(p) \/ ForkFailsInMaps(p)
                      \/ Grow(p) \/ Shrink(p) \/ Exit(p)
  \/ \E p \in Procs, a \in Pages : CowFault(p, a) \/ \E v \in Values : Store(p, a, v)
  \/ \E p \in Procs, m \in Maps :
       LazyFault(p, m) \/ Wmap(p, m) \/ Wunmap(p, m) \/ \E v \in Values : MapStore(p, m, v)
  \/ \E p \in Procs, n \in 1 .. MaxPages, v \in Values : Exec(p, n, v) \/ ExecPanics(p, n)
  \/ \E p \in Procs : ExecFails(p)

Spec == Init /\ [][Next]_vars
=============================================================================
